--------------------------- MODULE IngestionProofs ---------------------------
(***************************************************************************)
(* Proofs about Ingestion, for every set of signers, blocks, cycles and    *)
(* messages, every stacker set the RPC may answer with, and any number of  *)
(* messages, crashes and failures.                                         *)
(***************************************************************************)
EXTENDS IngestionProperties, TLAPS, SequenceTheorems

------------------------------------------------------------------------------
(* Types: each write of PgWriteStore maps a database to a database.        *)

\* The database of a fresh install has its type.
LEMMA EmptyDatabaseType == EmptyDatabase \in Database
  BY ConstantsAssumption DEF EmptyDatabase, Database

\* A row of a set a signer is in is a row.
LEMMA RowType ==
  ASSUME NEW d \in Database, NEW c \in Cycles, NEW s \in RewardSet(d, c)
  PROVE  s \in Signers /\ d.signers[c][s] \in SignerRow
  BY DEF Database, RewardSet

\* Replacing the rows of one cycle.
LEMMA SetRowsType ==
  ASSUME NEW d \in Database, NEW c \in Cycles,
         NEW rows \in [Signers -> SignerRow \cup {NoRow}]
  PROVE  [d EXCEPT !.signers[c] = rows] \in Database
  BY DEF Database

\* Storing the checkpoint changes nothing else.
LEMMA CheckpointType ==
  ASSUME NEW d \in Database, NEW id \in Nat
  PROVE  /\ [d EXCEPT !.lastMsgId = id] \in Database
         /\ [d EXCEPT !.lastMsgId = id].lastMsgId = id
  BY DEF Database

\* Counting a verdict leaves a signer's row a row.
LEMMA CountVerdictType ==
  ASSUME NEW row \in SignerRow, NEW verdict
  PROVE  CountVerdict(row, verdict) \in SignerRow
<1> DEFINE yes == IF verdict = "accepted" THEN 1 ELSE 0
           no  == IF verdict = "accepted" THEN 0 ELSE 1
<1>1. yes \in Nat /\ no \in Nat
  OBVIOUS
<1> HIDE DEF yes, no
<1>2. [row EXCEPT !.accepted = @ + yes] \in SignerRow
  BY <1>1 DEF SignerRow
<1>3. \A r \in SignerRow : [r EXCEPT !.rejected = @ + no] \in SignerRow
  BY <1>1 DEF SignerRow
<1>4. QED
  BY <1>2, <1>3 DEF CountVerdict, yes, no

\* Writing a chunk of any type leaves the database one.
LEMMA ApplyStackerDbChunkType ==
  ASSUME NEW d \in Database, NEW ch \in Chunk
  PROVE  ApplyStackerDbChunk(d, ch) \in Database
<1>1. ApplyBlockProposal(d, ch) \in Database
  BY DEF ApplyBlockProposal, Database, Chunk
<1>2. ApplyBlockPush(d, ch) \in Database
  BY DEF ApplyBlockPush, Database, Chunk
<1>3. ApplyBlockResponse(d, ch) \in Database
  <2> DEFINE stored == [d EXCEPT !.responses[<<ch.signer, ch.hash>>] = ch.verdict]
             c == d.proposals[ch.hash]
             row == d.signers[c][ch.signer]
  <2>0. IsCounted(d, ch) => c \in Cycles /\ ch.signer \in RewardSet(d, c)
    BY DEF IsCounted, Database, Chunk
  <2>1. stored \in Database /\ stored.signers = d.signers
    BY DEF Database, Chunk
  <2>2. CASE IsCounted(d, ch)
    <3>1. c \in Cycles /\ ch.signer \in Signers /\ row \in SignerRow
      BY <2>0, <2>2, RowType
    <3> HIDE DEF row
    <3>2. CountVerdict(row, ch.verdict) \in SignerRow
      BY <3>1, CountVerdictType
    <3>3. [stored EXCEPT !.signers[c][ch.signer] = CountVerdict(@, ch.verdict)] \in Database
      BY <2>1, <3>1, <3>2 DEF Database, row
    <3>4. QED
      BY <2>2, <3>3 DEF ApplyBlockResponse
  <2>3. CASE ~IsCounted(d, ch)
    BY <2>1, <2>3 DEF ApplyBlockResponse
  <2>4. QED
    BY <2>2, <2>3
<1>4. QED
  BY <1>1, <1>2, <1>3 DEF ApplyStackerDbChunk, IsApplied, Chunk

\* So does replacing a cycle's signers.
LEMMA ReplaceRewardSetType ==
  ASSUME NEW d \in Database, NEW c \in Cycles, NEW set \in SUBSET Signers
  PROVE  ReplaceRewardSet(d, c, set) \in Database
<1>1. [NewSignerRow EXCEPT !.ranked = TRUE] \in SignerRow
  BY DEF NewSignerRow, SignerRow
<1>2. QED
  BY <1>1, SetRowsType DEF ReplaceRewardSet

\* The cycle a block is counted in is one of the chain's, or none.
LEMMA BlockCycleType ==
  ASSUME NEW d \in Database, NEW h \in Hashes
  PROVE  BlockCycle(d, h) \in Cycles \cup {NoRow}
  BY ConstantsAssumption DEF BlockCycle, Database

\* Inserting a block leaves the database one.
LEMMA InsertBlockType ==
  ASSUME NEW d \in Database, NEW h \in Hashes
  PROVE  InsertBlock(d, h) \in Database
<1> DEFINE c == BlockCycle(d, h)
           missed == {s \in Signers : d.responses[<<s, h>>] = NoRow}
           inserted == [d EXCEPT !.blocks = Append(@, h)]
           rows == [s \in Signers |-> IF s \in missed \cap RewardSet(d, c)
                                      THEN [d.signers[c][s] EXCEPT !.missed = @ + 1]
                                      ELSE d.signers[c][s]]
<1>1. inserted \in Database
  <2>1. Append(d.blocks, h) \in Seq(Hashes)
    BY DEF Database
  <2>2. QED
    BY <2>1 DEF Database
<1>2. CASE c = NoRow
  BY <1>1, <1>2 DEF InsertBlock
<1>3. CASE c \in Cycles
  <2>1. ASSUME NEW s \in RewardSet(d, c)
        PROVE  [d.signers[c][s] EXCEPT !.missed = @ + 1] \in SignerRow
    BY <1>3, <2>1, RowType DEF SignerRow
  <2>2. rows \in [Signers -> SignerRow \cup {NoRow}]
    BY <1>3, <2>1 DEF Database
  <2>3. [inserted EXCEPT !.signers[c] = rows] \in Database
    BY <1>1, <1>3, <2>2, SetRowsType
  <2>4. c # NoRow
    BY <1>3, ConstantsAssumption
  <2>5. QED
    BY <2>3, <2>4 DEF InsertBlock
<1>4. QED
  BY <1>2, <1>3, BlockCycleType

\* So does all that is written for a new block message.
LEMMA ApplyBlockType ==
  ASSUME NEW d \in Database, NEW m \in Message
  PROVE  ApplyBlock(d, m) \in Database
<1> DEFINE inserted == IF Header[m.hash].nakamoto THEN InsertBlock(d, m.hash) ELSE d
           signed == [inserted EXCEPT !.sigs = Append(@, m.hash)]
<1>1. m.hash \in Hashes /\ m.set \in SUBSET Signers
  BY DEF Message
<1>2. inserted \in Database
  BY <1>1, InsertBlockType
<1> HIDE DEF inserted
<1>3. signed \in Database
  <2>1. Append(inserted.sigs, m.hash) \in Seq(Hashes)
    BY <1>1, <1>2 DEF Database
  <2>2. QED
    BY <1>2, <2>1 DEF Database
<1> HIDE DEF signed
<1>4. HasCycle(m) => m.cycle \in Cycles
  BY DEF HasCycle, Message
<1>5. ApplyBlock(d, m) = IF HasCycle(m) THEN ReplaceRewardSet(signed, m.cycle, m.set)
                                        ELSE signed
  BY DEF ApplyBlock, signed, inserted
<1>6. QED
  BY <1>1, <1>3, <1>4, <1>5, ReplaceRewardSetType
------------------------------------------------------------------------------
(* Type correctness                                                        *)

\* The message that is handled is one of the stream's.
LEMMA CurrentType ==
  ASSUME stream \in Seq(Messages), pos \in 1..Len(stream)
  PROVE  current \in Message
  BY ConstantsAssumption DEF current

\* A message that announces a reward set has a cycle and its signers.
LEMMA AnnouncedType ==
  ASSUME NEW m \in Message, Announces(m)
  PROVE  m.cycle \in Cycles /\ m.set \in SUBSET Signers
  BY DEF Announces, HasCycle, Message

\* The step handleMsg goes to next fits the message.
LEMMA StepType ==
  ASSUME NEW m \in Message
  PROVE  /\ FirstStep(m) \in {"delete", "block", "chunks", "done"}
         /\ FirstStep(m) = "delete" => Announces(m)
         /\ FirstStep(m) = "block" => m.path = "/new_block" /\ m.sigHash
         /\ FirstStep(m) = "chunks" => m.path = "/stackerdb_chunks"
         /\ AfterRewardSet(m) \in {"block", "done"}
         /\ AfterRewardSet(m) = "block" => m.sigHash
  BY DEF FirstStep, AfterRewardSet, Message

\* An acknowledged request leads to the next step or back to idle.
LEMMA AcknowledgedType ==
  ASSUME TypeOK, NEW step, Acknowledged(step)
  PROVE  pc' \in {step, "idle"} /\ lost' \in Nat
  BY DEF Acknowledged, TypeOK

\* The row of a signer message is one that can be announced.
LEMMA RowOfType ==
  ASSUME NEW ch \in Chunk, ch.type # "Other"
  PROVE  RowOf(ch) \in Row
  BY DEF RowOf, Row, Chunk

\* The initial state has its type.
LEMMA TypeInit == Init => TypeOK
<1> SUFFICES ASSUME Init PROVE TypeOK
  OBVIOUS
<1>1. db \in Database /\ tx \in Database
  BY EmptyDatabaseType DEF Init
<1>2. db.lastMsgId = 0
  BY DEF Init, EmptyDatabase
<1>3. QED
  BY <1>1, <1>2 DEF Init, TypeOK, Steps

\* Every step keeps the types.
LEMMA TypeStep == TypeOK /\ [Next]_vars => TypeOK'
<1> SUFFICES ASSUME TypeOK, [Next]_vars PROVE TypeOK'
  OBVIOUS
<1> USE DEF TypeOK, store, handler, counts
<1>m. pc # "idle" \/ pos <= Len(stream) => current \in Message
  BY CurrentType
<1>1. CASE HandleMsg
  <2>1. current \in Message
    BY <1>1, <1>m DEF HandleMsg
  <2>2. Len(current.chunks) \in Nat
    BY <2>1 DEF Message
  <2>3. QED
    BY <1>1, <2>1, <2>2, StepType DEF HandleMsg, Steps, current
<1>2. CASE RewardSetDelete
  <2>1. Announces(current) /\ current.cycle \in Cycles
    BY <1>2, <1>m, AnnouncedType DEF RewardSetDelete
  <2>2. [s \in Signers |-> NoRow] \in [Signers -> SignerRow \cup {NoRow}]
    OBVIOUS
  <2>3. db' \in Database
    BY <1>2, <2>1, <2>2, SetRowsType DEF RewardSetDelete, Autocommit
  <2>4. db'.lastMsgId = db.lastMsgId
    BY <1>2 DEF RewardSetDelete, Autocommit, Database
  <2>5. pc' \in {"insert", "idle"} /\ lost' \in Nat
    BY <1>2, AcknowledgedType DEF RewardSetDelete
  <2>6. QED
    BY <1>2, <2>1, <2>3, <2>4, <2>5 DEF RewardSetDelete, Autocommit, Steps, current
<1>3. CASE RewardSetInsert
  <2> DEFINE inserted == current.set \ RewardSet(db, current.cycle)
             rows == [s \in Signers |-> IF s \in inserted THEN NewSignerRow
                                        ELSE db.signers[current.cycle][s]]
  <2>1. current \in Message /\ Announces(current) /\ current.cycle \in Cycles
    BY <1>3, <1>m, AnnouncedType DEF RewardSetInsert
  <2>2. NewSignerRow \in SignerRow
    BY DEF NewSignerRow, SignerRow
  <2>3. rows \in [Signers -> SignerRow \cup {NoRow}]
    BY <2>1, <2>2 DEF Database
  <2>4. db' = [db EXCEPT !.signers[current.cycle] = rows] /\ tx' = db'
    BY <1>3 DEF RewardSetInsert, Autocommit
  <2>5. db' \in Database
    BY <2>1, <2>3, <2>4, SetRowsType
  <2>6. db'.lastMsgId = db.lastMsgId
    BY <2>4 DEF Database
  <2>7. pc' \in {"rank", AfterRewardSet(current), "idle"} /\ lost' \in Nat
    <3>1. PICK step \in {"rank", AfterRewardSet(current)} : Acknowledged(step)
      BY <1>3 DEF RewardSetInsert
    <3>2. QED
      BY <3>1, AcknowledgedType
  <2>8. QED
    BY <1>3, <2>1, <2>4, <2>5, <2>6, <2>7, StepType
    DEF RewardSetInsert, Steps, current, Announces
<1>4. CASE RewardSetRank
  <2> DEFINE rows == [s \in Signers |-> RankedRow(db.signers[current.cycle][s])]
  <2>1. current \in Message /\ Announces(current) /\ current.cycle \in Cycles
    BY <1>4, <1>m, AnnouncedType DEF RewardSetRank
  <2>2. \A row \in SignerRow \cup {NoRow} : RankedRow(row) \in SignerRow \cup {NoRow}
    BY DEF RankedRow, SignerRow
  <2>3. rows \in [Signers -> SignerRow \cup {NoRow}]
    BY <2>1, <2>2 DEF Database
  <2>4. db' = [db EXCEPT !.signers[current.cycle] = rows] /\ tx' = db'
    BY <1>4 DEF RewardSetRank, Autocommit
  <2>5. db' \in Database
    BY <2>1, <2>3, <2>4, SetRowsType
  <2>6. db'.lastMsgId = db.lastMsgId
    BY <2>4 DEF Database
  <2>7. pc' \in {AfterRewardSet(current), "idle"} /\ lost' \in Nat
    BY <1>4, AcknowledgedType DEF RewardSetRank
  <2>8. QED
    BY <1>4, <2>1, <2>4, <2>5, <2>6, <2>7, StepType
    DEF RewardSetRank, Steps, current, Announces
<1>5. CASE IngestBlock
  <2> DEFINE applied_ == ApplyBlock(db, current)
  <2>1. current \in Message /\ current.hash \in Hashes
    BY <1>5, <1>m DEF IngestBlock, Message
  <2>2. applied_ \in Database
    BY <2>1, ApplyBlockType
  <2> HIDE DEF applied_
  <2>3. Header[current.hash].height \in Nat /\ pos \in Nat
    BY <2>1, ConstantsAssumption
  <2>4. [applied_ EXCEPT !.tip = Header[current.hash].height, !.lastMsgId = pos] \in Database
    BY <2>2, <2>3 DEF Database
  <2>5. db' = [applied_ EXCEPT !.tip = Header[current.hash].height, !.lastMsgId = pos]
        /\ tx' = db'
    BY <1>5 DEF IngestBlock, Autocommit, applied_
  <2>6. db' \in Database /\ db'.lastMsgId = pos
    BY <2>2, <2>4, <2>5 DEF Database
  <2>7. MissingSets(db, current.hash) \subseteq Cycles
    BY DEF MissingSets
  <2>8. pc' \in {"done", "idle"} /\ lost' \in Nat
    BY <1>5, AcknowledgedType DEF IngestBlock
  <2>9. QED
    BY <1>5, <2>1, <2>5, <2>6, <2>7, <2>8 DEF IngestBlock, Steps, current
<1>6. CASE SkipBlock
  BY <1>6 DEF SkipBlock, Steps, current
<1>7. CASE BlockThrows
  BY <1>7 DEF BlockThrows, AbandonMessage, MissingSets, Steps
<1>8. CASE ApplyChunk
  <2> DEFINE ch == current.chunks[next]
  <2>1. current \in Message /\ ch \in Chunk
    BY <1>8, <1>m DEF ApplyChunk, Message
  <2>2. tx' = ApplyStackerDbChunk(tx, ch)
        /\ applied' = IF IsApplied(tx, ch) THEN applied \cup {RowOf(ch)} ELSE applied
    BY <1>8 DEF ApplyChunk
  <2> HIDE DEF ch
  <2>3. tx' \in Database
    BY <2>1, <2>2, ApplyStackerDbChunkType
  <2>4. applied' \in SUBSET Row
    BY <2>1, <2>2, RowOfType DEF IsApplied
  <2>5. Len(current.chunks) \in Nat
    BY <2>1 DEF Message
  <2>6. QED
    BY <1>8, <2>3, <2>4, <2>5 DEF ApplyChunk, Steps, current
<1>9. CASE CommitChunks
  <2>1. db' = [tx EXCEPT !.lastMsgId = pos] /\ tx' = db'
    BY <1>9 DEF CommitChunks, Autocommit
  <2>2. db' \in Database /\ db'.lastMsgId = pos
    <3>1. pos \in Nat
      OBVIOUS
    <3>2. QED
      BY <2>1, <3>1, CheckpointType
  <2>3. timers' \in Seq(SUBSET Row)
    BY <1>9 DEF CommitChunks
  <2>4. pc' \in {"done", "idle"} /\ lost' \in Nat
    BY <1>9, AcknowledgedType DEF CommitChunks
  <2>5. QED
    BY <1>9, <2>1, <2>2, <2>3, <2>4 DEF CommitChunks, Steps
<1>10. CASE MessageProcessed
  BY <1>10 DEF MessageProcessed, Steps
<1>11. CASE HandlerFails
  <2>1. \E scheduled \in SUBSET Cycles : AbandonMessage(scheduled)
    BY <1>11 DEF HandlerFails, MissingSets
  <2>2. QED
    BY <1>11, <2>1 DEF HandlerFails, AbandonMessage, Steps
<1>12. CASE EmitSignerMessages
  <2>1. Head(timers) \in SUBSET Row /\ Tail(timers) \in Seq(SUBSET Row)
    BY <1>12 DEF EmitSignerMessages
  <2>2. QED
    BY <1>12, <2>1 DEF EmitSignerMessages, Steps, current
<1>13. ASSUME NEW c \in Cycles, StackerSetFetched(c) PROVE TypeOK'
  <2>1. RpcSigners[c] \in SUBSET Signers
    BY ConstantsAssumption
  <2>2. db' \in Database /\ tx' \in Database
    BY <1>13, <2>1, ReplaceRewardSetType DEF StackerSetFetched
  <2>3. db'.lastMsgId = db.lastMsgId
    BY <1>13 DEF StackerSetFetched, ReplaceRewardSet, Database
  <2>4. QED
    BY <1>13, <2>2, <2>3 DEF StackerSetFetched, current
<1>14. ASSUME NEW c \in Cycles, StackerSetPrePox4(c) PROVE TypeOK'
  BY <1>14 DEF StackerSetPrePox4, current
<1>15. ASSUME NEW pox \in PoxInfos, UpdatePoxInfo(pox) PROVE TypeOK'
  <2>1. db' \in Database /\ tx' \in Database /\ db'.lastMsgId = db.lastMsgId
    BY <1>15 DEF UpdatePoxInfo, Database
  <2>2. QED
    BY <1>15, <2>1 DEF UpdatePoxInfo, current
<1>16. CASE Crash
  <2>1. db.lastMsgId \in Nat
    BY DEF Database
  <2>2. QED
    BY <1>16, <2>1 DEF Crash, Steps
<1>17. ASSUME NEW m \in Messages, Publish(m) PROVE TypeOK'
  <2>1. stream' \in Seq(Messages) /\ Len(stream') = Len(stream) + 1
    BY <1>17 DEF Publish
  <2>2. db.lastMsgId \in Nat
    BY DEF Database
  <2>3. QED
    BY <1>17, <2>1, <2>2 DEF Publish
<1>18. CASE UNCHANGED vars
  BY <1>18 DEF vars, current
<1>19. QED
  BY <1>1, <1>2, <1>3, <1>4, <1>5, <1>6, <1>7, <1>8, <1>9, <1>10, <1>11, <1>12,
     <1>13, <1>14, <1>15, <1>16, <1>17, <1>18
  DEF Next, HandlerStep, AwaitMessages

\* Every variable has its type, and the handler is always at a step of handleMsg
\* that fits the message it handles.
THEOREM TypeCorrect == Spec => []TypeOK
  BY TypeInit, TypeStep, PTL DEF Spec
------------------------------------------------------------------------------
(* What each write leaves alone, and which rows it adds                    *)

\* What writing a chunk leaves alone, and the one row it may add.
LEMMA ChunkFrame ==
  ASSUME NEW d \in Database, NEW ch \in Chunk
  PROVE  LET e == ApplyStackerDbChunk(d, ch) IN
         /\ e.tip = d.tip /\ e.blocks = d.blocks /\ e.sigs = d.sigs
         /\ e.pox = d.pox /\ e.lastMsgId = d.lastMsgId
         /\ \A row \in Row : HasRow(e, row) <=>
              HasRow(d, row) \/ (IsApplied(d, ch) /\ row = RowOf(ch))
<1> DEFINE e == ApplyStackerDbChunk(d, ch)
<1>1. CASE ~IsApplied(d, ch)
  <2>1. e = d
    BY <1>1 DEF ApplyStackerDbChunk
  <2>2. QED
    BY <1>1, <2>1
<1>2. CASE IsApplied(d, ch) /\ ch.type = "BlockProposal"
  <2>1. e = ApplyBlockProposal(d, ch)
    BY <1>2 DEF ApplyStackerDbChunk
  <2>2. /\ e.tip = d.tip /\ e.blocks = d.blocks /\ e.sigs = d.sigs
        /\ e.pox = d.pox /\ e.lastMsgId = d.lastMsgId
        /\ e.responses = d.responses /\ e.pushes = d.pushes
        /\ e.proposals = [d.proposals EXCEPT ![ch.hash] = ch.cycle]
    BY <2>1 DEF ApplyBlockProposal, Database
  <2>3. ch.cycle # NoRow /\ ch.hash \in Hashes
    BY ConstantsAssumption DEF Chunk
  <2> HIDE DEF e
  <2>4. ASSUME NEW row \in Row
        PROVE  HasRow(e, row) <=> HasRow(d, row) \/ row = RowOf(ch)
    BY <1>2, <2>2, <2>3, <2>4 DEF HasRow, RowOf, Row, Database
  <2>5. QED
    BY <1>2, <2>2, <2>4 DEF e
<1>3. CASE IsApplied(d, ch) /\ ch.type = "BlockResponse"
  <2> DEFINE stored == [d EXCEPT !.responses[<<ch.signer, ch.hash>>] = ch.verdict]
  <2>1. e = ApplyBlockResponse(d, ch)
    BY <1>3 DEF ApplyStackerDbChunk
  <2>2. stored \in Database
        /\ stored.responses = [d.responses EXCEPT ![<<ch.signer, ch.hash>>] = ch.verdict]
        /\ stored.tip = d.tip /\ stored.blocks = d.blocks /\ stored.sigs = d.sigs
        /\ stored.pox = d.pox /\ stored.lastMsgId = d.lastMsgId
        /\ stored.proposals = d.proposals /\ stored.pushes = d.pushes
    BY DEF Database, Chunk
  <2>3. e = stored \/ \E rows : e = [stored EXCEPT !.signers = rows]
    BY <2>1, <2>2 DEF ApplyBlockResponse, Database
  <2>4. /\ e.tip = d.tip /\ e.blocks = d.blocks /\ e.sigs = d.sigs
        /\ e.pox = d.pox /\ e.lastMsgId = d.lastMsgId
        /\ e.proposals = d.proposals /\ e.pushes = d.pushes
        /\ e.responses = stored.responses
    BY <2>2, <2>3 DEF Database
  <2>5. ch.verdict # NoRow /\ ch.hash \in Hashes /\ ch.signer \in Signers
    BY ConstantsAssumption DEF Chunk
  <2> HIDE DEF e, stored
  <2>6. ASSUME NEW row \in Row
        PROVE  HasRow(e, row) <=> HasRow(d, row) \/ row = RowOf(ch)
    BY <1>3, <2>2, <2>4, <2>5, <2>6 DEF HasRow, RowOf, Row, Database
  <2>7. QED
    BY <1>3, <2>4, <2>6 DEF e
<1>4. CASE IsApplied(d, ch) /\ ch.type = "BlockPushed"
  <2>1. e = ApplyBlockPush(d, ch)
    BY <1>4 DEF ApplyStackerDbChunk
  <2>2. /\ e.tip = d.tip /\ e.blocks = d.blocks /\ e.sigs = d.sigs
        /\ e.pox = d.pox /\ e.lastMsgId = d.lastMsgId
        /\ e.responses = d.responses /\ e.proposals = d.proposals
        /\ e.pushes = d.pushes \cup {ch.hash}
    BY <2>1 DEF ApplyBlockPush, Database
  <2> HIDE DEF e
  <2>3. ASSUME NEW row \in Row
        PROVE  HasRow(e, row) <=> HasRow(d, row) \/ row = RowOf(ch)
    BY <1>4, <2>2, <2>3 DEF HasRow, RowOf, Row, Database
  <2>4. QED
    BY <1>4, <2>2, <2>3 DEF e
<1>5. QED
  BY <1>1, <1>2, <1>3, <1>4 DEF IsApplied, Chunk

\* Databases that differ in the signers' rows and the PoX parameters only.
SameTables(d, e) ==
  /\ e.tip = d.tip /\ e.blocks = d.blocks /\ e.sigs = d.sigs
  /\ e.lastMsgId = d.lastMsgId
  /\ e.proposals = d.proposals /\ e.responses = d.responses /\ e.pushes = d.pushes

\* Writing the signers of a cycle leaves the other tables alone.
LEMMA SetRowsFrame ==
  ASSUME NEW d \in Database, NEW c, NEW rows
  PROVE  SameTables(d, [d EXCEPT !.signers[c] = rows])
  BY DEF SameTables, Database

\* So does replacing a reward set.
LEMMA ReplaceFrame ==
  ASSUME NEW d \in Database, NEW c, NEW set
  PROVE  SameTables(d, ReplaceRewardSet(d, c, set))
<1>1. SameTables(d, d)
  BY DEF SameTables
<1>2. QED
  BY <1>1, SetRowsFrame DEF ReplaceRewardSet

\* A block message adds its block and its signatures and no other row.
LEMMA ApplyBlockFrame ==
  ASSUME NEW d \in Database, NEW m \in Message
  PROVE  LET e == ApplyBlock(d, m) IN
         /\ e.blocks = IF Header[m.hash].nakamoto THEN Append(d.blocks, m.hash) ELSE d.blocks
         /\ e.sigs = Append(d.sigs, m.hash)
         /\ e.tip = d.tip /\ e.lastMsgId = d.lastMsgId
         /\ e.proposals = d.proposals /\ e.responses = d.responses /\ e.pushes = d.pushes
<1> DEFINE h == m.hash
           withRow == [d EXCEPT !.blocks = Append(@, h)]
           inserted == IF Header[h].nakamoto THEN InsertBlock(d, h) ELSE d
           signed == [inserted EXCEPT !.sigs = Append(@, h)]
<1>1. h \in Hashes
  BY DEF Message
<1>2. withRow \in Database
      /\ withRow.blocks = Append(d.blocks, h) /\ withRow.sigs = d.sigs
      /\ withRow.tip = d.tip /\ withRow.lastMsgId = d.lastMsgId
      /\ withRow.proposals = d.proposals /\ withRow.responses = d.responses
      /\ withRow.pushes = d.pushes
  <2>1. Append(d.blocks, h) \in Seq(Hashes)
    BY <1>1 DEF Database
  <2>2. QED
    BY <2>1 DEF Database
<1>3. SameTables(withRow, InsertBlock(d, h))
  <2> DEFINE c == BlockCycle(d, h)
             missed == {s \in Signers : d.responses[<<s, h>>] = NoRow}
             rows == [s \in Signers |-> IF s \in missed \cap RewardSet(d, c)
                                        THEN [d.signers[c][s] EXCEPT !.missed = @ + 1]
                                        ELSE d.signers[c][s]]
  <2>1. InsertBlock(d, h) = IF c = NoRow THEN withRow
                                         ELSE [withRow EXCEPT !.signers[c] = rows]
    BY DEF InsertBlock
  <2>2. SameTables(withRow, withRow)
    BY DEF SameTables
  <2> HIDE DEF withRow, c, rows
  <2>3. SameTables(withRow, [withRow EXCEPT !.signers[c] = rows])
    BY <1>2, SetRowsFrame
  <2>4. QED
    BY <2>1, <2>2, <2>3
<1>4. inserted \in Database
  BY <1>1, InsertBlockType
<1>5. /\ inserted.blocks = IF Header[h].nakamoto THEN Append(d.blocks, h) ELSE d.blocks
      /\ inserted.sigs = d.sigs /\ inserted.tip = d.tip
      /\ inserted.lastMsgId = d.lastMsgId /\ inserted.proposals = d.proposals
      /\ inserted.responses = d.responses /\ inserted.pushes = d.pushes
  BY <1>2, <1>3 DEF SameTables
<1> HIDE DEF withRow, inserted
<1>6. signed \in Database
  <2>1. Append(inserted.sigs, h) \in Seq(Hashes)
    BY <1>1, <1>4 DEF Database
  <2>2. QED
    BY <1>4, <2>1 DEF Database
<1>7. /\ signed.blocks = inserted.blocks /\ signed.sigs = Append(inserted.sigs, h)
      /\ signed.tip = inserted.tip
      /\ signed.lastMsgId = inserted.lastMsgId /\ signed.proposals = inserted.proposals
      /\ signed.responses = inserted.responses /\ signed.pushes = inserted.pushes
  BY <1>4 DEF Database
<1> HIDE DEF signed
<1>8. ApplyBlock(d, m) = signed \/ ApplyBlock(d, m) = ReplaceRewardSet(signed, m.cycle, m.set)
  BY DEF ApplyBlock, signed, inserted
<1>9. SameTables(signed, signed)
  BY DEF SameTables
<1>10. SameTables(signed, ApplyBlock(d, m))
  BY <1>6, <1>8, <1>9, ReplaceFrame
<1>11. QED
  BY <1>5, <1>7, <1>10 DEF SameTables
------------------------------------------------------------------------------
(* What a step does to the committed database and to the open transaction  *)

\* What the transaction of a block commits.
LEMMA IngestBlockEffect ==
  ASSUME TypeOK, IngestBlock
  PROVE  LET h == current.hash IN
         /\ current \in Message /\ h \in Hashes /\ db.tip < Height(h)
         /\ db'.blocks = IF Header[h].nakamoto THEN Append(db.blocks, h) ELSE db.blocks
         /\ db'.sigs = Append(db.sigs, h)
         /\ db'.tip = Height(h) /\ db'.lastMsgId = pos
         /\ db'.proposals = db.proposals /\ db'.responses = db.responses
         /\ db'.pushes = db.pushes
<1> DEFINE h == current.hash
           e == ApplyBlock(db, current)
<1>1. current \in Message /\ h \in Hashes
  BY CurrentType DEF IngestBlock, TypeOK, Message
<1>2. e \in Database
  BY <1>1, ApplyBlockType DEF TypeOK
<1>3. /\ e.blocks = IF Header[h].nakamoto THEN Append(db.blocks, h) ELSE db.blocks
      /\ e.sigs = Append(db.sigs, h)
      /\ e.proposals = db.proposals /\ e.responses = db.responses /\ e.pushes = db.pushes
  BY <1>1, ApplyBlockFrame DEF TypeOK
<1>4. db' = [e EXCEPT !.tip = Header[h].height, !.lastMsgId = pos]
  BY DEF IngestBlock, Autocommit
<1> HIDE DEF e
<1>5. /\ db'.tip = Header[h].height /\ db'.lastMsgId = pos
      /\ db'.blocks = e.blocks /\ db'.sigs = e.sigs /\ db'.proposals = e.proposals
      /\ db'.responses = e.responses /\ db'.pushes = e.pushes
  BY <1>2, <1>4 DEF Database
<1>6. db.tip < Height(h)
  BY <1>1, ConstantsAssumption
  DEF IngestBlock, IsPreviouslyIngested, Height, TypeOK, Database
<1>7. QED
  BY <1>1, <1>3, <1>5, <1>6 DEF Height

\* What the transaction of a chunk event commits, and what it announces.
LEMMA CommitChunksEffect ==
  ASSUME TypeOK, CommitChunks
  PROVE  /\ db'.lastMsgId = pos /\ db'.tip = tx.tip
         /\ db'.blocks = tx.blocks /\ db'.sigs = tx.sigs
         /\ db'.proposals = tx.proposals /\ db'.responses = tx.responses
         /\ db'.pushes = tx.pushes /\ db'.signers = tx.signers
  BY DEF CommitChunks, Autocommit, TypeOK, Database

\* No other step changes any table but the signers' and the PoX parameters.
LEMMA OtherEffects ==
  ASSUME TypeOK, [Next]_vars
  PROVE  IngestBlock \/ CommitChunks \/ SameTables(db, db')
<1> USE DEF TypeOK, store, handler, counts
<1>1. SameTables(db, db)
  BY DEF SameTables
<1>2. CASE RewardSetDelete \/ RewardSetInsert \/ RewardSetRank
  <2>1. CASE RewardSetDelete
    BY <2>1, SetRowsFrame DEF RewardSetDelete, Autocommit
  <2>2. CASE RewardSetInsert
    BY <2>2, SetRowsFrame DEF RewardSetInsert, Autocommit
  <2>3. CASE RewardSetRank
    BY <2>3, SetRowsFrame DEF RewardSetRank, Autocommit
  <2>4. QED
    BY <1>2, <2>1, <2>2, <2>3
<1>3. ASSUME NEW c \in Cycles, StackerSetFetched(c) PROVE SameTables(db, db')
  BY <1>3, ReplaceFrame DEF StackerSetFetched
<1>4. ASSUME NEW pox \in PoxInfos, UpdatePoxInfo(pox) PROVE SameTables(db, db')
  BY <1>4 DEF UpdatePoxInfo, SameTables, Database
<1>5. CASE \/ HandleMsg \/ SkipBlock \/ BlockThrows \/ ApplyChunk \/ MessageProcessed
           \/ HandlerFails \/ EmitSignerMessages \/ Crash
           \/ \E c \in Cycles : StackerSetPrePox4(c)
           \/ \E m \in Messages : Publish(m)
           \/ UNCHANGED vars
  <2>1. db' = db
    BY <1>5 DEF HandleMsg, SkipBlock, BlockThrows, AbandonMessage, ApplyChunk,
                MessageProcessed, HandlerFails, EmitSignerMessages, StackerSetPrePox4,
                Crash, Publish, vars
  <2>2. QED
    BY <1>1, <2>1
<1>6. QED
  BY <1>2, <1>3, <1>4, <1>5 DEF Next, HandlerStep, AwaitMessages

\* The open transaction either is extended by a chunk, or sees what another
\* writer commits, or has just begun or ended.
LEMMA TransactionEffect ==
  ASSUME TypeOK, [Next]_vars
  PROVE  \/ ApplyChunk
         \/ tx' = db' /\ applied' = {}
         \/ SameTables(tx, tx') /\ SameTables(db, db') /\ applied' = applied
<1> USE DEF TypeOK, store, handler, counts
<1>1. SameTables(db, db) /\ SameTables(tx, tx)
  BY DEF SameTables
<1>2. CASE RewardSetDelete \/ RewardSetInsert \/ RewardSetRank
  <2>1. tx' = db'
    <3>1. CASE RewardSetDelete
      BY <3>1 DEF RewardSetDelete, Autocommit
    <3>2. CASE RewardSetInsert
      BY <3>2 DEF RewardSetInsert, Autocommit
    <3>3. CASE RewardSetRank
      BY <3>3 DEF RewardSetRank, Autocommit
    <3>4. QED
      BY <1>2, <3>1, <3>2, <3>3
  <2>2. applied' = {}
    BY <1>2 DEF RewardSetDelete, RewardSetInsert, RewardSetRank
  <2>3. QED
    BY <2>1, <2>2
<1>3. ASSUME NEW c \in Cycles, StackerSetFetched(c)
      PROVE  SameTables(tx, tx') /\ SameTables(db, db') /\ applied' = applied
  BY <1>3, ReplaceFrame DEF StackerSetFetched
<1>4. ASSUME NEW pox \in PoxInfos, UpdatePoxInfo(pox)
      PROVE  SameTables(tx, tx') /\ SameTables(db, db') /\ applied' = applied
  BY <1>4 DEF UpdatePoxInfo, SameTables, Database
<1>5. CASE IngestBlock \/ CommitChunks
  <2>1. tx' = db'
    <3>1. CASE IngestBlock
      BY <3>1 DEF IngestBlock, Autocommit
    <3>2. CASE CommitChunks
      BY <3>2 DEF CommitChunks, Autocommit
    <3>3. QED
      BY <1>5, <3>1, <3>2
  <2>2. applied' = {}
    BY <1>5 DEF IngestBlock, CommitChunks
  <2>3. QED
    BY <2>1, <2>2
<1>6. CASE BlockThrows \/ HandlerFails \/ Crash
  BY <1>6 DEF BlockThrows, HandlerFails, AbandonMessage, Crash
<1>7. CASE \/ HandleMsg \/ SkipBlock \/ MessageProcessed \/ EmitSignerMessages
           \/ \E c \in Cycles : StackerSetPrePox4(c)
           \/ \E m \in Messages : Publish(m)
           \/ UNCHANGED vars
  <2>1. db' = db /\ tx' = tx /\ applied' = applied
    BY <1>7 DEF HandleMsg, SkipBlock, MessageProcessed, EmitSignerMessages,
                StackerSetPrePox4, Publish, vars
  <2>2. QED
    BY <1>1, <2>1
<1>8. QED
  BY <1>2, <1>3, <1>4, <1>5, <1>6, <1>7 DEF Next, HandlerStep, AwaitMessages
------------------------------------------------------------------------------
(* The open transaction only adds rows to the committed database, and       *)
(* `applied` names some it added.                                          *)

TxExtendsDb ==
  /\ tx.tip = db.tip /\ tx.blocks = db.blocks /\ tx.sigs = db.sigs
  /\ \A row \in Row : HasRow(db, row) => HasRow(tx, row)
  /\ \A row \in applied : HasRow(tx, row) /\ ~HasRow(db, row)

\* The same tables have the same rows.
LEMMA SameTablesSameRows ==
  ASSUME NEW d, NEW e, SameTables(d, e), NEW row
  PROVE  HasRow(e, row) <=> HasRow(d, row)
  BY DEF SameTables, HasRow

\* At first there is nothing to extend.
LEMMA TxInit == Init => TxExtendsDb
  BY DEF Init, TxExtendsDb

\* Every step leaves an open transaction an extension of what is committed.
LEMMA TxStep == TypeOK /\ TxExtendsDb /\ [Next]_vars => TxExtendsDb'
<1> SUFFICES ASSUME TypeOK, TxExtendsDb, [Next]_vars PROVE TxExtendsDb'
  OBVIOUS
<1>1. CASE ApplyChunk
  <2> DEFINE ch == current.chunks[next]
  <2>1. ch \in Chunk
    BY <1>1, CurrentType DEF ApplyChunk, TypeOK, Message
  <2>2. /\ tx' = ApplyStackerDbChunk(tx, ch) /\ db' = db
        /\ applied' = IF IsApplied(tx, ch) THEN applied \cup {RowOf(ch)} ELSE applied
    BY <1>1 DEF ApplyChunk
  <2> HIDE DEF ch
  <2>3. tx'.tip = tx.tip /\ tx'.blocks = tx.blocks /\ tx'.sigs = tx.sigs
    BY <2>1, <2>2, ChunkFrame DEF TypeOK
  <2>4. \A row \in Row : HasRow(tx', row) <=>
          HasRow(tx, row) \/ (IsApplied(tx, ch) /\ row = RowOf(ch))
    BY <2>1, <2>2, ChunkFrame DEF TypeOK
  <2>5. IsApplied(tx, ch) => RowOf(ch) \in Row /\ ~HasRow(tx, RowOf(ch))
    BY <2>1, RowOfType DEF IsApplied
  <2>6. QED
    BY <2>2, <2>3, <2>4, <2>5 DEF TxExtendsDb, TypeOK
<1>2. CASE tx' = db' /\ applied' = {}
  BY <1>2 DEF TxExtendsDb
<1>3. CASE SameTables(tx, tx') /\ SameTables(db, db') /\ applied' = applied
  <2>1. \A row : (HasRow(tx', row) <=> HasRow(tx, row)) /\ (HasRow(db', row) <=> HasRow(db, row))
    BY <1>3, SameTablesSameRows
  <2>2. QED
    BY <1>3, <2>1 DEF TxExtendsDb, SameTables
<1>4. QED
  BY <1>1, <1>2, <1>3, TransactionEffect

\* What a transaction will commit always extends what is committed.
LEMMA TxCorrect == Spec => []TxExtendsDb
  BY TypeCorrect, TxInit, TxStep, PTL DEF Spec

\* Rows are never deleted from block_proposals, block_responses or block_pushes.
LEMMA RowsStay ==
  ASSUME TypeOK, TxExtendsDb, [Next]_vars, NEW row \in Row, HasRow(db, row)
  PROVE  HasRow(db', row)
<1>1. CASE IngestBlock
  BY <1>1, IngestBlockEffect DEF HasRow
<1>2. CASE CommitChunks
  BY <1>2, CommitChunksEffect DEF HasRow, TxExtendsDb
<1>3. CASE SameTables(db, db')
  BY <1>3, SameTablesSameRows
<1>4. QED
  BY <1>1, <1>2, <1>3, OtherEffects
------------------------------------------------------------------------------
(* Blocks                                                                  *)

\* A block above all the others is appended in order.
LEMMA AscendingAppend ==
  ASSUME NEW seq \in Seq(Hashes), NEW h \in Hashes, NEW tip \in Nat,
         Ascending(seq), \A x \in Elements(seq) : Height(x) <= tip, tip < Height(h)
  PROVE  Ascending(Append(seq, h)) /\ Elements(Append(seq, h)) = Elements(seq) \cup {h}
<1>1. /\ Len(Append(seq, h)) = Len(seq) + 1 /\ Len(seq) \in Nat
      /\ \A i \in 1..Len(seq) : Append(seq, h)[i] = seq[i]
      /\ Append(seq, h)[Len(seq) + 1] = h
  BY AppendProperties
<1>2. Elements(Append(seq, h)) = Elements(seq) \cup {h}
  BY <1>1 DEF Elements
<1>3. \A i \in 1..Len(seq) : Height(seq[i]) \in Nat /\ Height(seq[i]) <= tip
  BY ConstantsAssumption DEF Elements, Height
<1>4. Height(h) \in Nat
  BY ConstantsAssumption DEF Height
<1> HIDE DEF Height
<1>5. ASSUME NEW i \in 1..Len(Append(seq, h)), NEW j \in 1..Len(Append(seq, h)), i < j
      PROVE  Height(Append(seq, h)[i]) < Height(Append(seq, h)[j])
  <2>1. CASE j \in 1..Len(seq)
    BY <1>1, <1>5, <2>1 DEF Ascending
  <2>2. CASE j = Len(seq) + 1
    <3>1. i \in 1..Len(seq) /\ Append(seq, h)[i] = seq[i] /\ Append(seq, h)[j] = h
      BY <1>1, <1>5, <2>2
    <3>2. QED
      BY <1>3, <1>4, <3>1
  <2>3. QED
    BY <1>1, <1>5, <2>1, <2>2
<1>6. QED
  BY <1>2, <1>5 DEF Ascending

\* There is no block at first.
LEMMA BlocksInit == Init => BlocksIngestedOnce
  BY DEF Init, EmptyDatabase, BlocksIngestedOnce, Ascending, Elements

\* Every step keeps the blocks in order, each of them once.
LEMMA BlocksStep ==
  TypeOK /\ TxExtendsDb /\ BlocksIngestedOnce /\ [Next]_vars => BlocksIngestedOnce'
<1> SUFFICES ASSUME TypeOK, TxExtendsDb, BlocksIngestedOnce, [Next]_vars
             PROVE  BlocksIngestedOnce'
  OBVIOUS
<1>1. CASE IngestBlock
  <2> DEFINE h == current.hash
  <2>1. db.blocks \in Seq(Hashes) /\ db.sigs \in Seq(Hashes) /\ db.tip \in Nat
    BY DEF TypeOK, Database
  <2>2. /\ h \in Hashes /\ db.tip < Height(h) /\ db'.tip = Height(h)
        /\ db'.blocks = IF Header[h].nakamoto THEN Append(db.blocks, h) ELSE db.blocks
        /\ db'.sigs = Append(db.sigs, h)
    BY <1>1, IngestBlockEffect
  <2> HIDE DEF h
  <2>3. Ascending(db'.sigs) /\ Elements(db'.sigs) = Elements(db.sigs) \cup {h}
    BY <2>1, <2>2, AscendingAppend DEF BlocksIngestedOnce
  <2>4. /\ Ascending(db'.blocks)
        /\ Elements(db'.blocks) = IF Header[h].nakamoto THEN Elements(db.blocks) \cup {h}
                                  ELSE Elements(db.blocks)
    BY <2>1, <2>2, AscendingAppend DEF BlocksIngestedOnce
  <2>5. h \notin Elements(db.sigs) /\ h \notin Elements(db.blocks)
    BY <2>1, <2>2, ConstantsAssumption DEF BlocksIngestedOnce, Height
  <2>6. Elements(db.sigs) \subseteq Hashes /\ Elements(db.blocks) \subseteq Hashes
    BY <2>1 DEF Elements
  <2>7. \A x \in Elements(db'.blocks) \cup Elements(db'.sigs) : Height(x) <= db'.tip
    BY <2>1, <2>2, <2>3, <2>4, <2>6, ConstantsAssumption DEF BlocksIngestedOnce, Height
  <2>8. \A x \in Hashes : x \in Elements(db'.blocks)
                           <=> x \in Elements(db'.sigs) /\ Header[x].nakamoto
    BY <2>3, <2>4, <2>5 DEF BlocksIngestedOnce
  <2>9. QED
    BY <2>3, <2>4, <2>7, <2>8 DEF BlocksIngestedOnce
<1>2. CASE CommitChunks
  BY <1>2, CommitChunksEffect DEF TxExtendsDb, BlocksIngestedOnce
<1>3. CASE SameTables(db, db')
  BY <1>3 DEF SameTables, BlocksIngestedOnce
<1>4. QED
  BY <1>1, <1>2, <1>3, OtherEffects

\* However often a block is delivered, and whatever crashes in between, the tables
\* hold one block per height and one row and one batch of signatures per block.
THEOREM BlocksAreIngestedOnce == Spec => []BlocksIngestedOnce
  BY TypeCorrect, TxCorrect, BlocksInit, BlocksStep, PTL DEF Spec
------------------------------------------------------------------------------
(* Events for listeners                                                    *)

\* Nothing but a chunk event's commit and its timer announces rows.
LEMMA OtherEventEffects ==
  ASSUME [Next]_vars
  PROVE  \/ CommitChunks \/ EmitSignerMessages
         \/ timers' \in {timers, <<>>} /\ heard' = heard
<1> USE DEF store, handler, counts
<1>1. CASE \/ HandleMsg \/ RewardSetDelete \/ RewardSetInsert \/ RewardSetRank
           \/ IngestBlock \/ SkipBlock \/ ApplyChunk \/ MessageProcessed
  BY <1>1 DEF HandleMsg, RewardSetDelete, RewardSetInsert, RewardSetRank, IngestBlock,
              SkipBlock, ApplyChunk, MessageProcessed
<1>2. CASE BlockThrows \/ HandlerFails \/ Crash
  BY <1>2 DEF BlockThrows, HandlerFails, AbandonMessage, Crash
<1>3. CASE \E c \in Cycles : StackerSetFetched(c) \/ StackerSetPrePox4(c)
  BY <1>3 DEF StackerSetFetched, StackerSetPrePox4
<1>4. CASE \/ \E pox \in PoxInfos : UpdatePoxInfo(pox)
           \/ \E m \in Messages : Publish(m)
           \/ UNCHANGED vars
  BY <1>4 DEF UpdatePoxInfo, Publish, vars
<1>5. QED
  BY <1>1, <1>2, <1>3, <1>4 DEF Next, HandlerStep, AwaitMessages

\* Nothing is announced at first.
LEMMA AnnouncedInit == Init => AnnouncedOnceAndDurable
  BY DEF Init, AnnouncedOnceAndDurable, Pending, Elements

\* Every step announces only rows that are committed and never one twice.
LEMMA AnnouncedStep ==
  TypeOK /\ TxExtendsDb /\ AnnouncedOnceAndDurable /\ [Next]_vars => AnnouncedOnceAndDurable'
<1> SUFFICES ASSUME TypeOK, TxExtendsDb, AnnouncedOnceAndDurable, [Next]_vars
             PROVE  AnnouncedOnceAndDurable'
  OBVIOUS
<1>1. timers \in Seq(SUBSET Row) /\ heard \subseteq Row /\ applied \subseteq Row
  BY DEF TypeOK
<1>2. Pending \cup heard \subseteq Row
  BY <1>1 DEF Pending, Elements
<1>3. \A row \in Pending \cup heard : HasRow(db', row)
  BY <1>2, RowsStay DEF AnnouncedOnceAndDurable
<1>4. CASE CommitChunks
  <2>1. CASE applied = {} \/ pc' = "idle"
    <3>1. timers' = timers /\ heard' = heard
      BY <1>4, <2>1 DEF CommitChunks
    <3>2. QED
      BY <1>3, <3>1 DEF AnnouncedOnceAndDurable, Pending
  <2>2. CASE applied # {} /\ pc' # "idle"
    <3>1. timers' = Append(timers, applied) /\ heard' = heard
      BY <1>4, <2>2 DEF CommitChunks
    <3>2. /\ Len(timers') = Len(timers) + 1 /\ Len(timers) \in Nat
          /\ \A i \in 1..Len(timers) : timers'[i] = timers[i]
          /\ timers'[Len(timers) + 1] = applied
      BY <1>1, <3>1, AppendProperties
    <3>3. Pending' = Pending \cup applied
      BY <3>2 DEF Pending, Elements
    <3>4. \A row \in applied : row \notin Pending /\ row \notin heard
      BY DEF TxExtendsDb, AnnouncedOnceAndDurable
    <3>5. \A row \in applied : HasRow(db', row)
      BY <1>4, CommitChunksEffect DEF TxExtendsDb, HasRow
    <3>6. \A i \in 1..Len(timers) : timers[i] \cap applied = {}
      BY <3>4 DEF Pending, Elements
    <3>7. \A i, j \in 1..Len(timers') : i # j => timers'[i] \cap timers'[j] = {}
      <4> SUFFICES ASSUME NEW i \in 1..Len(timers'), NEW j \in 1..Len(timers'), i # j
                   PROVE  timers'[i] \cap timers'[j] = {}
        OBVIOUS
      <4>1. CASE i \in 1..Len(timers) /\ j \in 1..Len(timers)
        BY <3>2, <4>1 DEF AnnouncedOnceAndDurable
      <4>2. CASE i = Len(timers) + 1 /\ j \in 1..Len(timers)
        BY <3>2, <3>6, <4>2
      <4>3. CASE i \in 1..Len(timers) /\ j = Len(timers) + 1
        BY <3>2, <3>6, <4>3
      <4>4. QED
        BY <3>2, <4>1, <4>2, <4>3
    <3>8. QED
      BY <1>3, <3>1, <3>3, <3>4, <3>5, <3>7 DEF AnnouncedOnceAndDurable
  <2>3. QED
    BY <2>1, <2>2
<1>5. CASE EmitSignerMessages
  <2>1. timers # <<>> /\ timers' = Tail(timers) /\ heard' = heard \cup Head(timers)
    BY <1>5 DEF EmitSignerMessages
  <2>2. /\ Len(timers) \in Nat \ {0} /\ Len(timers') = Len(timers) - 1
        /\ Head(timers) = timers[1]
        /\ \A i \in 1..Len(timers') : timers'[i] = timers[i + 1]
    BY <1>1, <2>1, HeadTailProperties
  <2>3. Pending' \subseteq Pending /\ Head(timers) \subseteq Pending
    BY <2>2 DEF Pending, Elements
  <2>4. \A i, j \in 1..Len(timers') : i # j => timers'[i] \cap timers'[j] = {}
    BY <2>2 DEF AnnouncedOnceAndDurable
  <2>5. Pending' \cap Head(timers) = {}
    BY <2>2 DEF Pending, Elements, AnnouncedOnceAndDurable
  <2>6. Pending' \cap heard' = {}
    BY <2>1, <2>3, <2>5 DEF AnnouncedOnceAndDurable
  <2>7. QED
    BY <1>3, <2>1, <2>3, <2>4, <2>6 DEF AnnouncedOnceAndDurable
<1>6. CASE timers' \in {timers, <<>>} /\ heard' = heard
  BY <1>3, <1>6 DEF AnnouncedOnceAndDurable, Pending, Elements
<1>7. QED
  BY <1>4, <1>5, <1>6, OtherEventEffects

\* Redelivery, rollbacks and crashes never make listeners hear of a row twice, or
\* of a row that is not committed.
THEOREM AnnouncementsAreOnceAndDurable == Spec => []AnnouncedOnceAndDurable
  BY TypeCorrect, TxCorrect, AnnouncedInit, AnnouncedStep, PTL DEF Spec
------------------------------------------------------------------------------
(* Proposal status                                                         *)

\* A step leaves a proposal's status final, but for a rejected one that is pushed.
LEMMA StatusStep ==
  ASSUME TypeOK, TxExtendsDb, BlocksIngestedOnce, [Next]_vars, NEW h \in Hashes
  PROVE  /\ Status(db, h) = "accepted" => Status(db', h) = "accepted"
         /\ Status(db, h) = "rejected" =>
              \/ Status(db', h) = "rejected"
              \/ h \in db'.pushes \ db.pushes
<1>1. db.pushes \subseteq db'.pushes
  <2>1. ASSUME NEW x \in db.pushes PROVE x \in db'.pushes
    <3> DEFINE row == [table |-> "BlockPushed", hash |-> x, signer |-> NoRow]
    <3>1. row \in Row /\ HasRow(db, row)
      BY DEF Row, HasRow, TypeOK, Database
    <3>2. HasRow(db', row)
      BY <3>1, RowsStay
    <3>3. QED
      BY <3>2 DEF HasRow
  <2>2. QED
    BY <2>1
<1>2. db.tip \in Nat /\ Height(h) \in Nat
  BY ConstantsAssumption DEF TypeOK, Database, Height
<1>3. \/ db'.tip = db.tip /\ db'.blocks = db.blocks
      \/ /\ db'.tip \in Nat /\ db.tip < db'.tip
         /\ Height(h) <= db.tip => (h \in Elements(db'.blocks) <=> h \in Elements(db.blocks))
  <2>1. CASE IngestBlock
    <3> DEFINE x == current.hash
    <3>1. db.blocks \in Seq(Hashes)
      BY DEF TypeOK, Database
    <3>2. /\ x \in Hashes /\ db.tip < Height(x) /\ db'.tip = Height(x)
          /\ db'.blocks = IF Header[x].nakamoto THEN Append(db.blocks, x) ELSE db.blocks
      BY <2>1, IngestBlockEffect
    <3> HIDE DEF x
    <3>3. Height(x) \in Nat
      BY <3>2, ConstantsAssumption DEF Height
    <3>4. Elements(db'.blocks) \in {Elements(db.blocks), Elements(db.blocks) \cup {x}}
      BY <1>2, <3>1, <3>2, AscendingAppend DEF BlocksIngestedOnce
    <3>5. Height(h) <= db.tip => h # x
      BY <1>2, <3>2, <3>3
    <3>6. QED
      BY <3>2, <3>3, <3>4, <3>5
  <2>2. CASE CommitChunks
    BY <2>2, CommitChunksEffect DEF TxExtendsDb
  <2>3. CASE SameTables(db, db')
    BY <2>3 DEF SameTables
  <2>4. QED
    BY <2>1, <2>2, <2>3, OtherEffects
<1>4. QED
  BY <1>1, <1>2, <1>3 DEF Status

\* A proposal's status never goes back: accepted is final, and a rejected proposal
\* only comes back with the push of that very block.
THEOREM StatusIsFinal == Spec => StatusNeverReverts
<1>1. TypeOK /\ TxExtendsDb /\ BlocksIngestedOnce /\ [Next]_vars =>
        [\A h \in Hashes :
           /\ Status(db, h) = "accepted" => Status(db', h) = "accepted"
           /\ Status(db, h) = "rejected" =>
                \/ Status(db', h) = "rejected"
                \/ h \in db'.pushes \ db.pushes]_vars
  BY StatusStep
<1>2. QED
  BY TypeCorrect, TxCorrect, BlocksAreIngestedOnce, <1>1, PTL DEF Spec, StatusNeverReverts
------------------------------------------------------------------------------
(* No message is lost. The invariant extends what the client is past to     *)
(* what the checkpoint is past, which is where a crash resumes, and knows   *)
(* where the rows of an unfinished transaction and the tip come from.       *)

\* The client, or a client started now, is past message i.
IsPast(i) == i < pos \/ i <= db.lastMsgId \/ (i = pos /\ pc = "done")

IsKept(i) ==
  /\ stream[i].path = "/stackerdb_chunks" => HasRowsOf(stream[i])
  /\ ExtendsTheChain(i) /\ Height(stream[i].hash) > EmptyDatabase.tip
       => stream[i].hash \in Elements(db.sigs)

CheckpointTrails == db.lastMsgId <= pos

PastIsKept == \A i \in 1..Len(stream) : IsPast(i) => IsKept(i)

ChunksAreApplied ==
  pc = "chunks" => \A j \in 1..(next - 1) :
    current.chunks[j].type # "Other" => HasRow(tx, RowOf(current.chunks[j]))

\* The tip, and every batch of signatures, is of a block the stream brought.
SigsAreOfTheStream ==
  /\ \A h \in Elements(db.sigs) : \E j \in 1..db.lastMsgId :
       IsSignedBlock(stream[j]) /\ stream[j].hash = h
  /\ db.tip > EmptyDatabase.tip => \E h \in Elements(db.sigs) : Height(h) = db.tip

Kept == CheckpointTrails /\ PastIsKept /\ ChunksAreApplied /\ SigsAreOfTheStream

\* Nothing has been handled at first.
LEMMA KeptInit == Init => Kept
<1> SUFFICES ASSUME Init PROVE Kept
  OBVIOUS
<1>1. db.lastMsgId = 0 /\ db.sigs = <<>> /\ db.tip = EmptyDatabase.tip /\ EmptyDatabase.tip = 1
  BY DEF Init, EmptyDatabase
<1>2. Len(stream) = 0 /\ Elements(db.sigs) = {} /\ pos = 1 /\ pc = "idle"
  BY <1>1 DEF Init, Elements
<1>3. QED
  BY <1>1, <1>2 DEF Kept, CheckpointTrails, PastIsKept, ChunksAreApplied, SigsAreOfTheStream

\* Messages are only ever added behind the stream.
LEMMA StreamGrows ==
  ASSUME TypeOK, [Next]_vars
  PROVE  /\ Len(stream) \in Nat /\ Len(stream') \in Nat /\ Len(stream) <= Len(stream')
         /\ \A i \in 1..Len(stream) : stream'[i] = stream[i]
<1>1. stream' = stream \/ \E m \in Messages : Publish(m)
  <2> USE DEF store, handler, counts
  <2>1. CASE \/ HandleMsg \/ RewardSetDelete \/ RewardSetInsert \/ RewardSetRank
             \/ IngestBlock \/ SkipBlock \/ ApplyChunk \/ CommitChunks \/ MessageProcessed
    BY <2>1 DEF HandleMsg, RewardSetDelete, RewardSetInsert, RewardSetRank, IngestBlock,
                SkipBlock, ApplyChunk, CommitChunks, MessageProcessed
  <2>2. CASE BlockThrows \/ HandlerFails \/ Crash \/ EmitSignerMessages
    BY <2>2 DEF BlockThrows, HandlerFails, AbandonMessage, Crash, EmitSignerMessages
  <2>3. CASE \/ \E c \in Cycles : StackerSetFetched(c) \/ StackerSetPrePox4(c)
             \/ \E pox \in PoxInfos : UpdatePoxInfo(pox)
             \/ UNCHANGED vars
    BY <2>3 DEF StackerSetFetched, StackerSetPrePox4, UpdatePoxInfo, vars
  <2>4. QED
    BY <2>1, <2>2, <2>3 DEF Next, HandlerStep, AwaitMessages
<1>2. stream \in Seq(Messages)
  BY DEF TypeOK
<1>3. CASE stream' = stream
  BY <1>2, <1>3
<1>4. CASE \E m \in Messages : Publish(m)
  BY <1>2, <1>4 DEF Publish
<1>5. QED
  BY <1>1, <1>3, <1>4

\* Rows of block signatures are never deleted.
LEMMA SigsGrow ==
  ASSUME TypeOK, TxExtendsDb, [Next]_vars
  PROVE  Elements(db.sigs) \subseteq Elements(db'.sigs)
<1>1. db.sigs \in Seq(Hashes)
  BY DEF TypeOK, Database
<1>2. CASE IngestBlock
  <2>1. db'.sigs = Append(db.sigs, current.hash)
    BY <1>2, IngestBlockEffect
  <2>2. QED
    BY <1>1, <2>1 DEF Elements
<1>3. CASE CommitChunks
  BY <1>3, CommitChunksEffect DEF TxExtendsDb
<1>4. CASE SameTables(db, db')
  BY <1>4 DEF SameTables
<1>5. QED
  BY <1>2, <1>3, <1>4, OtherEffects

\* The position moves by one message, or back behind the checkpoint.
LEMMA PosStep ==
  ASSUME TypeOK, [Next]_vars
  PROVE  pos' \in {pos, pos + 1, db.lastMsgId + 1}
<1> USE DEF store, handler, counts
<1>1. CASE \/ HandleMsg \/ RewardSetDelete \/ RewardSetInsert \/ RewardSetRank
           \/ IngestBlock \/ SkipBlock \/ ApplyChunk \/ CommitChunks \/ MessageProcessed
  BY <1>1 DEF HandleMsg, RewardSetDelete, RewardSetInsert, RewardSetRank, IngestBlock,
              SkipBlock, ApplyChunk, CommitChunks, MessageProcessed
<1>2. CASE BlockThrows \/ HandlerFails \/ Crash \/ EmitSignerMessages
  BY <1>2 DEF BlockThrows, HandlerFails, AbandonMessage, Crash, EmitSignerMessages
<1>3. CASE \/ \E c \in Cycles : StackerSetFetched(c) \/ StackerSetPrePox4(c)
           \/ \E pox \in PoxInfos : UpdatePoxInfo(pox)
           \/ \E m \in Messages : Publish(m)
           \/ UNCHANGED vars
  BY <1>3 DEF StackerSetFetched, StackerSetPrePox4, UpdatePoxInfo, Publish, vars
<1>4. QED
  BY <1>1, <1>2, <1>3 DEF Next, HandlerStep, AwaitMessages

\* Every step keeps the checkpoint behind the position.
LEMMA CheckpointStep == TypeOK /\ CheckpointTrails /\ [Next]_vars => CheckpointTrails'
<1> SUFFICES ASSUME TypeOK, CheckpointTrails, [Next]_vars PROVE CheckpointTrails'
  OBVIOUS
<1>1. pos \in Nat /\ db.lastMsgId \in Nat
  BY DEF TypeOK, Database
<1>2. CASE IngestBlock \/ CommitChunks
  <2>1. db'.lastMsgId = pos
    BY <1>2, IngestBlockEffect, CommitChunksEffect
  <2>2. pos' = pos
    BY <1>2 DEF IngestBlock, CommitChunks
  <2>3. QED
    BY <1>1, <2>1, <2>2 DEF CheckpointTrails
<1>3. CASE SameTables(db, db')
  <2>1. db'.lastMsgId = db.lastMsgId
    BY <1>3 DEF SameTables
  <2>2. pos' \in {pos, pos + 1, db.lastMsgId + 1}
    BY PosStep
  <2>3. QED
    BY <1>1, <2>1, <2>2 DEF CheckpointTrails
<1>4. QED
  BY <1>2, <1>3, OtherEffects

\* Only a checkpoint, the skip of a block, or a message there is nothing to keep of
\* puts the client past a message.
LEMMA PastStep ==
  ASSUME TypeOK, [Next]_vars, NEW i \in 1..Len(stream'), IsPast(i)'
  PROVE  /\ i \in 1..Len(stream)
         /\ \/ IsPast(i)
            \/ i = pos /\ (IngestBlock \/ SkipBlock \/ CommitChunks)
            \/ i = pos /\ ~IsSignedBlock(stream[i]) /\ stream[i].path # "/stackerdb_chunks"
<1> USE DEF store, handler, counts
<1>1. /\ Len(stream) \in Nat /\ pos \in 1..Len(stream) + 1
      /\ db.lastMsgId \in Nat /\ db.lastMsgId <= Len(stream)
      /\ pc # "idle" => pos \in 1..Len(stream) /\ current \in Message
  BY CurrentType DEF TypeOK, Database
<1>2. CASE IngestBlock \/ CommitChunks
  <2>1. pos' = pos /\ stream' = stream /\ pos \in 1..Len(stream)
    BY <1>1, <1>2 DEF IngestBlock, CommitChunks
  <2>2. db'.lastMsgId = pos
    BY <1>2, IngestBlockEffect, CommitChunksEffect
  <2>3. QED
    BY <1>1, <1>2, <2>1, <2>2 DEF IsPast
<1>3. CASE SameTables(db, db') /\ ~(IngestBlock \/ CommitChunks)
  <2>0. db'.lastMsgId = db.lastMsgId
    BY <1>3 DEF SameTables
  <2>1. CASE HandleMsg
    <3>1. /\ pos' = pos /\ stream' = stream /\ pc' = FirstStep(current)
          /\ pos \in 1..Len(stream) /\ current \in Message
      BY <1>1, <2>1, CurrentType DEF HandleMsg, TypeOK
    <3>2. FirstStep(current) = "done" =>
            ~IsSignedBlock(current) /\ current.path # "/stackerdb_chunks"
      BY <3>1 DEF FirstStep, AfterRewardSet, IsSignedBlock, Message
    <3>3. QED
      BY <2>0, <3>1, <3>2 DEF IsPast, current
  <2>2. CASE RewardSetDelete \/ RewardSetInsert \/ RewardSetRank
    <3>1. /\ pos' = pos /\ stream' = stream /\ pos \in 1..Len(stream)
          /\ current.path = "/new_block"
      BY <1>1, <2>2 DEF RewardSetDelete, RewardSetInsert, RewardSetRank, TypeOK, Announces
    <3>2. pc' = "done" => AfterRewardSet(current) = "done"
      BY <2>2 DEF RewardSetDelete, RewardSetInsert, RewardSetRank, Acknowledged
    <3>3. AfterRewardSet(current) = "done" => ~IsSignedBlock(current)
      BY DEF AfterRewardSet, IsSignedBlock
    <3>4. QED
      BY <2>0, <3>1, <3>2, <3>3 DEF IsPast, current
  <2>3. CASE SkipBlock
    BY <1>1, <2>0, <2>3 DEF SkipBlock, IsPast
  <2>4. CASE ApplyChunk \/ BlockThrows \/ HandlerFails
    <3>1. pos' = pos /\ stream' = stream /\ pc' # "done" /\ pos \in 1..Len(stream)
      BY <1>1, <2>4 DEF ApplyChunk, BlockThrows, HandlerFails, AbandonMessage
    <3>2. QED
      BY <1>1, <2>0, <3>1 DEF IsPast
  <2>5. CASE MessageProcessed
    BY <1>1, <2>0, <2>5 DEF MessageProcessed, IsPast
  <2>6. CASE Crash
    BY <1>1, <2>0, <2>6 DEF Crash, IsPast
  <2>7. CASE \E m \in Messages : Publish(m)
    BY <1>1, <2>0, <2>7 DEF Publish, IsPast, TypeOK
  <2>8. CASE \/ EmitSignerMessages
             \/ \E c \in Cycles : StackerSetFetched(c) \/ StackerSetPrePox4(c)
             \/ \E pox \in PoxInfos : UpdatePoxInfo(pox)
             \/ UNCHANGED vars
    <3>1. pos' = pos /\ stream' = stream /\ pc' = pc
      BY <2>8 DEF EmitSignerMessages, StackerSetFetched, StackerSetPrePox4, UpdatePoxInfo, vars
    <3>2. QED
      BY <1>1, <2>0, <3>1 DEF IsPast
  <2>9. QED
    BY <1>3, <2>1, <2>2, <2>3, <2>4, <2>5, <2>6, <2>7, <2>8
    DEF Next, HandlerStep, AwaitMessages
<1>4. QED
  BY <1>2, <1>3, OtherEffects

\* What is kept of a message stays kept.
LEMMA KeptStays ==
  ASSUME TypeOK, TxExtendsDb, [Next]_vars, NEW i \in 1..Len(stream), IsKept(i)
  PROVE  IsKept(i)'
<1>1. /\ Len(stream) \in Nat
      /\ \A j \in 1..i : stream'[j] = stream[j]
  BY StreamGrows
<1>2. stream[i] \in Message /\ stream'[i] = stream[i]
  BY <1>1, ConstantsAssumption DEF TypeOK
<1>3. HasRowsOf(stream[i]) => HasRowsOf(stream[i])'
  <2>1. ASSUME NEW j \in 1..Len(stream[i].chunks), stream[i].chunks[j].type # "Other"
        PROVE  RowOf(stream[i].chunks[j]) \in Row
    BY <1>2, <2>1, RowOfType DEF Message
  <2>2. QED
    BY <1>2, <2>1, RowsStay DEF HasRowsOf
<1>4. ExtendsTheChain(i)' => ExtendsTheChain(i)
  BY <1>1, <1>2 DEF ExtendsTheChain
<1>5. QED
  BY <1>2, <1>3, <1>4, SigsGrow DEF IsKept

\* A block that is skipped as already ingested, but extends the chain the stream
\* brought, was ingested under the very message.
LEMMA SkippedIsKept ==
  ASSUME TypeOK, Kept, SkipBlock
  PROVE  IsKept(pos)
<1>1. /\ pos \in 1..Len(stream) /\ pos \in Nat /\ Len(stream) \in Nat
      /\ current \in Message /\ current.path = "/new_block"
      /\ Height(current.hash) <= db.tip
  BY CurrentType DEF SkipBlock, IsPreviouslyIngested, Height, TypeOK
<1>2. /\ db.tip \in Nat /\ db.lastMsgId \in Nat /\ db.lastMsgId <= pos
      /\ \A h \in Hashes : Height(h) \in Nat
  BY ConstantsAssumption DEF TypeOK, Database, Kept, CheckpointTrails, Height
<1>3. ASSUME ExtendsTheChain(pos), Height(current.hash) > EmptyDatabase.tip
      PROVE  current.hash \in Elements(db.sigs)
  <2>1. current.hash \in Hashes /\ EmptyDatabase.tip \in Nat
    BY <1>1 DEF Message, EmptyDatabase
  <2>2. db.tip > EmptyDatabase.tip
    BY <1>1, <1>2, <1>3, <2>1
  <2>3. PICK h \in Elements(db.sigs) : Height(h) = db.tip
    BY <2>2 DEF Kept, SigsAreOfTheStream
  <2>4. PICK j \in 1..db.lastMsgId : IsSignedBlock(stream[j]) /\ stream[j].hash = h
    BY DEF Kept, SigsAreOfTheStream
  <2>5. j \in 1..(pos - 1) \/ j = pos
    BY <1>1, <1>2
  <2>6. CASE j \in 1..(pos - 1)
    <3>1. Height(h) < Height(current.hash)
      BY <1>3, <2>4, <2>6 DEF ExtendsTheChain, current
    <3>2. QED
      BY <1>1, <1>2, <2>1, <2>3, <3>1
  <2>7. CASE j = pos
    BY <2>3, <2>4, <2>7 DEF current
  <2>8. QED
    BY <2>5, <2>6, <2>7
<1>4. QED
  BY <1>1, <1>3 DEF IsKept, current

\* Every step keeps all that is before the position.
LEMMA PastIsKeptStep == TypeOK /\ TxExtendsDb /\ Kept /\ [Next]_vars => PastIsKept'
<1> SUFFICES ASSUME TypeOK, TxExtendsDb, Kept, [Next]_vars,
                    NEW i \in 1..Len(stream'), IsPast(i)'
             PROVE  IsKept(i)'
  BY DEF PastIsKept
<1>1. i \in 1..Len(stream) /\ stream'[i] = stream[i]
  BY PastStep, StreamGrows
<1>2. CASE IsPast(i)
  BY <1>1, <1>2, KeptStays DEF Kept, PastIsKept
<1>3. CASE i = pos /\ IngestBlock
  <2>1. db'.sigs = Append(db.sigs, stream[i].hash) /\ db.sigs \in Seq(Hashes)
    BY <1>3, IngestBlockEffect DEF TypeOK, Database, current
  <2>2. stream[i].hash \in Elements(db'.sigs)
    BY <2>1 DEF Elements
  <2>3. stream[i].path = "/new_block"
    BY <1>3 DEF IngestBlock, TypeOK, current
  <2>4. QED
    BY <1>1, <2>2, <2>3 DEF IsKept
<1>4. CASE i = pos /\ SkipBlock
  BY <1>1, <1>4, SkippedIsKept, KeptStays
<1>5. CASE i = pos /\ CommitChunks
  <2>1. current \in Message /\ current.path = "/stackerdb_chunks" /\ next > Len(current.chunks)
    BY <1>5, CurrentType DEF CommitChunks, TypeOK
  <2>2. Len(current.chunks) \in Nat /\ next \in Nat
    BY <2>1 DEF TypeOK, Message
  <2>3. ASSUME NEW j \in 1..Len(current.chunks), current.chunks[j].type # "Other"
        PROVE  HasRow(db', RowOf(current.chunks[j]))
    <3>1. j \in 1..(next - 1) /\ pc = "chunks"
      BY <1>5, <2>1, <2>2 DEF CommitChunks
    <3>2. HasRow(tx, RowOf(current.chunks[j]))
      BY <2>3, <3>1 DEF Kept, ChunksAreApplied
    <3>3. QED
      BY <1>5, <3>2, CommitChunksEffect DEF HasRow
  <2>4. HasRowsOf(stream[i])'
    BY <1>1, <1>5, <2>3 DEF HasRowsOf, current
  <2>5. ~ExtendsTheChain(i)'
    BY <1>1, <1>5, <2>1 DEF ExtendsTheChain, IsSignedBlock, current
  <2>6. QED
    BY <2>4, <2>5 DEF IsKept
<1>6. CASE i = pos /\ ~IsSignedBlock(stream[i]) /\ stream[i].path # "/stackerdb_chunks"
  BY <1>1, <1>6 DEF IsKept, ExtendsTheChain
<1>7. QED
  BY <1>2, <1>3, <1>4, <1>5, <1>6, PastStep

\* Every step keeps the open transaction up to the chunk it has come to.
LEMMA ChunksAreAppliedStep == TypeOK /\ Kept /\ [Next]_vars => ChunksAreApplied'
<1> SUFFICES ASSUME TypeOK, Kept, [Next]_vars PROVE ChunksAreApplied'
  OBVIOUS
<1> USE DEF store, handler, counts
<1>1. CASE ApplyChunk
  <2> DEFINE ch == current.chunks[next]
  <2>1. /\ pc = "chunks" /\ next \in Nat /\ tx \in Database
        /\ current \in Message /\ ch \in Chunk /\ current' = current
        /\ tx' = ApplyStackerDbChunk(tx, ch) /\ next' = next + 1
        /\ next \in 1..Len(current.chunks) /\ Len(current.chunks) \in Nat
    BY <1>1, CurrentType DEF ApplyChunk, TypeOK, Message, current
  <2>2. ASSUME NEW j \in 1..next, current.chunks[j].type # "Other"
        PROVE  HasRow(tx', RowOf(current.chunks[j]))
    <3>1. current.chunks[j] \in Chunk
      BY <2>1 DEF Message
    <3>2. RowOf(current.chunks[j]) \in Row
      BY <2>2, <3>1, RowOfType
    <3>3. CASE j = next
      BY <2>1, <2>2, <3>2, <3>3, ChunkFrame DEF IsApplied
    <3>4. CASE j \in 1..(next - 1)
      <4>1. HasRow(tx, RowOf(current.chunks[j]))
        BY <2>1, <2>2, <3>4 DEF Kept, ChunksAreApplied
      <4>2. QED
        BY <2>1, <3>2, <4>1, ChunkFrame
    <3>5. QED
      BY <2>1, <3>3, <3>4
  <2>3. QED
    BY <2>1, <2>2 DEF ChunksAreApplied
<1>2. CASE HandleMsg
  BY <1>2 DEF HandleMsg, ChunksAreApplied, TypeOK
<1>3. CASE \/ RewardSetDelete \/ RewardSetInsert \/ RewardSetRank
           \/ IngestBlock \/ SkipBlock \/ BlockThrows \/ CommitChunks
           \/ MessageProcessed \/ HandlerFails \/ Crash
           \/ \E m \in Messages : Publish(m)
  <2>1. pc' # "chunks"
    BY <1>3 DEF RewardSetDelete, RewardSetInsert, RewardSetRank, AfterRewardSet, IngestBlock,
                SkipBlock, BlockThrows, CommitChunks, MessageProcessed, HandlerFails,
                AbandonMessage, Acknowledged, Crash, Publish
  <2>2. QED
    BY <2>1 DEF ChunksAreApplied
<1>4. CASE \/ EmitSignerMessages
           \/ \E c \in Cycles : StackerSetFetched(c) \/ StackerSetPrePox4(c)
           \/ \E pox \in PoxInfos : UpdatePoxInfo(pox)
           \/ UNCHANGED vars
  <2>1. pc' = pc /\ next' = next /\ current' = current
    BY <1>4 DEF EmitSignerMessages, StackerSetFetched, StackerSetPrePox4, UpdatePoxInfo,
                vars, current
  <2>2. \A row : HasRow(tx, row) => HasRow(tx', row)
    <3>1. SameTables(tx, tx')
      <4>1. SameTables(tx, tx)
        BY DEF SameTables
      <4>2. ASSUME NEW c \in Cycles, StackerSetFetched(c) PROVE SameTables(tx, tx')
        BY <4>2, ReplaceFrame DEF StackerSetFetched, TypeOK
      <4>3. ASSUME NEW pox \in PoxInfos, UpdatePoxInfo(pox) PROVE SameTables(tx, tx')
        BY <4>3 DEF UpdatePoxInfo, SameTables, TypeOK, Database
      <4>4. QED
        BY <1>4, <4>1, <4>2, <4>3 DEF EmitSignerMessages, StackerSetPrePox4, vars
    <3>2. QED
      BY <3>1, SameTablesSameRows
  <2>3. QED
    BY <2>1, <2>2 DEF Kept, ChunksAreApplied
<1>5. QED
  BY <1>1, <1>2, <1>3, <1>4 DEF Next, HandlerStep, AwaitMessages

\* Every step keeps each block that is stored one of the stream.
LEMMA SigsAreOfTheStreamStep ==
  TypeOK /\ TxExtendsDb /\ Kept /\ [Next]_vars => SigsAreOfTheStream'
<1> SUFFICES ASSUME TypeOK, TxExtendsDb, Kept, [Next]_vars PROVE SigsAreOfTheStream'
  OBVIOUS
<1>1. /\ pos \in Nat /\ db.lastMsgId \in Nat /\ db.lastMsgId <= pos
      /\ db.lastMsgId <= Len(stream)
  BY DEF TypeOK, Database, Kept, CheckpointTrails
<1>2. \A j \in 1..Len(stream) : stream'[j] = stream[j]
  BY StreamGrows
<1>3. Len(stream) \in Nat
  BY StreamGrows
<1>4. \A h \in Elements(db.sigs) : \E j \in 1..db.lastMsgId :
         IsSignedBlock(stream'[j]) /\ stream'[j].hash = h
  <2>1. \A j \in 1..db.lastMsgId : stream'[j] = stream[j]
    BY <1>1, <1>2, <1>3
  <2>2. QED
    BY <2>1 DEF Kept, SigsAreOfTheStream
<1>5. CASE IngestBlock
  <2> DEFINE x == current.hash
  <2>1. db'.sigs = Append(db.sigs, x) /\ db'.tip = Height(x) /\ db'.lastMsgId = pos
    BY <1>5, IngestBlockEffect
  <2>2. /\ pos \in 1..Len(stream) /\ IsSignedBlock(stream[pos]) /\ stream[pos].hash = x
    BY <1>5 DEF IngestBlock, TypeOK, IsSignedBlock, current
  <2> HIDE DEF x
  <2>3. Elements(db'.sigs) \subseteq Elements(db.sigs) \cup {x} /\ x \in Elements(db'.sigs)
    <3>1. db.sigs \in Seq(Hashes)
      BY DEF TypeOK, Database
    <3>2. QED
      BY <2>1, <3>1 DEF Elements
  <2>4. IsSignedBlock(stream'[pos]) /\ stream'[pos].hash = x /\ pos \in 1..pos
    BY <1>1, <1>2, <2>2
  <2>5. \A j \in 1..db.lastMsgId : j \in 1..pos
    BY <1>1
  <2>6. \A h \in Elements(db'.sigs) : \E j \in 1..db'.lastMsgId :
           IsSignedBlock(stream'[j]) /\ stream'[j].hash = h
    BY <1>4, <2>1, <2>3, <2>4, <2>5
  <2>7. QED
    BY <2>1, <2>3, <2>6 DEF SigsAreOfTheStream
<1>6. CASE CommitChunks
  <2>1. db'.sigs = db.sigs /\ db'.tip = db.tip /\ db'.lastMsgId = pos
    BY <1>6, CommitChunksEffect DEF TxExtendsDb
  <2>2. \A j \in 1..db.lastMsgId : j \in 1..pos
    BY <1>1
  <2>3. QED
    BY <1>4, <2>1, <2>2 DEF Kept, SigsAreOfTheStream
<1>7. CASE SameTables(db, db')
  BY <1>4, <1>7 DEF SameTables, Kept, SigsAreOfTheStream
<1>8. QED
  BY <1>5, <1>6, <1>7, OtherEffects

\* Every step keeps the three together.
LEMMA KeptStep == TypeOK /\ TxExtendsDb /\ Kept /\ [Next]_vars => Kept'
  BY CheckpointStep, PastIsKeptStep, ChunksAreAppliedStep, SigsAreOfTheStreamStep DEF Kept

\* With all that is handled kept, no message is lost.
LEMMA KeptImplies == TypeOK /\ Kept => NoMessageLost
<1> SUFFICES ASSUME TypeOK, Kept, NEW i \in 1..(pos - 1)
             PROVE  IsKept(i)
  BY DEF NoMessageLost, IsKept
<1>1. i \in 1..Len(stream) /\ i < pos
  BY DEF TypeOK
<1>2. QED
  BY <1>1 DEF Kept, PastIsKept, IsPast

\* Whatever crashed, failed or was answered twice on the way, the rows of every
\* message the client is past are committed, and so is every block that extended
\* the chain.
THEOREM NoMessageIsLost == Spec => []NoMessageLost
  BY TypeCorrect, TxCorrect, KeptInit, KeptStep, KeptImplies, PTL DEF Spec
==============================================================================
