-------------------------- MODULE SignerSetsProofs --------------------------
(***************************************************************************)
(* The signer sets in Ingestion: while no answer of the database is lost,  *)
(* a set the handler leaves half applied is always announced again; and a  *)
(* signer's counters never exceed the rows that account for them.          *)
(***************************************************************************)
EXTENDS IngestionProofs, FiniteSetTheorems

------------------------------------------------------------------------------
(* Signer sets: no write but the handler's own DELETE and INSERT empties a *)
(* cycle or leaves rows unranked.                                          *)

NoWorse(d, e) ==
  \A c \in Cycles : /\ RewardSet(d, c) # {} => RewardSet(e, c) # {}
                    /\ IsHalfApplied(e, c) => IsHalfApplied(d, c)

\* With the same rows of signers nothing gets worse.
LEMMA SameSignersNoWorse ==
  ASSUME NEW d, NEW e, e.signers = d.signers
  PROVE  NoWorse(d, e)
  BY DEF NoWorse, RewardSet, IsHalfApplied

\* Two steps that make nothing worse make one.
LEMMA NoWorseTransitive ==
  ASSUME NEW d, NEW e, NEW f, NoWorse(d, e), NoWorse(e, f)
  PROVE  NoWorse(d, f)
  BY DEF NoWorse

\* Rewriting the rows of one cycle without adding, removing or unranking any.
LEMMA SetRowsNoWorse ==
  ASSUME NEW d \in Database, NEW c \in Cycles, NEW rows,
         \A s \in Signers : /\ rows[s] = NoRow <=> d.signers[c][s] = NoRow
                            /\ rows[s] # NoRow => rows[s].ranked = d.signers[c][s].ranked
  PROVE  NoWorse(d, [d EXCEPT !.signers[c] = rows])
<1> DEFINE e == [d EXCEPT !.signers[c] = rows]
<1>1. \A x \in Cycles : e.signers[x] = IF x = c THEN rows ELSE d.signers[x]
  BY DEF Database
<1> HIDE DEF e
<1>2. ASSUME NEW x \in Cycles, NEW s \in Signers
      PROVE  /\ e.signers[x][s] = NoRow <=> d.signers[x][s] = NoRow
             /\ e.signers[x][s] # NoRow => e.signers[x][s].ranked = d.signers[x][s].ranked
  <2>1. CASE x = c
    BY <1>1, <2>1
  <2>2. CASE x # c
    BY <1>1, <2>2
  <2>3. QED
    BY <2>1, <2>2
<1>3. QED
  BY <1>2 DEF RewardSet, NoWorse, IsHalfApplied, e

\* After a replacement within a transaction the cycle has rows, all ranked.
LEMMA ReplaceEffect ==
  ASSUME NEW d \in Database, NEW c \in Cycles, NEW set \in SUBSET Signers, set # {}
  PROVE  LET e == ReplaceRewardSet(d, c, set) IN
         /\ RewardSet(e, c) # {} /\ ~IsHalfApplied(e, c)
         /\ \A x \in Cycles \ {c} : e.signers[x] = d.signers[x]
<1> DEFINE row == [NewSignerRow EXCEPT !.ranked = TRUE]
           rows == [s \in Signers |-> IF s \in set THEN row ELSE NoRow]
           e == ReplaceRewardSet(d, c, set)
<1>1. row \in SignerRow /\ row.ranked = TRUE
  BY DEF NewSignerRow, SignerRow
<1>2. row # NoRow
  BY <1>1, NoRowIsNoSignerRow
<1> HIDE DEF row
<1>3. /\ e.signers[c] = rows
      /\ \A x \in Cycles \ {c} : e.signers[x] = d.signers[x]
  BY DEF ReplaceRewardSet, Database, row
<1> HIDE DEF e
<1>4. \A s \in RewardSet(e, c) : e.signers[c][s] = row
  BY <1>3 DEF RewardSet
<1>5. ~IsHalfApplied(e, c)
  BY <1>1, <1>4 DEF IsHalfApplied
<1>6. RewardSet(e, c) # {}
  BY <1>2, <1>3 DEF RewardSet
<1>7. QED
  BY <1>3, <1>5, <1>6 DEF e

\* Replacing a cycle's signers leaves no set half applied that was not.
LEMMA ReplaceNoWorse ==
  ASSUME NEW d \in Database, NEW c \in Cycles, NEW set \in SUBSET Signers
  PROVE  NoWorse(d, ReplaceRewardSet(d, c, set))
<1>1. CASE set = {}
  BY <1>1 DEF ReplaceRewardSet, NoWorse
<1>2. CASE set # {}
  BY <1>2, ReplaceEffect DEF NoWorse, RewardSet, IsHalfApplied
<1>3. QED
  BY <1>1, <1>2

\* Writing a chunk adds no signer and unranks none.
LEMMA ChunkNoWorse ==
  ASSUME NEW d \in Database, NEW ch \in Chunk
  PROVE  NoWorse(d, ApplyStackerDbChunk(d, ch))
<1>1. NoWorse(d, d)
  BY DEF NoWorse
<1>2. NoWorse(d, ApplyBlockProposal(d, ch)) /\ NoWorse(d, ApplyBlockPush(d, ch))
  BY SameSignersNoWorse DEF ApplyBlockProposal, ApplyBlockPush, Database
<1>3. NoWorse(d, ApplyBlockResponse(d, ch))
  <2> DEFINE stored == [d EXCEPT !.responses[<<ch.signer, ch.hash>>] = ch.verdict]
             c == d.proposals[ch.hash]
             row == d.signers[c][ch.signer]
             rows == [d.signers[c] EXCEPT ![ch.signer] = CountVerdict(row, ch.verdict)]
  <2>1. stored \in Database /\ stored.signers = d.signers
    BY DEF Database, Chunk
  <2>2. NoWorse(d, stored)
    BY <2>1, SameSignersNoWorse
  <2>3. CASE IsCounted(d, ch)
    <3>1. c \in Cycles /\ ch.signer \in RewardSet(d, c)
      BY <2>3 DEF IsCounted, Database, Chunk
    <3>2. ch.signer \in Signers /\ row \in SignerRow
      BY <3>1, RowType
    <3>3. CountVerdict(row, ch.verdict) \in SignerRow
          /\ CountVerdict(row, ch.verdict).ranked = row.ranked
      <4> HIDE DEF row
      <4>1. CountVerdict(row, ch.verdict) \in SignerRow
        BY <3>2, CountVerdictType
      <4>2. CountVerdict(row, ch.verdict).ranked = row.ranked
        BY <3>2 DEF CountVerdict, SignerRow
      <4>3. QED
        BY <4>1, <4>2
    <3>4. /\ d.signers[c] \in [Signers -> SignerRow \cup {NoRow}]
          /\ row # NoRow /\ CountVerdict(row, ch.verdict) # NoRow
      BY <3>1, <3>2, <3>3, NoRowIsNoSignerRow DEF Database
    <3>5. \A s \in Signers :
            /\ rows[s] = NoRow <=> stored.signers[c][s] = NoRow
            /\ rows[s] # NoRow => rows[s].ranked = stored.signers[c][s].ranked
      BY <2>1, <3>2, <3>3, <3>4
    <3>6. ApplyBlockResponse(d, ch) = [stored EXCEPT !.signers[c] = rows]
      BY <2>1, <2>3, <3>1 DEF ApplyBlockResponse, Database
    <3> HIDE DEF stored, c, rows
    <3>7. QED
      BY <2>1, <2>2, <3>1, <3>5, <3>6, SetRowsNoWorse, NoWorseTransitive
  <2>4. CASE ~IsCounted(d, ch)
    BY <2>2, <2>4 DEF ApplyBlockResponse
  <2>5. QED
    BY <2>3, <2>4
<1>4. QED
  BY <1>1, <1>2, <1>3 DEF ApplyStackerDbChunk, IsApplied, Chunk

\* Nor does inserting a block.
LEMMA InsertBlockNoWorse ==
  ASSUME NEW d \in Database, NEW h \in Hashes
  PROVE  NoWorse(d, InsertBlock(d, h))
<1> DEFINE c == BlockCycle(d, h)
           missed == {s \in Signers : d.responses[<<s, h>>] = NoRow}
           inserted == [d EXCEPT !.blocks = Append(@, h)]
           rows == [s \in Signers |-> IF s \in missed \cap RewardSet(d, c)
                                      THEN [d.signers[c][s] EXCEPT !.missed = @ + 1]
                                      ELSE d.signers[c][s]]
<1>1. inserted \in Database /\ inserted.signers = d.signers
  <2>1. Append(d.blocks, h) \in Seq(Hashes)
    BY DEF Database
  <2>2. QED
    BY <2>1 DEF Database
<1>2. NoWorse(d, inserted)
  BY <1>1, SameSignersNoWorse
<1>3. CASE c = NoRow
  BY <1>2, <1>3 DEF InsertBlock
<1>4. CASE c \in Cycles
  <2>1. ASSUME NEW s \in RewardSet(d, c)
        PROVE  /\ [d.signers[c][s] EXCEPT !.missed = @ + 1] \in SignerRow
               /\ [d.signers[c][s] EXCEPT !.missed = @ + 1].ranked = d.signers[c][s].ranked
               /\ d.signers[c][s] # NoRow
    BY <1>4, <2>1, RowType, NoRowIsNoSignerRow DEF SignerRow
  <2>2. \A s \in Signers : /\ rows[s] = NoRow <=> inserted.signers[c][s] = NoRow
                           /\ rows[s] # NoRow => rows[s].ranked = inserted.signers[c][s].ranked
    BY <1>1, <2>1, NoRowIsNoSignerRow
  <2>3. InsertBlock(d, h) = [inserted EXCEPT !.signers[c] = rows]
    BY <1>4, ConstantsAssumption DEF InsertBlock
  <2> HIDE DEF inserted, c, rows
  <2>4. QED
    BY <1>1, <1>2, <1>4, <2>2, <2>3, SetRowsNoWorse, NoWorseTransitive
<1>5. QED
  BY <1>3, <1>4, BlockCycleType

\* Nor does all that is written for a new block message.
LEMMA ApplyBlockNoWorse ==
  ASSUME NEW d \in Database, NEW m \in Message
  PROVE  NoWorse(d, ApplyBlock(d, m))
<1> DEFINE inserted == IF Header[m.hash].nakamoto THEN InsertBlock(d, m.hash) ELSE d
           signed == [inserted EXCEPT !.sigs = Append(@, m.hash)]
<1>1. m.hash \in Hashes /\ m.set \in SUBSET Signers /\ (HasCycle(m) => m.cycle \in Cycles)
  BY DEF Message, HasCycle
<1>2. inserted \in Database
  BY <1>1, InsertBlockType
<1>3. NoWorse(d, inserted)
  BY <1>1, InsertBlockNoWorse, SameSignersNoWorse
<1> HIDE DEF inserted
<1>4. signed \in Database /\ signed.signers = inserted.signers
  <2>1. Append(inserted.sigs, m.hash) \in Seq(Hashes)
    BY <1>1, <1>2 DEF Database
  <2>2. QED
    BY <1>2, <2>1 DEF Database
<1>5. NoWorse(d, signed)
  BY <1>3, <1>4, SameSignersNoWorse, NoWorseTransitive
<1> HIDE DEF signed
<1>6. HasCycle(m) => NoWorse(signed, ReplaceRewardSet(signed, m.cycle, m.set))
  BY <1>1, <1>4, ReplaceNoWorse
<1>7. ApplyBlock(d, m) = IF HasCycle(m) THEN ReplaceRewardSet(signed, m.cycle, m.set)
                                        ELSE signed
  BY DEF ApplyBlock, signed, inserted
<1>8. QED
  BY <1>5, <1>6, <1>7, NoWorseTransitive
------------------------------------------------------------------------------
(* Half applied signer sets, as long as no answer of the database is lost  *)

\* The handler is past the reward set of message i.
Behind(i) == i < pos \/ (i = pos /\ pc \in {"block", "done"})

Ahead(c) ==
  \E i \in 1..Len(stream) : ~Behind(i) /\ Announces(stream[i]) /\ stream[i].cycle = c

\* A checkpoint ends the handling of its message.
CheckpointOK == db.lastMsgId <= pos /\ (db.lastMsgId = pos => pc = "done")

HalfAppliedAhead == \A c \in Cycles : IsHalfApplied(db, c) => Ahead(c)

BehindHasRows ==
  \A i \in 1..Len(stream), c \in Cycles :
    Behind(i) /\ Announces(stream[i]) /\ stream[i].cycle = c =>
      RewardSet(db, c) # {} \/ Ahead(c)

\* What the handler may rely on between the three statements.
StatementsOK ==
  /\ pc = "insert" => ~IsHalfApplied(db, current.cycle)
  /\ pc = "rank" => RewardSet(db, current.cycle) # {}

SetsOK ==
  CheckpointOK /\ NoWorse(db, tx) /\ HalfAppliedAhead /\ BehindHasRows /\ StatementsOK

\* A step that puts no announcement behind the handler and makes no cycle worse.
LEMMA SetsKept ==
  ASSUME TypeOK, SetsOK, NoWorse(db, db'), Len(stream) \in Nat, Len(stream') \in Nat,
         Len(stream) <= Len(stream'),
         \A i \in 1..Len(stream) : stream'[i] = stream[i],
         \A i \in 1..Len(stream') : Announces(stream'[i]) /\ Behind(i)' =>
           i \in 1..Len(stream) /\ Behind(i)
  PROVE  HalfAppliedAhead' /\ BehindHasRows'
<1>1. ASSUME NEW c, Ahead(c) PROVE Ahead(c)'
  <2>1. PICK i \in 1..Len(stream) : ~Behind(i) /\ Announces(stream[i]) /\ stream[i].cycle = c
    BY <1>1 DEF Ahead
  <2>2. i \in 1..Len(stream') /\ stream'[i] = stream[i]
    BY <2>1
  <2>3. ~Behind(i)'
    BY <2>1, <2>2
  <2>4. QED
    BY <2>1, <2>2, <2>3 DEF Ahead
<1>2. HalfAppliedAhead'
  BY <1>1 DEF HalfAppliedAhead, SetsOK, NoWorse
<1>3. BehindHasRows'
  <2> SUFFICES ASSUME NEW i \in 1..Len(stream'), NEW c \in Cycles, Behind(i)',
                      Announces(stream'[i]), stream'[i].cycle = c
               PROVE  RewardSet(db', c) # {} \/ Ahead(c)'
    BY DEF BehindHasRows
  <2>1. i \in 1..Len(stream) /\ Behind(i) /\ stream'[i] = stream[i]
    OBVIOUS
  <2>2. RewardSet(db, c) # {} \/ Ahead(c)
    BY <2>1 DEF BehindHasRows, SetsOK
  <2>3. QED
    BY <1>1, <2>2 DEF NoWorse
<1>4. QED
  BY <1>2, <1>3

\* With no answer lost, an acknowledged statement takes the handler on.
LEMMA AnswerArrives ==
  ASSUME TypeOK, MaxLost = 0, NEW step, Acknowledged(step)
  PROVE  pc' = step
  BY DEF TypeOK, Acknowledged

\* Whether a set is half applied depends on the rows of its cycle.
LEMMA HalfAppliedOfRows ==
  ASSUME NEW d, NEW e, NEW c, e.signers[c] = d.signers[c]
  PROVE  RewardSet(e, c) = RewardSet(d, c) /\ (IsHalfApplied(e, c) <=> IsHalfApplied(d, c))
  BY DEF RewardSet, IsHalfApplied

\* Deleting a cycle's signers before its block is kept keeps the invariant.
LEMMA SetsDelete ==
  ASSUME TypeOK, SetsOK, MaxLost = 0, RewardSetDelete
  PROVE  SetsOK'
<1> DEFINE c == current.cycle
           rows == [s \in Signers |-> NoRow]
<1>1. /\ pos \in 1..Len(stream) /\ current \in Message /\ Announces(current) /\ c \in Cycles
  BY CurrentType, AnnouncedType DEF TypeOK, RewardSetDelete
<1>2. /\ db' = [db EXCEPT !.signers[c] = rows] /\ tx' = db' /\ pc = "delete"
      /\ UNCHANGED stream /\ UNCHANGED pos /\ pc' = "insert"
  BY AnswerArrives DEF RewardSetDelete, Autocommit
<1> HIDE DEF rows
<1>3. /\ db'.signers[c] = rows /\ db'.lastMsgId = db.lastMsgId
      /\ \A x \in Cycles : x # c => db'.signers[x] = db.signers[x]
  BY <1>1, <1>2 DEF TypeOK, Database
<1>4. RewardSet(db', c) = {} /\ ~IsHalfApplied(db', c)
  BY <1>3 DEF RewardSet, IsHalfApplied, rows
<1>5. \A i \in 1..Len(stream) : Behind(i)' <=> Behind(i)
  BY <1>2 DEF Behind
<1>6. \A x : Ahead(x)' <=> Ahead(x)
  BY <1>2, <1>5 DEF Ahead
<1>7. Ahead(c)
  BY <1>1, <1>2 DEF Ahead, Behind, current
<1>8. HalfAppliedAhead'
  BY <1>3, <1>4, <1>6, HalfAppliedOfRows DEF SetsOK, HalfAppliedAhead
<1>9. BehindHasRows'
  <2> SUFFICES ASSUME NEW i \in 1..Len(stream), NEW x \in Cycles, Behind(i)',
                      Announces(stream[i]), stream[i].cycle = x
               PROVE  RewardSet(db', x) # {} \/ Ahead(x)'
    BY <1>2 DEF BehindHasRows
  <2>1. RewardSet(db, x) # {} \/ Ahead(x)
    BY <1>5 DEF BehindHasRows, SetsOK
  <2>2. CASE x = c
    BY <2>2, <1>6, <1>7
  <2>3. CASE x # c
    BY <2>1, <2>3, <1>3, <1>6, HalfAppliedOfRows
  <2>4. QED
    BY <2>2, <2>3
<1>10. CheckpointOK' /\ StatementsOK' /\ NoWorse(db', tx')
  <2>1. current' = current
    BY <1>2 DEF current
  <2>2. StatementsOK'
    BY <1>2, <1>4, <2>1 DEF StatementsOK
  <2>3. CheckpointOK'
    BY <1>2, <1>3 DEF CheckpointOK, SetsOK
  <2>4. QED
    BY <1>2, <2>2, <2>3 DEF NoWorse
<1>11. QED
  BY <1>8, <1>9, <1>10 DEF SetsOK

\* The INSERT and the ranking: the cycle has rows, and all are ranked before the
\* handler goes on to the block.
LEMMA SetsFill ==
  ASSUME TypeOK, SetsOK, pc \in {"insert", "rank"},
         UNCHANGED stream, UNCHANGED pos, tx' = db', pc' # "insert",
         db'.lastMsgId = db.lastMsgId,
         \A x \in Cycles : x # current.cycle => db'.signers[x] = db.signers[x],
         RewardSet(db', current.cycle) # {},
         IsHalfApplied(db', current.cycle) => pc' \notin {"block", "done"}
  PROVE  SetsOK'
<1> DEFINE c == current.cycle
<1>1. /\ pos \in 1..Len(stream) /\ Announces(current) /\ c \in Cycles
      /\ current' = current
  BY CurrentType, AnnouncedType DEF TypeOK, current
<1>2. \A i \in 1..Len(stream) : i # pos => (Behind(i)' <=> Behind(i))
  BY DEF Behind
<1>3. ASSUME NEW x, x # c, Ahead(x) PROVE Ahead(x)'
  <2>1. PICK i \in 1..Len(stream) : ~Behind(i) /\ Announces(stream[i]) /\ stream[i].cycle = x
    BY <1>3 DEF Ahead
  <2>2. i # pos
    BY <1>3, <2>1 DEF current
  <2>3. QED
    BY <1>2, <2>1, <2>2 DEF Ahead
<1>4. ASSUME NEW x \in Cycles, IsHalfApplied(db', x) PROVE Ahead(x)'
  <2>1. CASE x = c
    <3>1. ~Behind(pos)'
      BY <1>4, <2>1, <1>1 DEF Behind
    <3>2. Announces(stream[pos]) /\ stream[pos].cycle = x
      BY <1>1, <2>1 DEF current
    <3>3. QED
      BY <1>1, <3>1, <3>2 DEF Ahead
  <2>2. CASE x # c
    BY <1>3, <1>4, <2>2, HalfAppliedOfRows DEF SetsOK, HalfAppliedAhead
  <2>3. QED
    BY <2>1, <2>2
<1>5. HalfAppliedAhead'
  BY <1>4 DEF HalfAppliedAhead
<1>6. BehindHasRows'
  <2> SUFFICES ASSUME NEW i \in 1..Len(stream), NEW x \in Cycles, Behind(i)',
                      Announces(stream[i]), stream[i].cycle = x
               PROVE  RewardSet(db', x) # {} \/ Ahead(x)'
    BY DEF BehindHasRows
  <2>1. CASE x = c
    BY <2>1
  <2>2. CASE x # c
    <3>1. Behind(i)
      BY <1>2, <2>2 DEF current
    <3>2. RewardSet(db, x) # {} \/ Ahead(x)
      BY <3>1 DEF BehindHasRows, SetsOK
    <3>3. QED
      BY <1>3, <2>2, <3>2, HalfAppliedOfRows
  <2>3. QED
    BY <2>1, <2>2
<1>7. CheckpointOK' /\ StatementsOK' /\ NoWorse(db', tx')
  <2>1. CheckpointOK'
    BY DEF CheckpointOK, SetsOK
  <2>2. StatementsOK'
    BY <1>1 DEF StatementsOK
  <2>3. QED
    BY <2>1, <2>2 DEF NoWorse
<1>8. QED
  BY <1>5, <1>6, <1>7 DEF SetsOK

\* So does inserting the new ones.
LEMMA SetsInsert ==
  ASSUME TypeOK, SetsOK, MaxLost = 0, RewardSetInsert
  PROVE  SetsOK'
<1> DEFINE c == current.cycle
           inserted == current.set \ RewardSet(db, c)
           rows == [s \in Signers |-> IF s \in inserted THEN NewSignerRow
                                      ELSE db.signers[c][s]]
<1>1. /\ current \in Message /\ Announces(current) /\ c \in Cycles
      /\ current.set \in SUBSET Signers /\ current.set # {}
  BY CurrentType, AnnouncedType DEF TypeOK, RewardSetInsert, Announces
<1>2. /\ db' = [db EXCEPT !.signers[c] = rows] /\ tx' = db' /\ pc = "insert"
      /\ UNCHANGED stream /\ UNCHANGED pos
      /\ pc' = IF inserted = {} THEN AfterRewardSet(current) ELSE "rank"
  BY AnswerArrives DEF RewardSetInsert, Autocommit
<1>3. NewSignerRow # NoRow
  <2>1. NewSignerRow \in SignerRow
    BY DEF NewSignerRow, SignerRow
  <2>2. QED
    BY <2>1, NoRowIsNoSignerRow
<1>4. \A s \in Signers : rows[s] = IF s \in inserted THEN NewSignerRow ELSE db.signers[c][s]
  OBVIOUS
<1>5. \A s \in current.set : rows[s] # NoRow
  BY <1>1, <1>3, <1>4 DEF RewardSet
<1>6. inserted = {} => \A s \in Signers : rows[s] = db.signers[c][s]
  BY <1>4
<1> HIDE DEF rows, inserted
<1>7. /\ db'.signers[c] = rows /\ db'.lastMsgId = db.lastMsgId
      /\ \A x \in Cycles : x # c => db'.signers[x] = db.signers[x]
  BY <1>1, <1>2 DEF TypeOK, Database
<1>8. RewardSet(db', c) # {}
  BY <1>1, <1>5, <1>7 DEF RewardSet
<1>9. IsHalfApplied(db', c) => pc' \notin {"block", "done"}
  <2>1. ~IsHalfApplied(db, c)
    BY <1>2 DEF SetsOK, StatementsOK
  <2>2. inserted = {} => ~IsHalfApplied(db', c)
    BY <1>6, <1>7, <2>1 DEF IsHalfApplied, RewardSet
  <2>3. QED
    BY <1>2, <2>2
<1>10. pc' # "insert"
  BY <1>2 DEF AfterRewardSet
<1>11. QED
  BY <1>2, <1>7, <1>8, <1>9, <1>10, SetsFill

\* So does ranking them.
LEMMA SetsRank ==
  ASSUME TypeOK, SetsOK, MaxLost = 0, RewardSetRank
  PROVE  SetsOK'
<1> DEFINE c == current.cycle
           rows == [s \in Signers |-> RankedRow(db.signers[c][s])]
<1>1. /\ current \in Message /\ Announces(current) /\ c \in Cycles
  BY CurrentType, AnnouncedType DEF TypeOK, RewardSetRank
<1>2. /\ db' = [db EXCEPT !.signers[c] = rows] /\ tx' = db' /\ pc = "rank"
      /\ UNCHANGED stream /\ UNCHANGED pos /\ pc' = AfterRewardSet(current)
  BY AnswerArrives DEF RewardSetRank, Autocommit
<1>3. ASSUME NEW row \in SignerRow
      PROVE  RankedRow(row) # NoRow /\ RankedRow(row).ranked = TRUE
  <2>1. row # NoRow /\ RankedRow(row) = [row EXCEPT !.ranked = TRUE]
    BY NoRowIsNoSignerRow DEF RankedRow
  <2>2. [row EXCEPT !.ranked = TRUE] \in SignerRow
    BY DEF SignerRow
  <2>3. QED
    BY <2>1, <2>2, NoRowIsNoSignerRow DEF SignerRow
<1>4. \A s \in Signers : /\ rows[s] = NoRow <=> db.signers[c][s] = NoRow
                         /\ rows[s] # NoRow => rows[s].ranked = TRUE
  <2>1. \A s \in Signers : db.signers[c][s] \in SignerRow \cup {NoRow}
    BY <1>1 DEF TypeOK, Database
  <2>2. RankedRow(NoRow) = NoRow
    BY DEF RankedRow
  <2>3. QED
    BY <1>3, <2>1, <2>2, NoRowIsNoSignerRow
<1> HIDE DEF rows
<1>5. /\ db'.signers[c] = rows /\ db'.lastMsgId = db.lastMsgId
      /\ \A x \in Cycles : x # c => db'.signers[x] = db.signers[x]
  BY <1>1, <1>2 DEF TypeOK, Database
<1>6. RewardSet(db, c) # {}
  BY <1>2 DEF SetsOK, StatementsOK
<1>7. RewardSet(db', c) # {} /\ ~IsHalfApplied(db', c)
  BY <1>4, <1>5, <1>6 DEF RewardSet, IsHalfApplied
<1>8. pc' # "insert"
  BY <1>2 DEF AfterRewardSet
<1>9. QED
  BY <1>2, <1>5, <1>7, <1>8, SetsFill

\* The other steps on the same message.
LEMMA SetsMove ==
  ASSUME TypeOK, SetsOK, UNCHANGED stream, UNCHANGED pos,
         NoWorse(db, db'), NoWorse(db', tx'), CheckpointOK', StatementsOK',
         pc' \in {"block", "done"} => \/ pc \in {"block", "done"}
                                      \/ pos \in 1..Len(stream) /\ ~Announces(current)
  PROVE  SetsOK'
<1>1. Len(stream) \in Nat
  BY DEF TypeOK
<1>2. \A i \in 1..Len(stream) : Announces(stream[i]) /\ Behind(i)' => Behind(i)
  BY DEF Behind, current
<1>3. HalfAppliedAhead' /\ BehindHasRows'
  BY <1>1, <1>2, SetsKept
<1>4. QED
  BY <1>3 DEF SetsOK

\* So does taking up a message.
LEMMA SetsHandle ==
  ASSUME TypeOK, SetsOK, HandleMsg
  PROVE  SetsOK'
<1>1. /\ UNCHANGED stream /\ UNCHANGED pos /\ UNCHANGED db /\ UNCHANGED tx
      /\ pc = "idle" /\ pc' = FirstStep(current) /\ pos \in 1..Len(stream)
  BY DEF HandleMsg, store, handler, TypeOK
<1>2. pc' \in {"block", "done"} => ~Announces(current)
  BY <1>1 DEF FirstStep, Announces
<1>3. pc' \notin {"insert", "rank"}
  BY <1>1 DEF FirstStep, AfterRewardSet
<1>4. CheckpointOK' /\ StatementsOK'
  BY <1>1, <1>3 DEF CheckpointOK, StatementsOK, SetsOK
<1>5. NoWorse(db, db') /\ NoWorse(db', tx')
  BY <1>1 DEF SetsOK, NoWorse
<1>6. QED
  BY <1>1, <1>2, <1>4, <1>5, SetsMove

\* So does the transaction of a block.
LEMMA SetsBlock ==
  ASSUME TypeOK, SetsOK, MaxLost = 0, IngestBlock \/ SkipBlock
  PROVE  SetsOK'
<1>1. UNCHANGED stream /\ UNCHANGED pos /\ pc = "block" /\ pc' = "done"
  BY AnswerArrives DEF IngestBlock, SkipBlock, handler
<1>2. NoWorse(db, db') /\ NoWorse(db', tx') /\ db'.lastMsgId <= pos
  <2>1. CASE IngestBlock
    <3> DEFINE e == ApplyBlock(db, current)
    <3>1. current \in Message /\ e \in Database /\ pos \in Nat
      BY <2>1, <1>1, CurrentType, ApplyBlockType DEF TypeOK
    <3>2. NoWorse(db, e)
      BY <3>1, ApplyBlockNoWorse DEF TypeOK
    <3>3. /\ db' = [e EXCEPT !.tip = Header[current.hash].height, !.lastMsgId = pos]
          /\ tx' = db'
      BY <2>1 DEF IngestBlock, Autocommit
    <3> HIDE DEF e
    <3>4. db'.signers = e.signers /\ db'.lastMsgId = pos
      BY <3>1, <3>3 DEF Database
    <3>5. NoWorse(db, db')
      BY <3>2, <3>4, SameSignersNoWorse, NoWorseTransitive
    <3>6. QED
      BY <3>1, <3>3, <3>4, <3>5 DEF NoWorse
  <2>2. CASE SkipBlock
    BY <2>2 DEF SkipBlock, store, SetsOK, NoWorse, CheckpointOK
  <2>3. QED
    BY <2>1, <2>2
<1>3. CheckpointOK' /\ StatementsOK'
  BY <1>1, <1>2 DEF CheckpointOK, StatementsOK
<1>4. QED
  BY <1>1, <1>2, <1>3, SetsMove

\* So does that of a chunk event.
LEMMA SetsChunks ==
  ASSUME TypeOK, SetsOK, MaxLost = 0, ApplyChunk \/ CommitChunks
  PROVE  SetsOK'
<1>1. /\ UNCHANGED stream /\ UNCHANGED pos /\ pc = "chunks" /\ pc' \in {"chunks", "done"}
      /\ pos \in 1..Len(stream) /\ current \in Message /\ ~Announces(current)
  <2>1. UNCHANGED stream /\ UNCHANGED pos /\ pc = "chunks" /\ pc' \in {"chunks", "done"}
    BY AnswerArrives DEF ApplyChunk, CommitChunks
  <2>2. QED
    BY <2>1, CurrentType DEF TypeOK, Announces
<1>2. NoWorse(db, tx)
  BY DEF SetsOK
<1>3. CASE ApplyChunk
  <2> DEFINE ch == current.chunks[next]
  <2>1. ch \in Chunk /\ tx' = ApplyStackerDbChunk(tx, ch) /\ db' = db /\ pc' = "chunks"
    BY <1>1, <1>3 DEF ApplyChunk, TypeOK, Message
  <2>2. NoWorse(tx, tx')
    BY <2>1, ChunkNoWorse DEF TypeOK
  <2>3. NoWorse(db', tx') /\ NoWorse(db, db')
    BY <1>2, <2>1, <2>2, NoWorseTransitive DEF NoWorse
  <2>4. CheckpointOK' /\ StatementsOK'
    BY <1>1, <2>1 DEF CheckpointOK, StatementsOK, SetsOK
  <2>5. QED
    BY <1>1, <2>3, <2>4, SetsMove
<1>4. CASE CommitChunks
  <2>1. db'.lastMsgId = pos /\ db'.signers = tx.signers /\ tx' = db' /\ pc' = "done"
    BY <1>4, CommitChunksEffect, AnswerArrives DEF CommitChunks, Autocommit
  <2>2. NoWorse(db, db') /\ NoWorse(db', tx')
    BY <1>2, <2>1, SameSignersNoWorse, NoWorseTransitive DEF NoWorse
  <2>3. pos \in Nat
    BY <1>1
  <2>4. CheckpointOK' /\ StatementsOK'
    BY <1>1, <2>1, <2>3 DEF CheckpointOK, StatementsOK
  <2>5. QED
    BY <1>1, <2>2, <2>4, SetsMove
<1>5. QED
  BY <1>3, <1>4

\* So does a handler that fails.
LEMMA SetsAbandon ==
  ASSUME TypeOK, SetsOK, BlockThrows \/ HandlerFails
  PROVE  SetsOK'
<1>1. /\ UNCHANGED stream /\ UNCHANGED pos /\ UNCHANGED db /\ tx' = db
      /\ pc # "done" /\ pc' = "idle"
  BY DEF BlockThrows, HandlerFails, AbandonMessage
<1>2. CheckpointOK' /\ StatementsOK'
  BY <1>1 DEF CheckpointOK, StatementsOK, SetsOK
<1>3. NoWorse(db, db') /\ NoWorse(db', tx')
  BY <1>1 DEF NoWorse
<1>4. QED
  BY <1>1, <1>2, <1>3, SetsMove

\* Commits of the updaters between two steps of the handler.
LEMMA SetsUpdaters ==
  ASSUME TypeOK, SetsOK,
         \/ \E c \in Cycles : StackerSetFetched(c)
         \/ \E pox \in PoxInfos : UpdatePoxInfo(pox)
  PROVE  SetsOK'
<1>1. /\ UNCHANGED stream /\ UNCHANGED pos /\ UNCHANGED pc
  BY DEF StackerSetFetched, UpdatePoxInfo, handler
<1>2. NoWorse(db, db') /\ NoWorse(db', tx') /\ db'.lastMsgId = db.lastMsgId
  <2>1. ASSUME NEW c \in Cycles, StackerSetFetched(c)
        PROVE  NoWorse(db, db') /\ NoWorse(db', tx') /\ db'.lastMsgId = db.lastMsgId
    <3> DEFINE set == RpcSigners[c]
    <3>1. /\ set \in SUBSET Signers /\ tx.signers[c] = db.signers[c]
          /\ db' = ReplaceRewardSet(db, c, set) /\ tx' = ReplaceRewardSet(tx, c, set)
      BY <2>1, ConstantsAssumption DEF StackerSetFetched, IsLocked
    <3> HIDE DEF set
    <3>2. NoWorse(db, db')
      BY <3>1, ReplaceNoWorse DEF TypeOK
    <3>3. db'.lastMsgId = db.lastMsgId
      BY <3>1, ReplaceFrame DEF TypeOK, SameTables
    <3>4. CASE set = {}
      BY <3>1, <3>2, <3>3, <3>4 DEF ReplaceRewardSet, SetsOK
    <3>5. CASE set # {}
      <4>1. /\ RewardSet(tx', c) # {} /\ ~IsHalfApplied(tx', c)
            /\ \A x \in Cycles \ {c} : db'.signers[x] = db.signers[x]
            /\ \A x \in Cycles \ {c} : tx'.signers[x] = tx.signers[x]
        BY <3>1, <3>5, ReplaceEffect DEF TypeOK
      <4>2. ASSUME NEW x \in Cycles
            PROVE  /\ RewardSet(db', x) # {} => RewardSet(tx', x) # {}
                   /\ IsHalfApplied(tx', x) => IsHalfApplied(db', x)
        <5>1. CASE x = c
          BY <4>1, <5>1
        <5>2. CASE x # c
          BY <4>1, <5>2, HalfAppliedOfRows DEF SetsOK, NoWorse
        <5>3. QED
          BY <5>1, <5>2
      <4>3. NoWorse(db', tx')
        BY <4>2 DEF NoWorse
      <4>4. QED
        BY <3>2, <3>3, <4>3
    <3>6. QED
      BY <3>4, <3>5
  <2>2. ASSUME NEW pox \in PoxInfos, UpdatePoxInfo(pox)
        PROVE  NoWorse(db, db') /\ NoWorse(db', tx') /\ db'.lastMsgId = db.lastMsgId
    <3>1. /\ db'.signers = db.signers /\ tx'.signers = tx.signers
          /\ db'.lastMsgId = db.lastMsgId
      BY <2>2 DEF UpdatePoxInfo, TypeOK, Database
    <3>2. NoWorse(db', db) /\ NoWorse(tx, tx') /\ NoWorse(db, db')
      BY <3>1, SameSignersNoWorse
    <3>3. QED
      BY <3>1, <3>2, NoWorseTransitive DEF SetsOK
  <2>3. QED
    BY <2>1, <2>2
<1>3. CheckpointOK'
  BY <1>1, <1>2 DEF CheckpointOK, SetsOK
<1>4. StatementsOK'
  <2>1. current' = current
    BY <1>1 DEF current
  <2>2. pc \in {"insert", "rank"} => current.cycle \in Cycles
    BY CurrentType, AnnouncedType DEF TypeOK
  <2>3. QED
    BY <1>1, <1>2, <2>1, <2>2 DEF StatementsOK, SetsOK, NoWorse
<1>5. QED
  BY <1>1, <1>2, <1>3, <1>4, SetsMove

\* The steps that move the position, or the end of the stream.
LEMMA SetsAdvance ==
  ASSUME TypeOK, SetsOK, \/ MessageProcessed \/ Crash \/ \E m \in Messages : Publish(m)
  PROVE  SetsOK'
<1>0. Len(stream) \in Nat /\ pos \in Nat /\ db.lastMsgId \in Nat
  BY DEF TypeOK, Database
<1>1. UNCHANGED db /\ (tx' = db \/ UNCHANGED tx) /\ pc' = "idle"
  BY DEF MessageProcessed, Crash, Publish, store, handler
<1>2. NoWorse(db, db') /\ NoWorse(db', tx') /\ StatementsOK'
  BY <1>1 DEF SetsOK, NoWorse, StatementsOK
<1>3. CASE MessageProcessed
  <2>1. UNCHANGED stream /\ pos' = pos + 1 /\ pc = "done"
    BY <1>3 DEF MessageProcessed
  <2>2. CheckpointOK'
    BY <1>0, <1>1, <2>1 DEF CheckpointOK, SetsOK
  <2>3. \A i \in 1..Len(stream) : Behind(i)' => Behind(i)
    BY <1>0, <1>1, <2>1 DEF Behind
  <2>4. QED
    BY <1>0, <1>2, <2>1, <2>2, <2>3, SetsKept DEF SetsOK
<1>4. CASE Crash
  <2>1. UNCHANGED stream /\ pos' = db.lastMsgId + 1
    BY <1>4 DEF Crash
  <2>2. CheckpointOK'
    BY <1>0, <1>1, <2>1 DEF CheckpointOK
  <2>3. \A i \in 1..Len(stream) : Behind(i)' => Behind(i)
    BY <1>0, <1>1, <2>1 DEF Behind, CheckpointOK, SetsOK
  <2>4. QED
    BY <1>0, <1>2, <2>1, <2>2, <2>3, SetsKept DEF SetsOK
<1>5. ASSUME NEW m \in Messages, Publish(m) PROVE SetsOK'
  <2>1. /\ stream' = Append(stream, m) /\ UNCHANGED pos /\ pos = Len(stream) + 1
        /\ pc = "idle" /\ stream \in Seq(Messages)
    BY <1>5 DEF Publish, handler, TypeOK
  <2>2. /\ Len(stream') = Len(stream) + 1
        /\ \A i \in 1..Len(stream) : stream'[i] = stream[i]
    BY <2>1
  <2>3. CheckpointOK'
    BY <1>1, <2>1 DEF CheckpointOK, SetsOK
  <2>4. \A i \in 1..Len(stream') : Behind(i)' => i \in 1..Len(stream) /\ Behind(i)
    BY <1>0, <1>1, <2>1, <2>2 DEF Behind
  <2>5. Len(stream') \in Nat /\ Len(stream) <= Len(stream')
    BY <1>0, <2>2
  <2>6. QED
    BY <1>0, <1>2, <2>2, <2>3, <2>4, <2>5, SetsKept DEF SetsOK
<1>6. QED
  BY <1>3, <1>4, <1>5

\* So does a step that leaves the tables alone.
LEMMA SetsIdle ==
  ASSUME SetsOK, \/ EmitSignerMessages \/ \E c \in Cycles : StackerSetPrePox4(c)
                 \/ UNCHANGED vars
  PROVE  SetsOK'
<1>1. /\ UNCHANGED stream /\ UNCHANGED pos /\ UNCHANGED pc
      /\ UNCHANGED db /\ UNCHANGED tx
  BY DEF EmitSignerMessages, StackerSetPrePox4, vars, store, handler
<1>2. CheckpointOK' /\ StatementsOK'
  BY <1>1 DEF CheckpointOK, StatementsOK, SetsOK, current
<1>3. \A i : Behind(i)' <=> Behind(i)
  BY <1>1 DEF Behind
<1>4. \A c : Ahead(c)' <=> Ahead(c)
  BY <1>1, <1>3 DEF Ahead
<1>5. HalfAppliedAhead' /\ BehindHasRows'
  BY <1>1, <1>3, <1>4 DEF HalfAppliedAhead, BehindHasRows, SetsOK
<1>6. QED
  BY <1>1, <1>2, <1>5 DEF SetsOK

\* There are no signers at first.
LEMMA SetsInit == Init => SetsOK
<1> SUFFICES ASSUME Init PROVE SetsOK
  OBVIOUS
<1>1. \A c \in Cycles : RewardSet(db, c) = {}
  BY DEF Init, EmptyDatabase, RewardSet
<1>2. db.lastMsgId = 0
  BY DEF Init, EmptyDatabase
<1>3. QED
  BY <1>1, <1>2 DEF Init, SetsOK, CheckpointOK, HalfAppliedAhead, BehindHasRows,
                    StatementsOK, IsHalfApplied, NoWorse

\* Every step keeps the invariant, as long as no acknowledged message is lost.
LEMMA SetsStep ==
  ASSUME TypeOK, SetsOK, MaxLost = 0, [Next]_vars
  PROVE  SetsOK'
  BY SetsHandle, SetsDelete, SetsInsert, SetsRank, SetsBlock, SetsChunks, SetsAbandon,
     SetsUpdaters, SetsAdvance, SetsIdle
  DEF Next, HandlerStep, AwaitMessages

\* It implies that sets that are half applied will be replayed.
LEMMA SetsSafe ==
  ASSUME TypeOK, SetsOK
  PROVE  HalfAppliedSetsAreReplayed
<1>0. pos \in Nat \ {0} /\ Len(stream) \in Nat /\ pos <= Len(stream) + 1
  BY DEF TypeOK
<1>1. ASSUME NEW c, Ahead(c) PROVE WillAnnounce(c)
  BY <1>0, <1>1 DEF Ahead, WillAnnounce, Behind
<1>2. ASSUME NEW i \in 1..(pos - 1), Announces(stream[i])
      PROVE  RewardSet(db, stream[i].cycle) # {} \/ WillAnnounce(stream[i].cycle)
  <2>1. i \in 1..Len(stream) /\ Behind(i)
    BY <1>0 DEF Behind
  <2>2. PICK c \in Cycles : stream[i].cycle = c
    <3>1. stream[i] \in Message
      BY <2>1, ConstantsAssumption DEF TypeOK
    <3>2. stream[i].cycle \in Cycles
      BY <1>2, <3>1, AnnouncedType
    <3>3. QED
      BY <3>2
  <2>3. RewardSet(db, c) # {} \/ Ahead(c)
    BY <1>2, <2>1, <2>2 DEF SetsOK, BehindHasRows
  <2>4. QED
    BY <1>1, <2>2, <2>3
<1>3. QED
  BY <1>1, <1>2 DEF HalfAppliedSetsAreReplayed, SetsOK, HalfAppliedAhead

\* Where no answer of the database is lost, a signer set that a crash or an error
\* leaves empty or unranked is announced again by a message the stream replays.
THEOREM HalfAppliedSetsReplayed ==
  MaxLost = 0 => (Spec => []HalfAppliedSetsAreReplayed)
<1> SUFFICES ASSUME MaxLost = 0 PROVE Spec => []HalfAppliedSetsAreReplayed
  OBVIOUS
<1>1. Spec => []SetsOK
  <2>1. TypeOK /\ SetsOK /\ [Next]_vars => SetsOK'
    BY SetsStep
  <2>2. QED
    BY <2>1, SetsInit, TypeCorrect, PTL DEF Spec
<1>2. TypeOK /\ SetsOK => HalfAppliedSetsAreReplayed
  BY SetsSafe
<1>3. QED
  BY <1>1, <1>2, TypeCorrect, PTL
------------------------------------------------------------------------------
(* Counters: every write that counts also adds what it counts, in the       *)
(* committed database and in the open transaction.                         *)

AnsweredIn(d, c, s, verdict) ==
  {h \in Hashes : d.proposals[h] = c /\ d.responses[<<s, h>>] = verdict}

BlocksIn(d, c) ==
  {i \in 1..Len(d.blocks) : \E pox \in PoxInfos : CycleOf(pox, d.blocks[i]) = c}

IsBacked(d, c, s, row) ==
  /\ row.accepted <= Cardinality(AnsweredIn(d, c, s, "accepted"))
  /\ row.rejected <= Cardinality(AnsweredIn(d, c, s, "rejected"))
  /\ row.missed <= Cardinality(BlocksIn(d, c))

Backed(d) ==
  \A c \in Cycles, s \in Signers :
    d.signers[c][s] # NoRow => IsBacked(d, c, s, d.signers[c][s])

\* What a counter of d counts is in e too.
Retains(d, e) ==
  \A c \in Cycles, s \in Signers :
    /\ \A verdict \in Verdicts : AnsweredIn(d, c, s, verdict) \subseteq AnsweredIn(e, c, s, verdict)
    /\ BlocksIn(d, c) \subseteq BlocksIn(e, c)

\* What the counters count is finite.
LEMMA CountedSetsAreFinite ==
  ASSUME NEW d \in Database, NEW c, NEW s, NEW verdict
  PROVE  /\ IsFiniteSet(AnsweredIn(d, c, s, verdict))
         /\ Cardinality(AnsweredIn(d, c, s, verdict)) \in Nat
         /\ IsFiniteSet(BlocksIn(d, c)) /\ Cardinality(BlocksIn(d, c)) \in Nat
<1>1. IsFiniteSet(Hashes) /\ AnsweredIn(d, c, s, verdict) \in SUBSET Hashes
  BY ConstantsAssumption DEF AnsweredIn
<1>2. BlocksIn(d, c) \in SUBSET (1..Len(d.blocks)) /\ Len(d.blocks) \in Nat
  BY DEF BlocksIn, Database
<1>3. IsFiniteSet(1..Len(d.blocks))
  BY <1>2, FS_Interval
<1>4. IsFiniteSet(AnsweredIn(d, c, s, verdict)) /\ IsFiniteSet(BlocksIn(d, c))
  BY <1>1, <1>2, <1>3, FS_Subset
<1>5. QED
  BY <1>4, FS_CardinalityType

\* A row that rows of answers back stays backed while these are kept.
LEMMA BackedRetained ==
  ASSUME NEW d \in Database, NEW e \in Database, Retains(d, e),
         NEW c \in Cycles, NEW s \in Signers, NEW row \in SignerRow, IsBacked(d, c, s, row)
  PROVE  IsBacked(e, c, s, row)
<1>1. \A verdict \in Verdicts :
        /\ Cardinality(AnsweredIn(d, c, s, verdict)) \in Nat
        /\ Cardinality(AnsweredIn(e, c, s, verdict)) \in Nat
        /\ Cardinality(AnsweredIn(d, c, s, verdict)) <= Cardinality(AnsweredIn(e, c, s, verdict))
  BY CountedSetsAreFinite, FS_Subset DEF Retains
<1>2. /\ Cardinality(BlocksIn(d, c)) \in Nat /\ Cardinality(BlocksIn(e, c)) \in Nat
      /\ Cardinality(BlocksIn(d, c)) <= Cardinality(BlocksIn(e, c))
  BY CountedSetsAreFinite, FS_Subset DEF Retains
<1>3. /\ row.accepted \in Nat /\ row.rejected \in Nat /\ row.missed \in Nat
      /\ "accepted" \in Verdicts /\ "rejected" \in Verdicts
  BY DEF SignerRow, Verdicts
<1>4. QED
  BY <1>1, <1>2, <1>3 DEF IsBacked

\* The same signers' rows in a database that retains what they count.
LEMMA SameSignersBacked ==
  ASSUME NEW d \in Database, NEW e \in Database, Backed(d), Retains(d, e),
         e.signers = d.signers
  PROVE  Backed(e)
<1> SUFFICES ASSUME NEW c \in Cycles, NEW s \in Signers, e.signers[c][s] # NoRow
             PROVE  IsBacked(e, c, s, e.signers[c][s])
  BY DEF Backed
<1>1. e.signers[c][s] \in SignerRow /\ IsBacked(d, c, s, e.signers[c][s])
  BY DEF Backed, Database
<1>2. QED
  BY <1>1, BackedRetained

\* The rows of one cycle are replaced by rows that are backed.
LEMMA SetRowsBacked ==
  ASSUME NEW d \in Database, NEW c \in Cycles, Backed(d),
         NEW rows \in [Signers -> SignerRow \cup {NoRow}],
         \A s \in Signers : rows[s] # NoRow => IsBacked(d, c, s, rows[s])
  PROVE  Backed([d EXCEPT !.signers[c] = rows])
<1> DEFINE e == [d EXCEPT !.signers[c] = rows]
<1>1. /\ e.proposals = d.proposals /\ e.responses = d.responses /\ e.blocks = d.blocks
      /\ \A x \in Cycles : e.signers[x] = IF x = c THEN rows ELSE d.signers[x]
  BY DEF Database
<1> HIDE DEF e
<1>2. ASSUME NEW x, NEW s, NEW row
      PROVE  IsBacked(e, x, s, row) <=> IsBacked(d, x, s, row)
  BY <1>1 DEF IsBacked, AnsweredIn, BlocksIn
<1>3. QED
  BY <1>1, <1>2 DEF Backed, e

\* A row with nothing counted is backed.
LEMMA NewRowBacked ==
  ASSUME NEW d \in Database, NEW c \in Cycles, NEW s \in Signers,
         NEW row \in SignerRow, row.accepted = 0, row.rejected = 0, row.missed = 0
  PROVE  IsBacked(d, c, s, row)
  BY CountedSetsAreFinite DEF IsBacked

\* Replacing a reward set leaves the counters backed.
LEMMA ReplaceBacked ==
  ASSUME NEW d \in Database, NEW c \in Cycles, NEW set \in SUBSET Signers, Backed(d)
  PROVE  Backed(ReplaceRewardSet(d, c, set))
<1> DEFINE row == [NewSignerRow EXCEPT !.ranked = TRUE]
           rows == [s \in Signers |-> IF s \in set THEN row ELSE NoRow]
<1>1. row \in SignerRow /\ row.accepted = 0 /\ row.rejected = 0 /\ row.missed = 0
  BY DEF NewSignerRow, SignerRow
<1>2. ReplaceRewardSet(d, c, set) = IF set = {} THEN d ELSE [d EXCEPT !.signers[c] = rows]
  BY DEF ReplaceRewardSet
<1> HIDE DEF row
<1>3. rows \in [Signers -> SignerRow \cup {NoRow}]
  BY <1>1
<1>4. \A s \in Signers : rows[s] # NoRow => IsBacked(d, c, s, rows[s])
  BY <1>1, NewRowBacked
<1> HIDE DEF rows
<1>5. QED
  BY <1>2, <1>3, <1>4, SetRowsBacked

\* A verdict is counted once, in its own counter.
LEMMA CountVerdictFields ==
  ASSUME NEW row \in SignerRow, NEW verdict \in Verdicts
  PROVE  LET new == CountVerdict(row, verdict) IN
         /\ new.missed = row.missed
         /\ new.accepted = IF verdict = "accepted" THEN row.accepted + 1 ELSE row.accepted
         /\ new.rejected = IF verdict = "rejected" THEN row.rejected + 1 ELSE row.rejected
<1> DEFINE yes == IF verdict = "accepted" THEN 1 ELSE 0
           no  == IF verdict = "accepted" THEN 0 ELSE 1
<1>1. row.accepted \in Nat /\ row.rejected \in Nat
  BY DEF SignerRow
<1>2. CountVerdict(row, verdict).missed = row.missed
  BY DEF CountVerdict, SignerRow
<1>3. CountVerdict(row, verdict).accepted = row.accepted + yes
  BY DEF CountVerdict, SignerRow
<1>4. CountVerdict(row, verdict).rejected = row.rejected + no
  BY DEF CountVerdict, SignerRow
<1>5. QED
  BY <1>1, <1>2, <1>3, <1>4 DEF Verdicts

\* Writing a chunk leaves the counters backed.
LEMMA ChunkBacked ==
  ASSUME NEW d \in Database, NEW ch \in Chunk, Backed(d)
  PROVE  Backed(ApplyStackerDbChunk(d, ch))
<1> DEFINE e == ApplyStackerDbChunk(d, ch)
<1>1. CASE ~IsApplied(d, ch)
  BY <1>1 DEF ApplyStackerDbChunk
<1>2. CASE IsApplied(d, ch) /\ ch.type = "BlockProposal"
  <2>1. e = ApplyBlockProposal(d, ch) /\ e \in Database
    BY <1>2, ApplyStackerDbChunkType DEF ApplyStackerDbChunk
  <2>2. /\ e.signers = d.signers /\ e.responses = d.responses /\ e.blocks = d.blocks
        /\ e.proposals = [d.proposals EXCEPT ![ch.hash] = ch.cycle]
    BY <2>1 DEF ApplyBlockProposal, Database
  <2>3. d.proposals[ch.hash] = NoRow /\ \A c \in Cycles : c # NoRow
    BY <1>2, ConstantsAssumption DEF IsApplied, HasRow, RowOf
  <2> HIDE DEF e
  <2>4. Retains(d, e)
    BY <2>2, <2>3 DEF Retains, AnsweredIn, BlocksIn, Database
  <2>5. QED
    BY <2>1, <2>2, <2>4, SameSignersBacked DEF e
<1>3. CASE IsApplied(d, ch) /\ ch.type = "BlockResponse"
  <2> DEFINE stored == [d EXCEPT !.responses[<<ch.signer, ch.hash>>] = ch.verdict]
             c == d.proposals[ch.hash]
             row == d.signers[c][ch.signer]
             rows == [d.signers[c] EXCEPT ![ch.signer] = CountVerdict(row, ch.verdict)]
  <2>1. e = ApplyBlockResponse(d, ch)
    BY <1>3 DEF ApplyStackerDbChunk
  <2>2. ch.signer \in Signers /\ ch.hash \in Hashes /\ ch.verdict \in Verdicts
    BY DEF Chunk
  <2>3. /\ stored \in Database /\ stored.signers = d.signers
        /\ stored.proposals = d.proposals /\ stored.blocks = d.blocks
        /\ stored.responses = [d.responses EXCEPT ![<<ch.signer, ch.hash>>] = ch.verdict]
    BY <2>2 DEF Database
  <2>4. d.responses[<<ch.signer, ch.hash>>] = NoRow /\ \A v \in Verdicts : v # NoRow
    BY <1>3, ConstantsAssumption DEF IsApplied, HasRow, RowOf
  <2>5. e = IF IsCounted(d, ch)
            THEN [stored EXCEPT !.signers[c][ch.signer] = CountVerdict(@, ch.verdict)]
            ELSE stored
    BY <2>1 DEF ApplyBlockResponse
  <2> HIDE DEF stored, e
  <2>6. Retains(d, stored)
    BY <2>3, <2>4 DEF Retains, AnsweredIn, BlocksIn, Database
  <2>7. Backed(stored)
    BY <2>3, <2>6, SameSignersBacked
  <2>8. CASE IsCounted(d, ch)
    <3>1. c \in Cycles /\ ch.signer \in RewardSet(d, c) /\ c = d.proposals[ch.hash]
      BY <2>2, <2>8 DEF IsCounted, Database
    <3>2. /\ row \in SignerRow /\ row = d.signers[c][ch.signer] /\ row # NoRow
          /\ d.signers[c] \in [Signers -> SignerRow \cup {NoRow}]
      BY <3>1, RowType DEF RewardSet, Database
    <3> HIDE DEF row, c
    <3>3. IsBacked(d, c, ch.signer, row)
      BY <2>2, <3>1, <3>2 DEF Backed
    <3>4. /\ AnsweredIn(stored, c, ch.signer, ch.verdict)
               = AnsweredIn(d, c, ch.signer, ch.verdict) \cup {ch.hash}
          /\ ch.hash \notin AnsweredIn(d, c, ch.signer, ch.verdict)
      BY <2>2, <2>3, <2>4, <3>1 DEF AnsweredIn, Database
    <3>5. Cardinality(AnsweredIn(stored, c, ch.signer, ch.verdict))
            = Cardinality(AnsweredIn(d, c, ch.signer, ch.verdict)) + 1
      BY <3>4, CountedSetsAreFinite, FS_AddElement
    <3>6. IsBacked(stored, c, ch.signer, row)
      BY <2>2, <2>3, <2>6, <3>1, <3>2, <3>3, BackedRetained
    <3>7. CountVerdict(row, ch.verdict) \in SignerRow
      BY <3>2, CountVerdictType
    <3>8. IsBacked(stored, c, ch.signer, CountVerdict(row, ch.verdict))
      <4>1. /\ row.accepted \in Nat /\ row.rejected \in Nat /\ row.missed \in Nat
        BY <3>2 DEF SignerRow
      <4>2. /\ Cardinality(AnsweredIn(d, c, ch.signer, "accepted")) \in Nat
            /\ Cardinality(AnsweredIn(d, c, ch.signer, "rejected")) \in Nat
        BY CountedSetsAreFinite
      <4>3. CASE ch.verdict = "accepted"
        BY <2>2, <3>2, <3>3, <3>5, <3>6, <4>1, <4>2, <4>3, CountVerdictFields DEF IsBacked
      <4>4. CASE ch.verdict = "rejected"
        BY <2>2, <3>2, <3>3, <3>5, <3>6, <4>1, <4>2, <4>4, CountVerdictFields DEF IsBacked
      <4>5. QED
        BY <2>2, <4>3, <4>4 DEF Verdicts
    <3>9. e = [stored EXCEPT !.signers[c] = rows]
      BY <2>3, <2>5, <2>8, <3>1, <3>2 DEF Database, row, c
    <3>10. rows \in [Signers -> SignerRow \cup {NoRow}]
      BY <3>1, <3>2, <3>7
    <3>11. \A s \in Signers : rows[s] # NoRow => IsBacked(stored, c, s, rows[s])
      <4>1. \A s \in Signers : rows[s] = IF s = ch.signer THEN CountVerdict(row, ch.verdict)
                                         ELSE stored.signers[c][s]
        BY <2>3, <3>2
      <4>2. QED
        BY <2>7, <3>1, <3>8, <4>1 DEF Backed
    <3> HIDE DEF rows
    <3>12. QED
      BY <2>3, <2>7, <3>1, <3>9, <3>10, <3>11, SetRowsBacked DEF e
  <2>9. CASE ~IsCounted(d, ch)
    BY <2>5, <2>7, <2>9 DEF e
  <2>10. QED
    BY <2>8, <2>9
<1>4. CASE IsApplied(d, ch) /\ ch.type = "BlockPushed"
  <2>1. e = ApplyBlockPush(d, ch) /\ e \in Database
    BY <1>4, ApplyStackerDbChunkType DEF ApplyStackerDbChunk
  <2>2. /\ e.signers = d.signers /\ e.responses = d.responses /\ e.blocks = d.blocks
        /\ e.proposals = d.proposals
    BY <2>1 DEF ApplyBlockPush, Database
  <2> HIDE DEF e
  <2>3. Retains(d, e)
    BY <2>2 DEF Retains, AnsweredIn, BlocksIn
  <2>4. QED
    BY <2>1, <2>2, <2>3, SameSignersBacked DEF e
<1>5. QED
  BY <1>1, <1>2, <1>3, <1>4 DEF IsApplied, Chunk

\* So does inserting a block.
LEMMA InsertBlockBacked ==
  ASSUME NEW d \in Database, NEW h \in Hashes, Backed(d)
  PROVE  Backed(InsertBlock(d, h))
<1> DEFINE c == BlockCycle(d, h)
           missed == {s \in Signers : d.responses[<<s, h>>] = NoRow}
           inserted == [d EXCEPT !.blocks = Append(@, h)]
           rows == [s \in Signers |-> IF s \in missed \cap RewardSet(d, c)
                                      THEN [d.signers[c][s] EXCEPT !.missed = @ + 1]
                                      ELSE d.signers[c][s]]
<1>1. /\ inserted \in Database /\ inserted.signers = d.signers
      /\ inserted.proposals = d.proposals /\ inserted.responses = d.responses
      /\ inserted.blocks = Append(d.blocks, h)
  <2>1. Append(d.blocks, h) \in Seq(Hashes)
    BY DEF Database
  <2>2. QED
    BY <2>1 DEF Database
<1>2. InsertBlock(d, h) = IF c = NoRow THEN inserted ELSE [inserted EXCEPT !.signers[c] = rows]
  BY DEF InsertBlock
<1> HIDE DEF inserted
<1>3. /\ d.blocks \in Seq(Hashes) /\ Len(d.blocks) \in Nat
      /\ Len(inserted.blocks) = Len(d.blocks) + 1
      /\ \A i \in 1..Len(d.blocks) : inserted.blocks[i] = d.blocks[i]
      /\ inserted.blocks[Len(d.blocks) + 1] = h
  BY <1>1 DEF Database
<1>4. Retains(d, inserted)
  BY <1>1, <1>3 DEF Retains, AnsweredIn, BlocksIn
<1>5. Backed(inserted)
  BY <1>1, <1>4, SameSignersBacked
<1>6. CASE c = NoRow
  BY <1>2, <1>5, <1>6
<1>7. CASE c \in Cycles
  <2>1. d.pox \in PoxInfos /\ c = CycleOf(d.pox, h)
    BY <1>7, ConstantsAssumption DEF BlockCycle, Database
  <2>2. /\ BlocksIn(inserted, c) = BlocksIn(d, c) \cup {Len(d.blocks) + 1}
        /\ Len(d.blocks) + 1 \notin BlocksIn(d, c)
    <3>1. BlocksIn(inserted, c) \subseteq BlocksIn(d, c) \cup {Len(d.blocks) + 1}
      BY <1>3 DEF BlocksIn
    <3>2. BlocksIn(d, c) \subseteq BlocksIn(inserted, c)
      BY <1>7, <1>4, <1>3 DEF BlocksIn
    <3>3. Len(d.blocks) + 1 \in BlocksIn(inserted, c)
      BY <1>3, <2>1 DEF BlocksIn
    <3>4. Len(d.blocks) + 1 \notin BlocksIn(d, c)
      BY <1>3 DEF BlocksIn
    <3>5. QED
      BY <3>1, <3>2, <3>3, <3>4
  <2>3. /\ Cardinality(BlocksIn(inserted, c)) = Cardinality(BlocksIn(d, c)) + 1
        /\ Cardinality(BlocksIn(d, c)) \in Nat
    BY <2>2, CountedSetsAreFinite, FS_AddElement
  <2> HIDE DEF c
  <2>4. ASSUME NEW s \in RewardSet(d, c)
        PROVE  /\ [d.signers[c][s] EXCEPT !.missed = @ + 1] \in SignerRow
               /\ IsBacked(inserted, c, s, [d.signers[c][s] EXCEPT !.missed = @ + 1])
    <3>1. s \in Signers /\ d.signers[c][s] \in SignerRow /\ d.signers[c][s] # NoRow
      BY <1>7, RowType DEF RewardSet
    <3>2. IsBacked(d, c, s, d.signers[c][s]) /\ IsBacked(inserted, c, s, d.signers[c][s])
      BY <1>1, <1>5, <1>7, <3>1 DEF Backed
    <3>3. LET new == [d.signers[c][s] EXCEPT !.missed = @ + 1] IN
          /\ new \in SignerRow /\ new.missed = d.signers[c][s].missed + 1
          /\ new.accepted = d.signers[c][s].accepted /\ new.rejected = d.signers[c][s].rejected
      BY <3>1 DEF SignerRow
    <3>4. d.signers[c][s].missed \in Nat
      BY <3>1 DEF SignerRow
    <3>5. QED
      BY <2>3, <3>2, <3>3, <3>4 DEF IsBacked
  <2>5. rows \in [Signers -> SignerRow \cup {NoRow}]
    BY <1>7, <2>4 DEF Database
  <2>6. \A s \in Signers : rows[s] # NoRow => IsBacked(inserted, c, s, rows[s])
    BY <1>1, <1>5, <1>7, <2>4 DEF Backed
  <2> HIDE DEF rows
  <2>7. c # NoRow
    BY <1>7, ConstantsAssumption
  <2>8. Backed([inserted EXCEPT !.signers[c] = rows])
    BY <1>1, <1>5, <1>7, <2>5, <2>6, SetRowsBacked
  <2>9. QED
    BY <1>2, <2>7, <2>8
<1>8. QED
  BY <1>6, <1>7, BlockCycleType

\* Databases with the same rows to count, and the same counters.
SameCounts(d, e) ==
  /\ e.proposals = d.proposals /\ e.responses = d.responses
  /\ e.blocks = d.blocks /\ e.signers = d.signers

\* So does what leaves the counters and the rows alone.
LEMMA SameCountsBacked ==
  ASSUME NEW d, NEW e, SameCounts(d, e), Backed(d)
  PROVE  Backed(e)
<1>1. \A c, s, verdict : AnsweredIn(e, c, s, verdict) = AnsweredIn(d, c, s, verdict)
  BY DEF SameCounts, AnsweredIn
<1>2. \A c : BlocksIn(e, c) = BlocksIn(d, c)
  BY DEF SameCounts, BlocksIn
<1>3. QED
  BY <1>1, <1>2 DEF SameCounts, Backed, IsBacked

\* So does all that is written for a new block message.
LEMMA ApplyBlockBacked ==
  ASSUME NEW d \in Database, NEW m \in Message, Backed(d)
  PROVE  Backed(ApplyBlock(d, m))
<1> DEFINE inserted == IF Header[m.hash].nakamoto THEN InsertBlock(d, m.hash) ELSE d
           signed == [inserted EXCEPT !.sigs = Append(@, m.hash)]
<1>1. m.hash \in Hashes /\ m.set \in SUBSET Signers /\ (HasCycle(m) => m.cycle \in Cycles)
  BY DEF Message, HasCycle
<1>2. inserted \in Database /\ Backed(inserted)
  BY <1>1, InsertBlockType, InsertBlockBacked
<1> HIDE DEF inserted
<1>3. signed \in Database /\ SameCounts(inserted, signed)
  <2>1. Append(inserted.sigs, m.hash) \in Seq(Hashes)
    BY <1>1, <1>2 DEF Database
  <2>2. QED
    BY <1>2, <2>1 DEF Database, SameCounts
<1>4. Backed(signed)
  BY <1>2, <1>3, SameCountsBacked
<1> HIDE DEF signed
<1>5. ApplyBlock(d, m) = IF HasCycle(m) THEN ReplaceRewardSet(signed, m.cycle, m.set)
                                        ELSE signed
  BY DEF ApplyBlock, signed, inserted
<1>6. QED
  BY <1>1, <1>3, <1>4, <1>5, ReplaceBacked

BothBacked == Backed(db) /\ Backed(tx)

\* Nothing is counted at first.
LEMMA BackedInit == Init => BothBacked
<1> SUFFICES ASSUME Init PROVE Backed(EmptyDatabase)
  BY DEF Init, BothBacked
<1>1. \A c \in Cycles, s \in Signers : EmptyDatabase.signers[c][s] = NoRow
  BY DEF EmptyDatabase
<1>2. QED
  BY <1>1 DEF Backed

\* Every step leaves the counters backed, in an open transaction too.
LEMMA BackedStep == TypeOK /\ BothBacked /\ [Next]_vars => BothBacked'
<1> SUFFICES ASSUME TypeOK, BothBacked, [Next]_vars PROVE Backed(db') /\ Backed(tx')
  BY DEF BothBacked
<1> USE DEF store, handler, counts
<1>1. db \in Database /\ tx \in Database /\ Backed(db) /\ Backed(tx)
  BY DEF TypeOK, BothBacked
<1>m. pc \in {"delete", "insert", "rank", "block", "chunks"} => current \in Message
  BY CurrentType DEF TypeOK
<1>2. CASE RewardSetDelete \/ RewardSetInsert \/ RewardSetRank
  <2> DEFINE c == current.cycle
  <2>1. /\ c \in Cycles /\ current.set \in SUBSET Signers
        /\ NewSignerRow \in SignerRow /\ NewSignerRow.accepted = 0
        /\ NewSignerRow.rejected = 0 /\ NewSignerRow.missed = 0
    BY <1>2, <1>m, AnnouncedType
    DEF RewardSetDelete, RewardSetInsert, RewardSetRank, TypeOK, NewSignerRow, SignerRow
  <2> HIDE DEF c
  <2>2. \A s \in Signers : /\ db.signers[c][s] \in SignerRow \cup {NoRow}
                           /\ db.signers[c][s] # NoRow => IsBacked(db, c, s, db.signers[c][s])
    BY <1>1, <2>1 DEF Backed, Database
  <2>3. \A s \in Signers : IsBacked(db, c, s, NewSignerRow)
    BY <1>1, <2>1, NewRowBacked
  <2>4. PICK rows : /\ db' = [db EXCEPT !.signers[c] = rows] /\ tx' = db'
                    /\ rows \in [Signers -> SignerRow \cup {NoRow}]
                    /\ \A s \in Signers : rows[s] # NoRow => IsBacked(db, c, s, rows[s])
    <3>1. CASE RewardSetDelete
      <4> DEFINE rows == [s \in Signers |-> NoRow]
      <4>1. db' = [db EXCEPT !.signers[c] = rows] /\ tx' = db'
        BY <3>1 DEF RewardSetDelete, Autocommit, c
      <4>2. rows \in [Signers -> SignerRow \cup {NoRow}]
        OBVIOUS
      <4>3. QED
        BY <4>1, <4>2
    <3>2. CASE RewardSetInsert
      <4> DEFINE inserted == current.set \ RewardSet(db, c)
                 rows == [s \in Signers |-> IF s \in inserted THEN NewSignerRow
                                            ELSE db.signers[c][s]]
      <4>1. db' = [db EXCEPT !.signers[c] = rows] /\ tx' = db'
        BY <3>2 DEF RewardSetInsert, Autocommit, c
      <4>2. rows \in [Signers -> SignerRow \cup {NoRow}]
        BY <2>1, <2>2
      <4>3. \A s \in Signers : rows[s] # NoRow => IsBacked(db, c, s, rows[s])
        BY <2>2, <2>3
      <4>4. QED
        BY <4>1, <4>2, <4>3
    <3>3. CASE RewardSetRank
      <4> DEFINE rows == [s \in Signers |-> RankedRow(db.signers[c][s])]
      <4>1. db' = [db EXCEPT !.signers[c] = rows] /\ tx' = db'
        BY <3>3 DEF RewardSetRank, Autocommit, c
      <4>2. ASSUME NEW row \in SignerRow, row # NoRow
            PROVE  LET new == RankedRow(row) IN
                   /\ new \in SignerRow
                   /\ new.accepted = row.accepted /\ new.rejected = row.rejected
                   /\ new.missed = row.missed
        BY <4>2 DEF RankedRow, SignerRow
      <4>3. RankedRow(NoRow) = NoRow
        BY DEF RankedRow
      <4>4. rows \in [Signers -> SignerRow \cup {NoRow}]
        BY <2>2, <4>2, <4>3, NoRowIsNoSignerRow
      <4>5. \A s \in Signers : rows[s] # NoRow => IsBacked(db, c, s, rows[s])
        BY <2>2, <4>2, <4>3, NoRowIsNoSignerRow DEF IsBacked
      <4>6. QED
        BY <4>1, <4>4, <4>5
    <3>4. QED
      BY <1>2, <3>1, <3>2, <3>3
  <2>5. QED
    BY <1>1, <2>1, <2>4, SetRowsBacked
<1>3. CASE IngestBlock
  <2> DEFINE e == ApplyBlock(db, current)
  <2>1. current \in Message
    BY <1>3, <1>m DEF IngestBlock
  <2>2. e \in Database /\ Backed(e)
    BY <1>1, <2>1, ApplyBlockType, ApplyBlockBacked
  <2>3. db' = [e EXCEPT !.tip = Header[current.hash].height, !.lastMsgId = pos] /\ tx' = db'
    BY <1>3 DEF IngestBlock, Autocommit
  <2> HIDE DEF e
  <2>4. SameCounts(e, db')
    BY <2>2, <2>3 DEF SameCounts, Database
  <2>5. QED
    BY <2>2, <2>3, <2>4, SameCountsBacked
<1>4. CASE ApplyChunk
  <2>1. current.chunks[next] \in Chunk
    BY <1>4, <1>m DEF ApplyChunk, TypeOK, Message
  <2>2. db' = db /\ tx' = ApplyStackerDbChunk(tx, current.chunks[next])
    BY <1>4 DEF ApplyChunk
  <2>3. QED
    BY <1>1, <2>1, <2>2, ChunkBacked
<1>5. CASE CommitChunks
  <2>1. db' = [tx EXCEPT !.lastMsgId = pos] /\ tx' = db'
    BY <1>5 DEF CommitChunks, Autocommit
  <2>2. SameCounts(tx, db')
    BY <1>1, <2>1 DEF SameCounts, Database
  <2>3. QED
    BY <1>1, <2>1, <2>2, SameCountsBacked
<1>6. ASSUME NEW c \in Cycles, StackerSetFetched(c) PROVE Backed(db') /\ Backed(tx')
  <2>1. RpcSigners[c] \in SUBSET Signers
    BY ConstantsAssumption
  <2>2. QED
    BY <1>1, <1>6, <2>1, ReplaceBacked DEF StackerSetFetched
<1>7. ASSUME NEW pox \in PoxInfos, UpdatePoxInfo(pox) PROVE Backed(db') /\ Backed(tx')
  <2>1. SameCounts(db, db') /\ SameCounts(tx, tx')
    BY <1>1, <1>7 DEF UpdatePoxInfo, SameCounts, Database
  <2>2. QED
    BY <1>1, <2>1, SameCountsBacked
<1>8. CASE BlockThrows \/ HandlerFails \/ Crash
  <2>1. db' = db /\ tx' = db
    BY <1>8 DEF BlockThrows, HandlerFails, AbandonMessage, Crash
  <2>2. QED
    BY <1>1, <2>1
<1>9. CASE \/ HandleMsg \/ SkipBlock \/ MessageProcessed \/ EmitSignerMessages
           \/ \E c \in Cycles : StackerSetPrePox4(c)
           \/ \E m \in Messages : Publish(m)
           \/ UNCHANGED vars
  <2>1. db' = db /\ tx' = tx
    BY <1>9 DEF HandleMsg, SkipBlock, MessageProcessed, EmitSignerMessages,
                StackerSetPrePox4, Publish, vars
  <2>2. QED
    BY <1>1, <2>1
<1>10. QED
  BY <1>2, <1>3, <1>4, <1>5, <1>6, <1>7, <1>8, <1>9 DEF Next, HandlerStep, AwaitMessages

\* With both databases backed, so are the counters that can be read.
LEMMA BackedImplies == BothBacked => CountersBacked
<1>1. \A c, s, verdict : Answered(c, s, verdict) = AnsweredIn(db, c, s, verdict)
  BY DEF Answered, AnsweredIn
<1>2. \A c : BlocksOf(c) = BlocksIn(db, c)
  BY DEF BlocksOf, BlocksIn
<1>3. QED
  BY <1>1, <1>2 DEF BothBacked, Backed, IsBacked, CountersBacked, RewardSet

\* However often messages are delivered and sets replaced, a signer's counters never
\* exceed the responses and blocks in the tables that account for them.
THEOREM CountersAreBacked == Spec => []CountersBacked
  BY TypeCorrect, BackedInit, BackedStep, BackedImplies, PTL DEF Spec
==============================================================================
