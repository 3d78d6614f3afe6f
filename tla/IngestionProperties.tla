------------------------ MODULE IngestionProperties ------------------------
(***************************************************************************)
(* What the ingestion must guarantee, for any interleaving of its writers, *)
(* any crash and any failed handler call.                                  *)
(***************************************************************************)
EXTENDS Ingestion

Elements(seq) == {seq[i] : i \in 1..Len(seq)}

Row == [table : {"BlockProposal", "BlockPushed"}, hash : Hashes, signer : {NoRow}]
       \cup [table : {"BlockResponse"}, hash : Hashes, signer : Signers]

\* Every variable has its type, and the handler's position is one the control
\* flow of handleMsg allows for the message at pos.
TypeOK ==
  /\ stream \in Seq(Messages)
  /\ db \in Database /\ tx \in Database
  /\ pc \in Steps
  /\ pos \in 1 .. Len(stream) + 1
  /\ db.lastMsgId <= Len(stream)
  /\ next \in Nat \ {0}
  /\ applied \in SUBSET Row
  /\ timers \in Seq(SUBSET Row)
  /\ heard \in SUBSET Row
  /\ wanted \in SUBSET Cycles
  /\ crashes \in Nat /\ failures \in Nat /\ lost \in Nat
  /\ pc # "idle" => pos <= Len(stream)
  /\ pc \in {"delete", "insert", "rank"} => Announces(current)
  /\ pc = "block" => current.path = "/new_block" /\ current.sigHash
  /\ pc = "chunks" => /\ current.path = "/stackerdb_chunks"
                      /\ next <= Len(current.chunks) + 1
  /\ pc # "chunks" => tx = db /\ applied = {} /\ next = 1
------------------------------------------------------------------------------
(* Blocks                                                                  *)

Height(h) == Header[h].height

Ascending(hashes) ==
  \A i, j \in 1..Len(hashes) : i < j => Height(hashes[i]) < Height(hashes[j])

\* Redelivery, forks and crashes never give a height two blocks, nor a block two
\* rows or two batches of signatures: neither table has a unique constraint
\* ("TODO: add unique constraint here", pg-write-store.ts:355, 408), and the
\* joins of pg-store.ts:340 rely on it. The guard on the chain tip is all there is.
BlocksIngestedOnce ==
  /\ Ascending(db.blocks) /\ Ascending(db.sigs)
  /\ \A h \in Elements(db.blocks) \cup Elements(db.sigs) : Height(h) <= db.tip
  /\ \A h \in Hashes : h \in Elements(db.blocks)
                         <=> h \in Elements(db.sigs) /\ Header[h].nakamoto

IsSignedBlock(m) == m.path = "/new_block" /\ m.sigHash

\* The block of message i is higher than all the stream brought before it.
ExtendsTheChain(i) ==
  /\ IsSignedBlock(stream[i])
  /\ \A j \in 1..(i - 1) :
       IsSignedBlock(stream[j]) => Height(stream[j].hash) < Height(stream[i].hash)

HasRowsOf(m) ==
  \A i \in 1..Len(m.chunks) : m.chunks[i].type # "Other" => HasRow(db, RowOf(m.chunks[i]))

\* No message is lost: whatever crashed or failed on the way, once the client is
\* past a message the rows its chunks ask for are in the database, and so is a
\* block that extended the chain. (last_redis_msg_id trails the position, since
\* ignored and skipped messages do not move it.)
NoMessageLost ==
  \A i \in 1..(pos - 1) :
    /\ stream[i].path = "/stackerdb_chunks" => HasRowsOf(stream[i])
    /\ ExtendsTheChain(i) /\ Height(stream[i].hash) > EmptyDatabase.tip
         => stream[i].hash \in Elements(db.sigs)
------------------------------------------------------------------------------
(* Proposal status, as the queries compute it                              *)

Status(d, h) ==
  CASE h \in d.pushes              -> "accepted"
    [] h \notin d.pushes /\ Height(h) > d.tip -> "pending"
    [] h \notin d.pushes /\ Height(h) <= d.tip /\ h \in Elements(d.blocks) -> "accepted"
    [] OTHER                       -> "rejected"

\* What API clients see of a proposal never goes back: an accepted one stays
\* accepted, a decided one is never pending again, and a rejected one is only
\* revived by the push of that very block.
StatusNeverReverts ==
  [][\A h \in Hashes :
       /\ Status(db, h) = "accepted" => Status(db', h) = "accepted"
       /\ Status(db, h) = "rejected" =>
            \/ Status(db', h) = "rejected"
            \/ h \in db'.pushes \ db.pushes]_vars
------------------------------------------------------------------------------
(* Events for listeners                                                    *)

Pending == UNION Elements(timers)

\* Listeners (socket.io, NOTIFY) hear of a row at most once and only when it is
\* committed: a redelivered message, a rolled back transaction or a crash
\* announces nothing twice and nothing that is not in the database.
AnnouncedOnceAndDurable ==
  /\ \A i, j \in 1..Len(timers) : i # j => timers[i] \cap timers[j] = {}
  /\ Pending \cap heard = {}
  /\ \A row \in Pending \cup heard : HasRow(db, row)
------------------------------------------------------------------------------
(* Signer sets and their counters                                          *)

\* The proposals of cycle c that signer s answered with the verdict.
Answered(c, s, verdict) ==
  {h \in Hashes : db.proposals[h] = c /\ db.responses[<<s, h>>] = verdict}

\* The rows of blocks that can belong to cycle c.
BlocksOf(c) ==
  {i \in 1..Len(db.blocks) : \E pox \in PoxInfos : CycleOf(pox, db.blocks[i]) = c}

\* At-least-once delivery never counts anything twice: a signer's counters never
\* exceed the responses and the blocks in the tables that account for them.
CountersBacked ==
  \A c \in Cycles : \A s \in RewardSet(db, c) :
    /\ db.signers[c][s].accepted <= Cardinality(Answered(c, s, "accepted"))
    /\ db.signers[c][s].rejected <= Cardinality(Answered(c, s, "rejected"))
    /\ db.signers[c][s].missed <= Cardinality(BlocksOf(c))

IsHalfApplied(d, c) == \E s \in RewardSet(d, c) : ~d.signers[c][s].ranked

WillAnnounce(c) ==
  \E i \in pos..Len(stream) : Announces(stream[i]) /\ stream[i].cycle = c

\* The three statements of a reward set run outside any transaction
\* (event-stream.ts:67), so a crash or a failure may leave a cycle deleted or
\* unranked; as long as no answer is lost, the message that announces the set is
\* then still ahead of the point the stream is replayed from.
HalfAppliedSetsAreReplayed ==
  /\ \A c \in Cycles : IsHalfApplied(db, c) => WillAnnounce(c)
  /\ \A i \in 1..(pos - 1) : Announces(stream[i]) =>
       RewardSet(db, stream[i].cycle) # {} \/ WillAnnounce(stream[i].cycle)
------------------------------------------------------------------------------
(* Liveness: under FairSpec, with finitely many crashes and failures, and  *)
(* no message that makes applyBlock throw.                                 *)

IsDrained == pc = "idle" /\ pos = Len(stream) + 1

\* Ingestion never gets stuck: it catches up with the stream again and again.
StreamDrains == []<>IsDrained

\* A set left half applied is completed by the replay.
HalfAppliedSetsHeal ==
  \A c \in Cycles : IsHalfApplied(db, c) ~> ~IsHalfApplied(db, c)
------------------------------------------------------------------------------
(* What comments and the API's schemas say, and the code does not keep.    *)

\* "Number of block proposals accepted by this signer" (schemas.ts:150).
AcceptedCountIsExact ==
  IsDrained => \A c \in Cycles : \A s \in RewardSet(db, c) :
    db.signers[c][s].accepted = Cardinality(Answered(c, s, "accepted"))

\* "This signer's rank in the list of all signers (for this cycle) ordered by
\* stacked amount" (schemas.ts:147): every signer of a cycle has been ranked.
SignersAreRanked == IsDrained => \A c \in Cycles : ~IsHalfApplied(db, c)

AcceptedCount(d, c, s) ==
  IF s \in RewardSet(d, c) THEN d.signers[c][s].accepted ELSE 0

\* The same number, over time: responses are never deleted, so it cannot fall.
AcceptedCountNeverFalls ==
  [][\A c \in Cycles, s \in Signers :
       AcceptedCount(db, c, s) <= AcceptedCount(db', c, s)]_vars
==============================================================================
