------------------------------ MODULE Ingestion ------------------------------
(***************************************************************************)
(* The ingestion of the Stacks node's event stream into Postgres:          *)
(* EventStreamHandler (event-stream.ts) driving PgWriteStore               *)
(* (pg-write-store.ts), beside the two background writers that share its   *)
(* tables, StackerSetUpdator and the PoX info updater, each seen here      *)
(* through the transactions it commits.                                    *)
(*                                                                         *)
(* The Redis stream is an immutable log read at `pos`; the client delivers *)
(* one message at a time and only moves on when the callback returned.     *)
(* Each `await` of the handler that can fail, or between which another     *)
(* writer can commit, is a step of its own: the three autocommitted        *)
(* statements of a reward set, the block transaction, each chunk of a      *)
(* StackerDB transaction and its commit.                                   *)
(***************************************************************************)
EXTENDS Integers, Sequences, FiniteSets

CONSTANTS
  Signers,      \* signer public keys
  Hashes,       \* block hashes (signer signature hashes)
  Cycles,       \* reward cycle numbers
  NoRow,        \* SQL NULL, an absent row, an absent field
  Header,       \* what a block hash determines: height, burn height, kind
  Messages,     \* the messages the node may publish
  PoxInfos,     \* the PoX parameters the RPC may report
  RpcSigners,   \* the stacker set the RPC reports for a cycle
  MaxStream,    \* bound: messages published
  MaxCrashes,   \* bound: process crashes
  MaxFailures,  \* bound: writes of the handler that fail for an outside reason
  MaxLost       \* bound: writes of the handler that succeed but whose answer is lost

Verdicts == {"accepted", "rejected"}

\* One decoded StackerDB chunk; the kinds the writer ignores are "Other".
Chunk == [type : {"BlockProposal", "BlockResponse", "BlockPushed", "Other"},
          hash : Hashes, cycle : Cycles, signer : Signers, verdict : Verdicts]

\* One stream message. `sigHash` tells whether 'signer_signature_hash' is in
\* the body; `cycle` and `set` are its cycle_number and reward_set signers (an
\* absent set and an empty one are treated alike by the code).
Message == [path : {"/new_block", "/stackerdb_chunks", "other"},
            hash : Hashes, sigHash : BOOLEAN, cycle : Cycles \cup {NoRow},
            set : SUBSET Signers, chunks : Seq(Chunk)]

PoxInfo == [first : Nat, length : Nat \ {0}]

\* FLOOR((burn_block_height - first_burnchain_block_height) / reward_cycle_length)
CycleOf(pox, h) == (Header[h].burn - pox.first) \div pox.length

ASSUME ConstantsAssumption ==
  /\ Cycles \subseteq Nat
  /\ NoRow \notin Cycles /\ NoRow \notin Verdicts /\ NoRow \notin PoxInfos
  /\ Header \in [Hashes -> [height : Nat, burn : Nat, nakamoto : BOOLEAN]]
  /\ PoxInfos \subseteq PoxInfo
  /\ \A pox \in PoxInfos, h \in Hashes : CycleOf(pox, h) \in Cycles
  /\ RpcSigners \in [Cycles -> SUBSET Signers]
  /\ IsFiniteSet(Signers) /\ IsFiniteSet(Hashes)
  /\ Messages \subseteq Message
  /\ MaxStream \in Nat /\ MaxCrashes \in Nat /\ MaxFailures \in Nat /\ MaxLost \in Nat

\* A reward_set_signers row. `ranked` stands for the three columns the last
\* statement of insertRewardSetSigners computes from all rows of the cycle.
SignerRow == [accepted : Nat, rejected : Nat, missed : Nat, ranked : BOOLEAN]

NewSignerRow == [accepted |-> 0, rejected |-> 0, missed |-> 0, ranked |-> FALSE]

ASSUME NoRowIsNoSignerRow == NoRow \notin SignerRow

\* The tables the ingestion writes.
Database == [tip : Nat,                                   \* chain_tip.block_height
             lastMsgId : Nat,                             \* chain_tip.last_redis_msg_id
             pox : PoxInfos \cup {NoRow},                 \* chain_tip.*_burnchain_*, reward_cycle_length
             blocks : Seq(Hashes),                        \* blocks, in insertion order
             sigs : Seq(Hashes),                          \* block_signer_signatures, one batch per block
             proposals : [Hashes -> Cycles \cup {NoRow}], \* block_proposals: the reward_cycle
             responses : [Signers \X Hashes -> Verdicts \cup {NoRow}],
             pushes : SUBSET Hashes,
             signers : [Cycles -> [Signers -> SignerRow \cup {NoRow}]]]

EmptyDatabase ==
  [tip |-> 1, lastMsgId |-> 0, pox |-> NoRow, blocks |-> <<>>, sigs |-> <<>>,
   proposals |-> [h \in Hashes |-> NoRow],
   responses |-> [sh \in Signers \X Hashes |-> NoRow],
   pushes |-> {},
   signers |-> [c \in Cycles |-> [s \in Signers |-> NoRow]]]

VARIABLES
  stream,    \* the Redis stream: message i has id i
  db,        \* the committed database
  tx,        \* what the handler's open transaction sees (db when none is open)
  pc,        \* the step handleMsg is at
  pos,       \* id of the message being, or next to be, delivered
  next,      \* index of the next chunk of the current message to apply
  applied,   \* appliedSignerMessageResults of the current message
  timers,    \* 'signerMessages' payloads queued with setTimeout
  heard,     \* every row announced to listeners so far (history)
  wanted,    \* cycles queued in StackerSetUpdator
  crashes, failures, lost

store    == <<db, tx>>
handler  == <<pc, pos, next, applied>>
counts   == <<crashes, failures, lost>>
vars     == <<stream, store, handler, timers, heard, wanted, counts>>

Steps == {"idle", "delete", "insert", "rank", "block", "chunks", "done"}

current == stream[pos]
------------------------------------------------------------------------------
(* Rows of the tables, and the writes of PgWriteStore as functions of a    *)
(* database.                                                               *)

RewardSet(d, c) == {s \in Signers : d.signers[c][s] # NoRow}

\* The primary key of the row a chunk asks for.
RowOf(ch) == [table |-> ch.type, hash |-> ch.hash,
              signer |-> IF ch.type = "BlockResponse" THEN ch.signer ELSE NoRow]

HasRow(d, row) ==
  \/ row.table = "BlockProposal" /\ d.proposals[row.hash] # NoRow
  \/ row.table = "BlockResponse" /\ d.responses[<<row.signer, row.hash>>] # NoRow
  \/ row.table = "BlockPushed"   /\ row.hash \in d.pushes

\* Mutant: duplicates are reported, and written again, like new rows.
IsAppliedAlways(d, ch) == ch.type # "Other"

\* `applied` in the results of applyBlockProposal / Response / Push: the INSERT
\* met no conflict.
IsApplied(d, ch) == ch.type # "Other" /\ ~HasRow(d, RowOf(ch))

ApplyBlockProposal(d, ch) == [d EXCEPT !.proposals[ch.hash] = ch.cycle]

\* The UPDATE of reward_set_signers: a no-op unless the proposal is known and
\* the signer has a row in the proposal's reward cycle.
CountVerdict(row, verdict) ==
  [row EXCEPT !.accepted = @ + (IF verdict = "accepted" THEN 1 ELSE 0),
              !.rejected = @ + (IF verdict = "accepted" THEN 0 ELSE 1)]

IsCounted(d, ch) ==
  /\ d.proposals[ch.hash] # NoRow
  /\ ch.signer \in RewardSet(d, d.proposals[ch.hash])

ApplyBlockResponse(d, ch) ==
  LET stored == [d EXCEPT !.responses[<<ch.signer, ch.hash>>] = ch.verdict]
  IN  IF IsCounted(d, ch)
      THEN [stored EXCEPT !.signers[d.proposals[ch.hash]][ch.signer] =
                             CountVerdict(@, ch.verdict)]
      ELSE stored

ApplyBlockPush(d, ch) == [d EXCEPT !.pushes = @ \cup {ch.hash}]

\* Mutant: a duplicate response is counted although its row is not inserted.
ApplyStackerDbChunkCountingDuplicates(d, ch) ==
  IF ch.type # "BlockResponse" /\ ~IsApplied(d, ch) THEN d
  ELSE CASE ch.type = "BlockProposal" -> ApplyBlockProposal(d, ch)
         [] ch.type = "BlockResponse" -> ApplyBlockResponse(d, ch)
         [] ch.type = "BlockPushed"   -> ApplyBlockPush(d, ch)

ApplyStackerDbChunk(d, ch) ==
  IF ~IsApplied(d, ch) THEN d
  ELSE CASE ch.type = "BlockProposal" -> ApplyBlockProposal(d, ch)
         [] ch.type = "BlockResponse" -> ApplyBlockResponse(d, ch)
         [] ch.type = "BlockPushed"   -> ApplyBlockPush(d, ch)

\* insertRewardSetSigners inside a transaction: all three statements at once.
\* An empty list of signers changes nothing.
ReplaceRewardSet(d, c, set) ==
  IF set = {} THEN d
  ELSE [d EXCEPT !.signers[c] =
          [s \in Signers |-> IF s \in set THEN [NewSignerRow EXCEPT !.ranked = TRUE]
                                          ELSE NoRow]]

\* The cycle insertBlock computes; NULL while the PoX parameters are unknown.
BlockCycle(d, h) == IF d.pox = NoRow THEN NoRow ELSE CycleOf(d.pox, h)

\* The block's row, and proposals_missed_count of every signer of its cycle
\* that has not responded to it yet.
InsertBlock(d, h) ==
  LET c        == BlockCycle(d, h)
      missed   == {s \in Signers : d.responses[<<s, h>>] = NoRow}
      inserted == [d EXCEPT !.blocks = Append(@, h)]
  IN  IF c = NoRow THEN inserted
      ELSE [inserted EXCEPT !.signers[c] =
              [s \in Signers |-> IF s \in missed \cap RewardSet(d, c)
                                 THEN [d.signers[c][s] EXCEPT !.missed = @ + 1]
                                 ELSE d.signers[c][s]]]

\* The cycle, if any, for which insertBlock schedules 'missingStackerSet'.
MissingSets(d, h) ==
  {c \in Cycles : /\ Header[h].nakamoto
                  /\ c = BlockCycle(d, h)
                  /\ RewardSet(d, c) = {}}

\* handleMsg's test for a reward set: a cycle number of 0 is falsy.
HasCycle(m)  == m.cycle \notin {NoRow, 0}
Announces(m) == m.path = "/new_block" /\ HasCycle(m) /\ m.set # {}

ApplyBlock(d, m) ==
  LET inserted == IF Header[m.hash].nakamoto THEN InsertBlock(d, m.hash) ELSE d
      signed   == [inserted EXCEPT !.sigs = Append(@, m.hash)]
  IN  IF HasCycle(m) THEN ReplaceRewardSet(signed, m.cycle, m.set) ELSE signed

\* applyBlock throws for a reward set that comes without a cycle number.
ApplyBlockThrows(m) == m.set # {} /\ ~HasCycle(m)

\* Mutants: a second block at the tip's height passes; every block passes.
IsBelowTip(d, m) == Header[m.hash].height < d.tip
IsNeverIngested(d, m) == FALSE

IsPreviouslyIngested(d, m) == Header[m.hash].height <= d.tip
------------------------------------------------------------------------------
(* EventStreamHandler                                                      *)

AfterRewardSet(m) == IF m.sigHash THEN "block" ELSE "done"

FirstStep(m) ==
  CASE m.path = "/new_block" -> IF Announces(m) THEN "delete" ELSE AfterRewardSet(m)
    [] m.path = "/stackerdb_chunks" -> "chunks"
    [] OTHER -> "done"

\* The stream client hands over the message at pos.
HandleMsg ==
  /\ pc = "idle"
  /\ pos <= Len(stream)
  /\ pc' = FirstStep(current)
  /\ UNCHANGED <<stream, store, pos, next, applied, timers, heard, wanted, counts>>

\* applyRewardSet(this.db.sql, ...): three statements, no transaction.
Autocommit(d) == db' = d /\ tx' = d

\* The database answers and the handler goes on at `step`; or the answer is lost
\* with the connection and the callback rejects, although the write took effect.
Acknowledged(step) ==
  \/ pc' = step /\ UNCHANGED lost
  \/ pc' = "idle" /\ lost < MaxLost /\ lost' = lost + 1

\* Mutant: the message is checkpointed with its first statement.
RewardSetDeleteAndCheckpoint ==
  /\ pc = "delete"
  /\ Autocommit([db EXCEPT !.signers[current.cycle] = [s \in Signers |-> NoRow],
                           !.lastMsgId = pos])
  /\ Acknowledged("insert")
  /\ UNCHANGED <<stream, pos, next, applied, timers, heard, wanted, crashes, failures>>

RewardSetDelete ==
  /\ pc = "delete"
  /\ Autocommit([db EXCEPT !.signers[current.cycle] = [s \in Signers |-> NoRow]])
  /\ Acknowledged("insert")
  /\ UNCHANGED <<stream, pos, next, applied, timers, heard, wanted, crashes, failures>>

\* ON CONFLICT DO NOTHING: rows another writer put there meanwhile stay.
RewardSetInsert ==
  LET inserted == current.set \ RewardSet(db, current.cycle) IN
  /\ pc = "insert"
  /\ Autocommit([db EXCEPT !.signers[current.cycle] =
       [s \in Signers |-> IF s \in inserted THEN NewSignerRow ELSE @[s]]])
  /\ Acknowledged(IF inserted = {} THEN AfterRewardSet(current) ELSE "rank")
  /\ UNCHANGED <<stream, pos, next, applied, timers, heard, wanted, crashes, failures>>

RankedRow(row) == IF row = NoRow THEN NoRow ELSE [row EXCEPT !.ranked = TRUE]

RewardSetRank ==
  /\ pc = "rank"
  /\ Autocommit([db EXCEPT !.signers[current.cycle] =
       [s \in Signers |-> RankedRow(@[s])]])
  /\ Acknowledged(AfterRewardSet(current))
  /\ UNCHANGED <<stream, pos, next, applied, timers, heard, wanted, crashes, failures>>

\* handleNakamotoBlockMsg: one transaction, committed as a whole.
IngestBlock ==
  /\ pc = "block"
  /\ ~IsPreviouslyIngested(db, current)
  /\ ~ApplyBlockThrows(current)
  /\ Autocommit([ApplyBlock(db, current) EXCEPT !.tip = Header[current.hash].height,
                                                !.lastMsgId = pos])
  /\ wanted' = wanted \cup MissingSets(db, current.hash)
  /\ Acknowledged("done")
  /\ UNCHANGED <<stream, pos, next, applied, timers, heard, crashes, failures>>

\* Mutant: a skipped block is not acknowledged.
SkipBlockUnacknowledged ==
  /\ pc = "block"
  /\ IsPreviouslyIngested(db, current)
  /\ pc' = "idle"
  /\ UNCHANGED <<stream, store, pos, next, applied, timers, heard, wanted, counts>>

SkipBlock ==
  /\ pc = "block"
  /\ IsPreviouslyIngested(db, current)
  /\ pc' = "done"
  /\ UNCHANGED <<stream, store, pos, next, applied, timers, heard, wanted, counts>>

\* Mutant: a row is announced from inside the transaction.
ApplyChunkAnnouncing ==
  /\ pc = "chunks"
  /\ next <= Len(current.chunks)
  /\ LET ch == current.chunks[next] IN
       /\ tx' = ApplyStackerDbChunk(tx, ch)
       /\ timers' = IF IsApplied(tx, ch) THEN Append(timers, {RowOf(ch)}) ELSE timers
  /\ next' = next + 1
  /\ UNCHANGED <<stream, db, pc, pos, applied, heard, wanted, counts>>

\* handleStackerDbMsg: chunk by chunk in an open transaction ...
ApplyChunk ==
  /\ pc = "chunks"
  /\ next <= Len(current.chunks)
  /\ LET ch == current.chunks[next] IN
       /\ tx' = ApplyStackerDbChunk(tx, ch)
       /\ applied' = IF IsApplied(tx, ch) THEN applied \cup {RowOf(ch)} ELSE applied
  /\ next' = next + 1
  /\ UNCHANGED <<stream, db, pc, pos, timers, heard, wanted, counts>>

\* ... then the message id and the COMMIT, and a timer for the listeners.
CommitChunks ==
  /\ pc = "chunks"
  /\ next > Len(current.chunks)
  /\ Autocommit([tx EXCEPT !.lastMsgId = pos])
  /\ Acknowledged("done")
  /\ timers' = IF applied = {} \/ pc' = "idle" THEN timers ELSE Append(timers, applied)
  /\ applied' = {}
  /\ next' = 1
  /\ UNCHANGED <<stream, pos, heard, wanted, crashes, failures>>

\* The callback resolved: the client moves on to the next message.
MessageProcessed ==
  /\ pc = "done"
  /\ pc' = "idle"
  /\ pos' = pos + 1
  /\ UNCHANGED <<stream, store, next, applied, timers, heard, wanted, counts>>

EmitSignerMessages ==
  /\ timers # <<>>
  /\ heard' = heard \cup Head(timers)
  /\ timers' = Tail(timers)
  /\ UNCHANGED <<stream, store, handler, wanted, counts>>

\* Mutants: nothing is rolled back; the error is swallowed.
AbandonWithoutRollback(scheduled) ==
  /\ pc' = "idle"
  /\ next' = 1
  /\ wanted' = wanted \cup scheduled
  /\ UNCHANGED <<stream, store, pos, applied, timers, heard, crashes, lost>>

SwallowError(scheduled) ==
  /\ tx' = db
  /\ applied' = {}
  /\ next' = 1
  /\ pc' = "done"
  /\ wanted' = wanted \cup scheduled
  /\ UNCHANGED <<stream, db, pos, timers, heard, crashes, lost>>

\* The callback rejects: an open transaction rolls back and the client delivers
\* the same message again. A 'missingStackerSet' timer is not rolled back.
AbandonMessage(scheduled) ==
  /\ tx' = db
  /\ applied' = {}
  /\ next' = 1
  /\ pc' = "idle"
  /\ wanted' = wanted \cup scheduled
  /\ UNCHANGED <<stream, db, pos, timers, heard, crashes, lost>>

BlockThrows ==
  /\ pc = "block"
  /\ ~IsPreviouslyIngested(db, current)
  /\ ApplyBlockThrows(current)
  /\ AbandonMessage(MissingSets(db, current.hash))
  /\ UNCHANGED failures

\* A lost connection, a deadlock victim, a failed COMMIT: nothing takes effect.
HandlerFails ==
  /\ pc \in Steps \ {"idle", "done"}
  /\ failures < MaxFailures
  /\ failures' = failures + 1
  /\ \/ AbandonMessage({})
     \/ /\ pc = "block"
        /\ ~IsPreviouslyIngested(db, current)
        /\ AbandonMessage(MissingSets(db, current.hash))
------------------------------------------------------------------------------
(* The rest of the process, and its environment                            *)

\* Rows of the cycle the open transaction has updated: a DELETE waits for them.
IsLocked(c) == tx.signers[c] # db.signers[c]

\* StackerSetUpdator commits the set it fetched. The cycle stays in the queue when
\* the answer to the COMMIT is lost: the job starts again.
StackerSetFetched(c) ==
  /\ c \in wanted
  /\ ~IsLocked(c)
  /\ db' = ReplaceRewardSet(db, c, RpcSigners[c])
  /\ tx' = ReplaceRewardSet(tx, c, RpcSigners[c])
  /\ wanted' \in {wanted, wanted \ {c}}
  /\ UNCHANGED <<stream, handler, timers, heard, counts>>

\* The node answers that PoX-4 is not active in the cycle.
StackerSetPrePox4(c) ==
  /\ c \in wanted
  /\ wanted' = wanted \ {c}
  /\ UNCHANGED <<stream, store, handler, timers, heard, counts>>

UpdatePoxInfo(pox) ==
  /\ db.pox # pox
  /\ db' = [db EXCEPT !.pox = pox]
  /\ tx' = [tx EXCEPT !.pox = pox]
  /\ UNCHANGED <<stream, handler, timers, heard, wanted, counts>>

\* The process dies and initBackgroundServices starts it again: what was in
\* memory is gone, and the stream is read from last_redis_msg_id.
Crash ==
  /\ crashes < MaxCrashes
  /\ crashes' = crashes + 1
  /\ tx' = db
  /\ pc' = "idle"
  /\ pos' = db.lastMsgId + 1
  /\ next' = 1
  /\ applied' = {}
  /\ timers' = <<>>
  /\ wanted' = {}
  /\ UNCHANGED <<stream, db, heard, failures, lost>>

\* The node publishes. Messages beyond pos are invisible to the process, so
\* each is chosen when the client first asks for it.
Publish(m) ==
  /\ pc = "idle"
  /\ pos = Len(stream) + 1
  /\ Len(stream) < MaxStream
  /\ stream' = Append(stream, m)
  /\ UNCHANGED <<store, handler, timers, heard, wanted, counts>>

\* Everything published within the bound is processed: the client blocks.
AwaitMessages ==
  /\ pc = "idle"
  /\ pos > MaxStream
  /\ UNCHANGED vars
------------------------------------------------------------------------------
Init ==
  /\ stream = <<>>
  /\ db = EmptyDatabase
  /\ tx = EmptyDatabase
  /\ pc = "idle"
  /\ pos = 1
  /\ next = 1
  /\ applied = {}
  /\ timers = <<>>
  /\ heard = {}
  /\ wanted = {}
  /\ crashes = 0
  /\ failures = 0
  /\ lost = 0

HandlerStep ==
  \/ HandleMsg
  \/ RewardSetDelete \/ RewardSetInsert \/ RewardSetRank
  \/ IngestBlock \/ SkipBlock \/ BlockThrows
  \/ ApplyChunk \/ CommitChunks
  \/ MessageProcessed

Next ==
  \/ HandlerStep
  \/ HandlerFails
  \/ EmitSignerMessages
  \/ \E c \in Cycles : StackerSetFetched(c) \/ StackerSetPrePox4(c)
  \/ \E pox \in PoxInfos : UpdatePoxInfo(pox)
  \/ Crash
  \/ \E m \in Messages : Publish(m)
  \/ AwaitMessages

Spec == Init /\ [][Next]_vars

\* The event loop runs the handler's continuations and due timers, and the node
\* goes on publishing.
Fairness ==
  /\ WF_vars(HandlerStep)
  /\ WF_vars(EmitSignerMessages)
  /\ WF_vars(\E m \in Messages : Publish(m))

FairSpec == Spec /\ Fairness
==============================================================================
