---------------------------- MODULE MCIngestion ----------------------------
(* Small instances of Ingestion for TLC: blockA and blockB fork at height 2,
   blockC is above them in the next cycle, and blockD, at height 3 too, is no
   Nakamoto block.
   Reward cycles are ten burn blocks long. *)
EXTENDS IngestionProperties, TLC

CONSTANTS s1, s2, blockA, blockB, blockC, blockD

MCHeader ==
  blockA :> [height |-> 2, burn |-> 11, nakamoto |-> TRUE] @@
  blockB :> [height |-> 2, burn |-> 11, nakamoto |-> TRUE] @@
  blockC :> [height |-> 3, burn |-> 21, nakamoto |-> TRUE] @@
  blockD :> [height |-> 3, burn |-> 21, nakamoto |-> FALSE]

MCCycles == 0..2

MCPoxInfos == {[first |-> 0, length |-> 10]}

\* The RPC knows fewer signers of cycle 1 than blockA announces, and none of
\* cycle 0.
MCRpcSigners == 0 :> {} @@ 1 :> {s1} @@ 2 :> {s1, s2}

Block(h, cycle, set) ==
  [path |-> "/new_block", hash |-> h, sigHash |-> TRUE,
   cycle |-> cycle, set |-> set, chunks |-> <<>>]

Chunks(chunks) ==
  [path |-> "/stackerdb_chunks", hash |-> blockA, sigHash |-> FALSE,
   cycle |-> NoRow, set |-> {}, chunks |-> chunks]

OtherMessage ==
  [path |-> "other", hash |-> blockA, sigHash |-> FALSE,
   cycle |-> NoRow, set |-> {}, chunks |-> <<>>]

\* A block message of before Nakamoto: no signer_signature_hash.
EarlyBlock == [Block(blockD, NoRow, {}) EXCEPT !.sigHash = FALSE]

ChunkOf(type, h, s, verdict) ==
  [type |-> type, hash |-> h, signer |-> s, verdict |-> verdict,
   cycle |-> MCHeader[h].burn \div 10]

Proposal(h) == ChunkOf("BlockProposal", h, s1, "accepted")
Response(s, h, verdict) == ChunkOf("BlockResponse", h, s, verdict)
Pushed(h) == ChunkOf("BlockPushed", h, s1, "accepted")
Mock == ChunkOf("Other", blockA, s1, "accepted")

\* Forks, announcements, duplicates, a block without a row and a reward set
\* without its cycle.
ForkMessages ==
  {Block(blockA, 1, {s1, s2}), Block(blockB, NoRow, {}), Block(blockC, 2, {s1}),
   Block(blockD, NoRow, {}), Block(blockD, 0, {s2}),
   Chunks(<<Proposal(blockA), Response(s1, blockA, "accepted")>>),
   Chunks(<<Response(s1, blockA, "rejected"), Pushed(blockB), Mock>>)}

\* Two competing announcements of cycle 1 and messages that leave no trace.
ReplayMessages ==
  {Block(blockA, 1, {s1, s2}), Block(blockB, 1, {s2}), Block(blockC, NoRow, {}),
   Chunks(<<Proposal(blockC), Response(s2, blockC, "rejected")>>),
   EarlyBlock, OtherMessage}

\* A response that overtakes its proposal.
OvertakenMessages ==
  {Block(blockA, 2, {s1}), Chunks(<<Response(s1, blockC, "accepted"), Proposal(blockC)>>)}

\* A block the node sends again.
RepeatedMessages ==
  {Block(blockA, 1, {s1}), Chunks(<<Proposal(blockA), Response(s1, blockA, "accepted")>>)}
==============================================================================
