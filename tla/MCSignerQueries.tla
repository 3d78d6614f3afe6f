--------------------------- MODULE MCSignerQueries ---------------------------
(* Small instances of SignerQueries: the messages bring two proposals for one
   height, two proposals of two cycles in one message, a pushed sibling, a signer
   that signs without having accepted (s2 in blockA) and one that accepts without
   being mined (s1 in blockC), and a block that moves the chain tip without being
   stored (blockD). The third message comes more than an hour after the others. *)
EXTENDS MCIngestion, SignerQueries

MCSignedBy == blockA :> {s1, s2} @@ blockB :> {s1} @@ blockC :> {s2} @@ blockD :> {s1}

MCMoreThanAnHour == {<<1, 3>>, <<2, 3>>}

QueryMessages ==
  {Block(blockA, 1, {s1, s2}), Block(blockB, NoRow, {}), Block(blockC, 2, {s1}),
   Block(blockD, NoRow, {}),
   Chunks(<<Proposal(blockA), Response(s1, blockA, "accepted")>>),
   Chunks(<<Response(s2, blockA, "rejected"), Proposal(blockB), Pushed(blockB)>>),
   Chunks(<<Proposal(blockB), Proposal(blockC), Response(s1, blockC, "accepted")>>)}

\* A proposal of a cycle whose signer set may not be known.
SignedMessages == {Block(blockA, 1, {s1, s2}), Chunks(<<Proposal(blockA)>>)}
==============================================================================
