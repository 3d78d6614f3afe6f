---------------------- MODULE MCSignerMessageListeners ----------------------
(* A small instance of SignerMessageListeners: a response that arrives before
   its proposal, and messages about two blocks. *)
EXTENDS MCIngestion, SignerMessageListeners

CONSTANTS a, b

ClientSymmetry == Permutations(Clients)

ListenerMessages ==
  {Chunks(<<Response(s1, blockA, "accepted"), Pushed(blockC)>>),
   Chunks(<<Proposal(blockA), Response(s2, blockA, "rejected"), Pushed(blockA)>>)}
=============================================================================
