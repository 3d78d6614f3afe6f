-------------------------- MODULE MCThreadedParser --------------------------
(* A block, a chunk, and a body whose parsing throws. *)
EXTENDS ThreadedParser, TLC

CONSTANTS block, chunk, broken, parsedBlock, parsedChunk

MCParse == block :> parsedBlock @@ chunk :> parsedChunk @@ broken :> NoResult
==============================================================================
