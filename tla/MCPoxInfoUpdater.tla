--------------------------- MODULE MCPoxInfoUpdater ---------------------------
(* The node may be replaced by one of another network. *)
EXTENDS PoxInfoUpdater, TLC

CONSTANTS mainnet, testnet, regtest

MCPoxInfos == {mainnet, testnet, regtest}
==============================================================================
