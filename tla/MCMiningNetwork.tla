--------------------------- MODULE MCMiningNetwork ---------------------------
(* Small instance of MiningNetwork for TLC. *)
EXTENDS MiningNetwork

\* Every nonce of the instance is a proof; what matters is when it is mined.
MCPowHash(miner, nonce, workBlock) == 0
=============================================================================
