---------------------------- MODULE MCUSSTMine ----------------------------
(* Small instances of USSTMine for TLC. *)
EXTENDS USSTMine

\* One hash per proof: nonce 1 finds a proof at any difficulty of the instance,
\* nonce 2 only at the lowest one.
MCPowHash(miner, nonce, workBlock) == IF nonce = 1 THEN 0 ELSE 5
=============================================================================
