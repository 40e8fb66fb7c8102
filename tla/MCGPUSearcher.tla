--------------------------- MODULE MCGPUSearcher ---------------------------
(* A small instance of GPUSearcher for TLC. *)
EXTENDS GPUSearcher

\* Hashes that scatter proofs over work blocks and nonces in different ways.
MCHashes ==
  {[w \in 0 .. MaxHeight, n \in 0 .. INT64_MAX - 1 |-> (a * n * n + 7 * w + b * n + 3) % 16] :
     a \in {0, 3}, b \in {5, 6}}
=============================================================================
