------------------------------ MODULE MCFaucet ------------------------------
(* Faucet for TLC: addresses that differ in nothing are interchangeable. *)
EXTENDS Faucet, TLC

Symmetry == Permutations(Addresses)
=============================================================================
