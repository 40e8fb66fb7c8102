------------------------------ MODULE MCScripts ------------------------------
(* Four people's accounts, and the addresses of the contracts that the runs  *)
(* of deploy-dex.py can create.                                              *)
EXTENDS Scripts

MCHolders == Keys \cup (1 .. 12)
=============================================================================
