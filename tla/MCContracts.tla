----------------------------- MODULE MCContracts -----------------------------
(* The two contracts that hold USDT or stand for it, for TLC.  They are on two *)
(* chains and share nothing, so each behaviour is one of either.               *)
EXTENDS BridgedUSDT, EscrowUSDT

VARIABLE contract   \* the one that is called

Init == contract \in {"BridgedUSDT", "EscrowUSDT"} /\ TokenInit /\ EscrowInit

Next ==
  /\ \/ contract = "BridgedUSDT" /\ TokenNext /\ UNCHANGED escrowVars
     \/ contract = "EscrowUSDT" /\ EscrowNext /\ UNCHANGED tokenVars
  /\ UNCHANGED contract

Spec == Init /\ [][Next]_<<contract, tokenVars, escrowVars>>
=============================================================================
