----------------------------- MODULE BridgeLedger -----------------------------
(***************************************************************************)
(* What the bridge promises, without saying how: USDT locked on Ethereum   *)
(* by a deposit may be issued once on chain 778889, in the amount locked;  *)
(* what circulates can be redeemed.  (The header of BridgedUSDT.sol.)      *)
(***************************************************************************)
EXTENDS Integers

CONSTANTS Deposits, Lowest, Highest

VARIABLES locked,      \* per deposit, the amount; 0 while there is none
          issued,      \* the deposits that were issued
          circulating  \* the amount on chain 778889

vars == <<locked, issued, circulating>>

Init == locked = [d \in Deposits |-> 0] /\ issued = {} /\ circulating = 0

\* USDT reaches the treasury.
Lock(d) ==
  /\ locked[d] = 0
  /\ locked'[d] \in Nat \ {0}
  /\ locked' = [locked EXCEPT ![d] = locked'[d]]
  /\ UNCHANGED <<issued, circulating>>

Issue(d) ==
  /\ d \notin issued /\ locked[d] \in (Lowest .. Highest) \ {0}
  /\ issued' = issued \cup {d}
  /\ circulating' = circulating + locked[d]
  /\ UNCHANGED locked

Redeem ==
  /\ circulating' \in 0 .. circulating - 1
  /\ UNCHANGED <<locked, issued>>

Next == Redeem \/ \E d \in Deposits : Lock(d) \/ Issue(d)

Spec == Init /\ [][Next]_vars
=============================================================================
