-------------------------- MODULE OperatorHandover --------------------------
(***************************************************************************)
(* The scripts that hand the minting right of BridgedUSDT over:            *)
(*   transfer-operator.py  strict: a revert or a timeout ends it           *)
(*   deploy-busdt.py, deploy-busdt-v2.py  deploy a token owned by the      *)
(*     deployer and hand it over, whatever the two transactions become     *)
(*   _deploy_bridged_usdt_v2.py  deploys one that the target owns at once  *)
(*   set-operator.py  calls setOperator(), which the token does not have   *)
(* An earlier run's transactions may still be pending.                     *)
(***************************************************************************)
EXTENDS ScriptChain, BridgedUSDT

CONSTANTS OldOperator,    \* OLD_KEY, or the deployer of a new token
          NewOperators    \* NEW_KEY, BRIDGE_OPERATOR_KEY of the runs

ASSUME HandoverAssumption ==
  /\ {OldOperator} \cup NewOperators \subseteq Keys \cap Holders
  /\ FirstOperator = OldOperator /\ OldOperator \notin NewOperators

VARIABLES
  token,    \* tokens deployed so far; the variables of BridgedUSDT are the last one's
  strict,   \* the running script is transfer-operator.py
  target,   \* the operator it is to install
  claimed   \* it has ended saying so

handoverVars == <<token, strict, target, claimed>>

beginHandover(first, isStrict, t) ==
  /\ begins(first)
  /\ strict' = isStrict /\ target' = t /\ claimed' = FALSE
  /\ UNCHANGED <<tokenVars, token>>

beginScript(t) ==
  \/ beginHandover("gas", TRUE, t)
  \/ beginHandover("deploy", FALSE, t)
  \/ beginHandover("set", TRUE, t)
  \/ beginHandover("install", TRUE, t)

(* eth_estimateGas of transfer-operator.py fails for a call that would     *)
(* revert now; deploy-busdt.py then takes a default, v2 never asks.        *)
send(key, call, wouldPass) ==
  IF strict /\ ~wouldPass THEN raises
  ELSE sends(key, [type |-> call, token |-> token, to |-> target])

sendGas ==
  /\ at("gas") /\ send(OldOperator, "gas", TRUE)
  /\ UNCHANGED <<tokenVars, handoverVars>>

deployToken ==
  /\ at("deploy") /\ send(OldOperator, "deploy", TRUE)
  /\ UNCHANGED <<tokenVars, handoverVars>>

installToken ==
  /\ at("install") /\ send(OldOperator, "install", ~nonceTaken(OldOperator))
  /\ UNCHANGED <<tokenVars, handoverVars>>

offer ==
  /\ at("offer") /\ send(OldOperator, "offer", operator = OldOperator)
  /\ UNCHANGED <<tokenVars, handoverVars>>

accept ==
  /\ at("accept") /\ send(target, "accept", isPending(target))
  /\ UNCHANGED <<tokenVars, handoverVars>>

setOperator ==
  /\ at("set") /\ send(OldOperator, "set", FALSE)
  /\ UNCHANGED <<tokenVars, handoverVars>>

follows == [gas |-> "offer", deploy |-> "offer", offer |-> "accept", accept |-> "verify",
            install |-> "report"]

(* A token that is not deployed ends every script; the other answers end   *)
(* only the strict one.                                                    *)
mustSucceed(s) == strict \/ s = "deploy"

handoverAnswered(s) ==
  /\ step = s
  /\ LET onFailure == IF mustSucceed(s) THEN "down" ELSE follows[s]
     IN  \/ succeeds(s) /\ answered(follows[s])
         \/ receipt = "reverted" /\ leaves(onFailure) /\ UNCHANGED <<address, runs, cuts>>
         \/ timesOut(onFailure)
  /\ UNCHANGED <<tokenVars, handoverVars>>

\* transfer-operator.py asserts, the others only print what they read.
verifyStrict ==
  /\ at("verify") /\ strict
  /\ IF operator = target THEN passes("done") ELSE raises
  /\ claimed' = (operator = target)
  /\ UNCHANGED <<tokenVars, token, strict, target>>

verifyLax ==
  /\ at("verify") /\ ~strict
  /\ passes("done")
  /\ claimed' = (operator = target)
  /\ UNCHANGED <<tokenVars, token, strict, target>>

reportInstalled ==
  /\ at("report")
  /\ passes("done") /\ claimed' = TRUE
  /\ UNCHANGED <<tokenVars, token, strict, target>>

stopHandover == isStopped /\ UNCHANGED <<tokenVars, handoverVars>>

(*------------------------- inclusion ------------------------------------*)
gasSent ==
  /\ includable(OldOperator, "gas") /\ includes(OldOperator, TRUE, 0)
  /\ UNCHANGED <<tokenVars, handoverVars>>

tokenDeployed(first) ==
  /\ includes(OldOperator, TRUE, token + 1)
  /\ token' = token + 1
  /\ operator' = first /\ pendingOperator' = NoAddress
  /\ UNCHANGED <<supply, allowance, processedDeposits, ledger, strict, target, claimed>>

deployed_busdt ==
  \/ includable(OldOperator, "deploy") /\ tokenDeployed(OldOperator)
  \/ /\ includable(OldOperator, "install")
     /\ tokenDeployed(Head(mempool[OldOperator]).call.to)

(* Calls of an earlier token do nothing to this one.                       *)
offered ==
  /\ includable(OldOperator, "offer")
  /\ LET call == Head(mempool[OldOperator]).call
         ok == operator = OldOperator \/ call.token # token
     IN  /\ includes(OldOperator, ok, 0)
         /\ IF ok /\ call.token = token THEN transferOperator(OldOperator, call.to)
            ELSE UNCHANGED tokenVars
  /\ UNCHANGED handoverVars

accepted(key) ==
  /\ includable(key, "accept")
  /\ LET call == Head(mempool[key]).call
         ok == isPending(key) \/ call.token # token
     IN  /\ includes(key, ok, 0)
         /\ IF ok /\ call.token = token THEN acceptOperator(key) ELSE UNCHANGED tokenVars
  /\ UNCHANGED handoverVars

HandoverInit ==
  /\ token = 1 /\ strict = TRUE /\ target = OldOperator /\ claimed = FALSE

HandoverNext ==
  \/ \E t \in NewOperators : beginScript(t)
  \/ sendGas \/ deployToken \/ installToken \/ offer \/ accept \/ setOperator
  \/ \E s \in DOMAIN follows : handoverAnswered(s)
  \/ verifyStrict \/ verifyLax \/ reportInstalled \/ stopHandover
  \/ gasSent \/ deployed_busdt \/ offered
  \/ \E k \in NewOperators : accepted(k)

(*------------------------- properties -----------------------------------*)
(* When a script ends saying that its target is the operator, that stays   *)
(* so: no offer or acceptance that earlier runs, for other targets, left   *)
(* pending takes the minting right away afterwards.                        *)
HandoverIsFinal == (step = "done" /\ claimed) => operator = target
=============================================================================
