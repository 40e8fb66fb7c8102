----------------------------- MODULE KeyRotation -----------------------------
(***************************************************************************)
(* scripts/emergency-rotate-keys.py: new keys are drawn and written to a   *)
(* resume file, the LP tokens and the coins of the old accounts are sent   *)
(* to the new deployer one after the other, a new faucet is funded, and    *)
(* the keys are printed and written again.  A transfer that fails or is    *)
(* not seen is not an error: the script goes on with the next.             *)
(***************************************************************************)
EXTENDS ScriptChain

CONSTANTS
  OldDeployer, OldSigner, OldMiner, NewDeployer,   \* accounts that send
  InitialOld,        \* coins of each old account
  DUST,              \* 0.05 UST: not worth a transfer
  FAUCET_FUNDING,
  MaxIncome          \* bound: rewards and fees still paid to old accounts

Old == {OldDeployer, OldSigner, OldMiner}

ASSUME RotationAssumption ==
  /\ Old \cup {NewDeployer} \subseteq Keys
  /\ {InitialOld, DUST, FAUCET_FUNDING, MaxIncome} \subseteq Nat

VARIABLES
  oldCoins, lp,     \* of the old accounts; LP tokens of the old deployer
  rescued,          \* of each set of new keys ever used: its coins, LP tokens
                    \* and its faucet's coins
  keys,             \* the set of keys the script works with; 0 before it has one
  keyFile,          \* the set in /tmp/new-keys.json, "absent" or "torn"
  printed,          \* the sets shown in full
  incomeSince,      \* what each old account was paid after the script read it
  income, undone    \* paid so far; a transfer of this run was not confirmed

rotationChain == <<oldCoins, lp, rescued, income>>
rotationVars == <<rotationChain, keys, keyFile, printed, incomeSince, undone>>

none == [coins |-> 0, lp |-> 0, faucet |-> 0]
noKeys == [set |-> 0, readable |-> TRUE]
KeySets == DOMAIN rescued

(* The steps, and the account each empties.                                *)
rescueOf == [deployer |-> OldDeployer, signer |-> OldSigner, miner |-> OldMiner]
Rescues == DOMAIN rescueOf
afterStep == [lp |-> "deployer", deployer |-> "signer", signer |-> "miner",
              miner |-> "faucet", faucet |-> "print"]

(* json.load of a torn file raises before anything happens; somebody then  *)
(* removes it.                                                             *)
removeKeyFile ==
  /\ step = "down" /\ ~keyFile.readable
  /\ keyFile' = noKeys
  /\ UNCHANGED <<scriptVars, rotationChain, keys, printed, incomeSince, undone>>

beginRotation ==
  /\ keyFile.readable
  /\ IF keyFile.set # 0
     THEN keys' = keyFile.set /\ begins("lp") /\ UNCHANGED rescued
     ELSE keys' = Len(rescued) + 1 /\ begins("keys") /\ rescued' = Append(rescued, none)
  /\ incomeSince' = [a \in Old |-> 0] /\ undone' = FALSE
  /\ UNCHANGED <<oldCoins, lp, income, keyFile, printed>>

written_bug == keyFile
written == [set |-> keys, readable |-> TRUE]

saveNewKeys ==
  /\ at("keys")
  /\ keyFile' = written
  /\ passes("lp")
  /\ UNCHANGED <<rotationChain, keys, printed, incomeSince, undone>>

(* sign_and_send: the nonce counts pending transactions, and the account   *)
(* must hold enough for all of them; an error of the node ends the script. *)
sign_and_send(account, call, accepted) ==
  IF accepted THEN sends(account, call) ELSE raises

rescueLP ==
  /\ at("lp")
  /\ IF lp > 0 THEN sends(OldDeployer, [type |-> "lp", to |-> keys, amount |-> lp])
     ELSE passes("deployer")
  /\ UNCHANGED rotationVars

worthRescuing_bug(balance) == balance > FAUCET_FUNDING
worthRescuing(balance) == balance > DUST

rescue(s) ==
  LET account == rescueOf[s]
      balance == oldCoins[account]
  IN  /\ at(s)
      /\ incomeSince' = [incomeSince EXCEPT ![account] = 0]
      /\ IF worthRescuing(balance)
         THEN sign_and_send(account, [type |-> "coins", to |-> keys, amount |-> balance],
                            ~nonceTaken(account))
         ELSE passes(afterStep[s])
      /\ UNCHANGED <<rotationChain, keys, keyFile, printed, undone>>

(* What transfers of this set of keys that are still pending will cost.    *)
committed == FAUCET_FUNDING *
  Len(SelectSeq(mempool[NewDeployer], LAMBDA t : t.call.to = keys))

fundFaucet ==
  /\ at("faucet")
  /\ IF rescued[keys].coins > FAUCET_FUNDING
     THEN sign_and_send(NewDeployer, [type |-> "faucet", to |-> keys, amount |-> FAUCET_FUNDING],
                        committed + FAUCET_FUNDING <= rescued[keys].coins)
     ELSE passes("print")
  /\ UNCHANGED rotationVars

(* wait returns False after a revert or sixty polls; nobody looks at it.   *)
rotationAnswered(s) ==
  /\ step = s
  /\ \/ succeeds(s) /\ answered(afterStep[s]) /\ UNCHANGED undone
     \/ receipt = "reverted" /\ answered(afterStep[s]) /\ undone' = TRUE
     \/ timesOut(afterStep[s]) /\ undone' = TRUE
  /\ UNCHANGED <<rotationChain, keys, keyFile, printed, incomeSince>>

printKeys ==
  /\ at("print")
  /\ printed' = printed \cup {keys}
  /\ passes("rewrite")
  /\ UNCHANGED <<rotationChain, keys, keyFile, incomeSince, undone>>

rewriteKeyFile ==
  /\ at("rewrite")
  /\ keyFile' = [set |-> keys, readable |-> TRUE]
  /\ passes("done")
  /\ UNCHANGED <<rotationChain, keys, printed, incomeSince, undone>>

(* A stop while the file is written leaves it torn.                        *)
cutRotation ==
  /\ isStopped
  /\ \/ UNCHANGED keyFile
     \/ step \in {"keys", "rewrite"} /\ keyFile' = [set |-> 0, readable |-> FALSE]
  /\ UNCHANGED <<rotationChain, keys, printed, incomeSince, undone>>

(*------------------------- chain ----------------------------------------*)
lpMoved ==
  /\ includable(OldDeployer, "lp")
  /\ LET call == Head(mempool[OldDeployer]).call
         ok == call.amount <= lp
     IN  /\ includes(OldDeployer, ok, 0)
         /\ lp' = IF ok THEN lp - call.amount ELSE lp
         /\ rescued' = IF ok THEN [rescued EXCEPT ![call.to].lp = @ + call.amount] ELSE rescued
  /\ UNCHANGED <<oldCoins, income, keys, keyFile, printed, incomeSince, undone>>

coinsMoved(account) ==
  /\ includable(account, "coins")
  /\ LET call == Head(mempool[account]).call
     IN  /\ oldCoins' = [oldCoins EXCEPT ![account] = @ - call.amount]
         /\ rescued' = [rescued EXCEPT ![call.to].coins = @ + call.amount]
  /\ includes(account, TRUE, 0)
  /\ UNCHANGED <<lp, income, keys, keyFile, printed, incomeSince, undone>>

faucetFunded ==
  /\ includable(NewDeployer, "faucet")
  /\ LET call == Head(mempool[NewDeployer]).call
     IN  rescued' = [rescued EXCEPT ![call.to].coins = @ - call.amount,
                                    ![call.to].faucet = @ + call.amount]
  /\ includes(NewDeployer, TRUE, 0)
  /\ UNCHANGED <<oldCoins, lp, income, keys, keyFile, printed, incomeSince, undone>>

(* The old signer still seals blocks and the old miner still mines.        *)
earns(account) ==
  /\ income < MaxIncome
  /\ income' = income + 1
  /\ oldCoins' = [oldCoins EXCEPT ![account] = @ + 1]
  /\ incomeSince' = [incomeSince EXCEPT ![account] = @ + 1]
  /\ UNCHANGED <<scriptVars, lp, rescued, keys, keyFile, printed, undone>>

RotationInit ==
  /\ oldCoins = [a \in Old |-> InitialOld] /\ lp = 1 /\ rescued = <<>> /\ income = 0
  /\ keys = 0 /\ keyFile = noKeys /\ printed = {} /\ undone = FALSE
  /\ incomeSince = [a \in Old |-> 0]

RotationNext ==
  \/ beginRotation \/ removeKeyFile \/ saveNewKeys \/ rescueLP \/ fundFaucet
  \/ \E s \in Rescues : rescue(s)
  \/ \E s \in DOMAIN afterStep : rotationAnswered(s)
  \/ printKeys \/ rewriteKeyFile \/ cutRotation
  \/ lpMoved \/ faucetFunded
  \/ \E a \in Old : coinsMoved(a) \/ earns(a)

(*------------------------- properties -----------------------------------*)
(* Nothing is ever sent where nobody has the key: a set of new keys that   *)
(* holds coins or tokens, or is about to be sent some, is in the file or   *)
(* was shown, whatever stops the script and at whatever point it wrote.    *)
KeysRecoverable ==
  \A k \in KeySets :
    \/ keyFile.readable /\ keyFile.set = k
    \/ k \in printed
    \/ /\ rescued[k] = none
       /\ \A a \in Keys : \A i \in 1 .. Len(mempool[a]) : mempool[a][i].call.to # k

(* A run that comes to its end with every transfer confirmed leaves no old *)
(* account with more than dust and what it was paid after it was read.     *)
RescueComplete ==
  (keys # 0 /\ step \in {"faucet", "print", "rewrite", "done"} /\ ~undone) =>
    /\ lp = 0
    /\ \A a \in Old : oldCoins[a] <= DUST + incomeSince[a]
=============================================================================
