------------------------------ MODULE Migration ------------------------------
(***************************************************************************)
(* scripts/migrate_to_v4.py: a new USSTMine is deployed with the old one's *)
(* count of proofs, the old pool is withdrawn and paid into the new one,   *)
(* and only then deployed.json and .env are changed.  Mining goes on in    *)
(* the old contract meanwhile, and the pool watchdog, which signs with the *)
(* same key, refills an old pool it finds low.                             *)
(***************************************************************************)
EXTENDS ScriptChain

CONSTANTS
  Owner,                  \* USST_DEPLOYER_KEY: owner of v3, payer of the watchdog
  InitialPool, InitialCoins,
  RESERVE,                \* left with the deployer for gas (0.01 UST in the code)
  POOL_MIN, POOL_REFILL, GAS_RESERVE,   \* of the watchdog
  MaxBlocks               \* bound: proofs mined in v3

ASSUME MigrationAssumption ==
  /\ Owner \in Keys
  /\ {InitialPool, InitialCoins, RESERVE, POOL_MIN, POOL_REFILL, GAS_RESERVE,
    MaxBlocks} \subseteq Nat

VARIABLES
  v3,           \* its pool and totalMined
  v4,           \* the same of each USSTMine v4 deployed, in order
  coins,        \* of the deployer
  total_mined, pool_balance, fund_amount,   \* the script's variables
  v4_address,
  deployedJson, dotEnv,   \* the contract each file names; 0 stands for v3, or no file
  history       \* what the withdrawal of this run brought, what went back to v3
                \* since, and every address deployedJson has named

migrationChain == <<v3, v4, coins>>
migrationLocals == <<total_mined, pool_balance, fund_amount, v4_address>>
migrationFiles == <<deployedJson, dotEnv>>
migrationVars == <<migrationChain, migrationLocals, migrationFiles, history>>

Torn == -1   \* a file truncated for writing and not written

beginMigration ==
  /\ begins("deploy")
  /\ total_mined' = v3.mined /\ pool_balance' = v3.pool
  /\ fund_amount' = 0 /\ v4_address' = 0
  /\ history' = [history EXCEPT !.withdrawn = 0, !.refilled = 0]
  /\ UNCHANGED <<migrationChain, migrationFiles>>

(* send_tx: the nonce does not count pending transactions; one whose value *)
(* the account does not hold is refused, and so is one whose gas cannot be *)
(* estimated because it would revert.                                      *)
send_tx(call, value, accepted) ==
  IF nonceTaken(Owner) \/ value > coins \/ ~accepted THEN raises ELSE sends(Owner, call)

deployV4 ==
  /\ at("deploy")
  /\ send_tx([type |-> "deployV4", mined |-> total_mined], 0, TRUE)
  /\ UNCHANGED migrationVars

readPool ==
  /\ succeeds("deploy")
  /\ v4_address' = address
  /\ pool_balance' = v3.pool
  /\ answered("withdraw")
  /\ UNCHANGED <<migrationChain, total_mined, fund_amount, migrationFiles, history>>

withdrawV3 ==
  /\ at("withdraw")
  /\ send_tx([type |-> "withdraw", amount |-> pool_balance], 0, pool_balance <= v3.pool)
  /\ UNCHANGED migrationVars

\* The balance of before the withdrawal.
amountToFund_bug(balance) ==
  IF pool_balance < balance - history.withdrawn THEN pool_balance
  ELSE balance - history.withdrawn
amountToFund(balance) ==
  IF pool_balance < balance - RESERVE THEN pool_balance ELSE balance - RESERVE

readBalance ==
  /\ succeeds("withdraw")
  /\ fund_amount' = amountToFund(coins)
  /\ answered("fund")
  /\ UNCHANGED <<migrationChain, total_mined, pool_balance, v4_address, migrationFiles, history>>

fundV4 ==
  /\ at("fund")
  /\ send_tx([type |-> "fund", to |-> v4_address, amount |-> fund_amount],
             fund_amount, fund_amount >= 0)
  /\ UNCHANGED migrationVars

verified_bug == v4[v4_address].mined = total_mined
verified == v4[v4_address].mined = total_mined /\ v4[v4_address].pool > 0

verifyV4 ==
  /\ succeeds("fund")
  /\ IF verified THEN answered("save") ELSE raises
  /\ UNCHANGED migrationVars

(* The old contents are read first, and an empty file is not JSON.         *)
saveDeployed ==
  /\ at("save")
  /\ \/ deployedJson = Torn /\ raises /\ UNCHANGED <<deployedJson, history>>
     \/ /\ deployedJson # Torn
        /\ deployedJson' = v4_address
        /\ history' = [history EXCEPT !.named = @ \cup {v4_address}]
        /\ passes("env")
  /\ UNCHANGED <<migrationChain, migrationLocals, dotEnv>>

saveEnv ==
  /\ at("env")
  /\ dotEnv' = v4_address
  /\ passes("done")
  /\ UNCHANGED <<migrationChain, migrationLocals, deployedJson, history>>

cutMigration ==
  /\ (receipt = "reverted" /\ raises) \/ timesOut("down")
  /\ UNCHANGED migrationVars

(* Each file is written in place.                                          *)
killMigration ==
  /\ isStopped
  /\ deployedJson' \in {deployedJson} \cup (IF step = "save" THEN {Torn} ELSE {})
  /\ dotEnv' \in {dotEnv} \cup (IF step = "env" THEN {Torn} ELSE {})
  /\ UNCHANGED <<migrationChain, migrationLocals, history>>

(* Somebody removes the file on which a run has failed.                    *)
removeDeployed ==
  /\ step = "down" /\ deployedJson = Torn
  /\ deployedJson' = 0
  /\ UNCHANGED <<scriptVars, migrationChain, migrationLocals, dotEnv, history>>

(*------------------------- chain, miners and watchdog -------------------*)
deployed4 ==
  /\ includable(Owner, "deployV4")
  /\ includes(Owner, TRUE, Len(v4) + 1)
  /\ v4' = Append(v4, [pool |-> 0, mined |-> Head(mempool[Owner]).call.mined])
  /\ UNCHANGED <<v3, coins, migrationLocals, migrationFiles, history>>

(* withdrawOwner of v3 pays its owner what the pool holds.                 *)
withdrawn3 ==
  /\ includable(Owner, "withdraw")
  /\ LET amount == Head(mempool[Owner]).call.amount
         ok == amount <= v3.pool
         paid == IF ok THEN amount ELSE 0
     IN  /\ includes(Owner, ok, 0)
         /\ v3' = [v3 EXCEPT !.pool = @ - paid]
         /\ coins' = coins + paid
         /\ history' = IF Head(mempool[Owner]).awaited
                       THEN [history EXCEPT !.withdrawn = paid] ELSE history
  /\ UNCHANGED <<v4, migrationLocals, migrationFiles>>

(* A transaction whose value is gone stays in the pool.                    *)
funded4 ==
  /\ includable(Owner, "fund")
  /\ LET call == Head(mempool[Owner]).call
     IN  /\ call.amount <= coins
         /\ coins' = coins - call.amount
         /\ v4' = [v4 EXCEPT ![call.to].pool = @ + call.amount]
  /\ includes(Owner, TRUE, 0)
  /\ UNCHANGED <<v3, migrationLocals, migrationFiles, history>>

refill_wei == IF coins < POOL_REFILL + GAS_RESERVE THEN coins - GAS_RESERVE
              ELSE POOL_REFILL

check_and_refill ==
  /\ v3.pool < POOL_MIN /\ refill_wei > 0 /\ ~nonceTaken(Owner)
  /\ sendsAside(Owner, [type |-> "refill", amount |-> refill_wei])
  /\ UNCHANGED migrationVars

refilled3 ==
  /\ includable(Owner, "refill")
  /\ LET amount == Head(mempool[Owner]).call.amount
     IN  /\ amount <= coins
         /\ coins' = coins - amount
         /\ v3' = [v3 EXCEPT !.pool = @ + amount]
         /\ history' = [history EXCEPT !.refilled = @ + amount]
  /\ includes(Owner, TRUE, 0)
  /\ UNCHANGED <<v4, migrationLocals, migrationFiles>>

mineV3 ==
  /\ v3.pool > 0 /\ v3.mined < MaxBlocks
  /\ v3' = [pool |-> v3.pool - 1, mined |-> v3.mined + 1]
  /\ UNCHANGED <<scriptVars, v4, coins, migrationLocals, migrationFiles, history>>

MigrationInit ==
  /\ v3 = [pool |-> InitialPool, mined |-> 0] /\ v4 = <<>> /\ coins = InitialCoins
  /\ total_mined = 0 /\ pool_balance = 0 /\ fund_amount = 0 /\ v4_address = 0
  /\ deployedJson = 0 /\ dotEnv = 0
  /\ history = [withdrawn |-> 0, refilled |-> 0, named |-> {0}]

MigrationNext ==
  \/ beginMigration \/ deployV4 \/ readPool \/ withdrawV3 \/ readBalance
  \/ fundV4 \/ verifyV4 \/ saveDeployed \/ saveEnv \/ cutMigration
  \/ killMigration \/ removeDeployed
  \/ deployed4 \/ withdrawn3 \/ funded4 \/ check_and_refill \/ refilled3 \/ mineV3

(*------------------------- properties -----------------------------------*)
(* Whatever stops the script, and however often it runs, a file names a    *)
(* new contract only when that one holds coins and a count of proofs the   *)
(* old one had, and .env, which the miner is restarted with, names none    *)
(* that deployed.json has not named.                                       *)
SavedIsFunded ==
  /\ dotEnv \in history.named \cup {Torn}
  /\ \A c \in history.named \ {0} : v4[c].pool > 0 /\ v4[c].mined <= v3.mined

(* When a run comes to save its address, all it withdrew is in the new     *)
(* pool, except the reserve and what the watchdog, which pays from the     *)
(* same account, has sent back to the old one in between.                  *)
PoolArrives ==
  (v4_address # 0 /\ step \in {"save", "env", "done"}) =>
    v4[v4_address].pool + RESERVE + history.refilled >= history.withdrawn
=============================================================================
