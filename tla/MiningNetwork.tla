---------------------------- MODULE MiningNetwork ----------------------------
(***************************************************************************)
(* The programs that live off USSTMine: miner/usst_miner.py, which looks   *)
(* for proofs and submits them, and scripts/pool-watchdog.py, which keeps  *)
(* the pool filled.  They read the chain through RPC calls that may fail,  *)
(* and write to it through transactions that are mined later, or after     *)
(* their sender has given up waiting.                                      *)
(*                                                                         *)
(* The contract is USSTMine itself.  Off the chain nobody sees it in the   *)
(* middle of a transaction, so their steps wait for stack = <<>>.          *)
(***************************************************************************)
EXTENDS USSTMine

CONSTANTS
  Miners,                       \* accounts running usst_miner.py
  WORK_BLOCK_MAX_AGE, MAX_RETRIES,
  MIN_UST, REFILL_UST, GAS_RESERVE,
  DeployerFunds,                \* UST of the watchdog's account at the start
  MaxSent, MaxRefills, MaxFaults  \* bounds of the model

ASSUME NetworkAssumption ==
  /\ Miners \subseteq Accounts /\ Contracts = {}
  /\ WORK_BLOCK_MAX_AGE \in Nat /\ MAX_RETRIES \in Nat \ {0}
  /\ MIN_UST \in Nat /\ REFILL_UST \in Nat \ {0} /\ GAS_RESERVE \in Nat
  /\ DeployerFunds \in Nat
  /\ MaxSent \in Nat /\ MaxRefills \in Nat /\ MaxFaults \in Nat

VARIABLES
  rig,      \* per miner: where its main() is, the work it has, blocks_found
  sent,     \* per miner: its mine() transactions, in nonce order
  dog,      \* the watchdog: where check_and_refill() is, and the refill it decided
  refills,  \* the watchdog's fund() transactions, in nonce order
  wallet,   \* UST of the watchdog's account
  faults, gaveUp  \* failures so far; has the watchdog stopped waiting for one

contract == <<gov, pow, money, log, notice, stack>>
dogVars == <<dog, refills, wallet, gaveUp>>
minerVars == <<rig, sent>>
netVars == <<gov, pow, money, log, notice, stack, block, now, rig, sent, dog,
             refills, wallet, faults, gaveUp>>

atRest == stack = <<>>
fault == faults < MaxFaults /\ faults' = faults + 1
MinOf(a, b) == IF a <= b THEN a ELSE b

-----------------------------------------------------------------------------
(* The miner.  A definition whose name ends in _bug is a plausible mistake   *)
(* in the one that follows it, used by no action.                            *)

\* Lines 309-335: with a pool that can pay, work on the block that is the head.
takeWork(m) ==
  /\ atRest
  /\ rig[m].pc = "pool" /\ money.pool >= reward
  /\ rig' = [rig EXCEPT ![m].pc = "search", ![m].workBlock = block]
  /\ UNCHANGED <<contract, clock, sent, dogVars, faults>>

tooOld_bug(workBlock) == block - workBlock > WORK_AGE
tooOld(workBlock) == block - workBlock > WORK_BLOCK_MAX_AGE

\* Lines 340-348: the search returns a proof for the target read with the block; nobody here
\* changes the difficulty.
findNonce(m, n) ==
  /\ rig[m].pc = "search"
  /\ PowHash(m, n, rig[m].workBlock) < target
  /\ rig' = [rig EXCEPT ![m].pc = "check", ![m].nonce = n]
  /\ UNCHANGED <<contract, clock, sent, dogVars, faults>>

\* Lines 379-386: every so many batches the age of the work is looked at.
dropWork(m) ==
  /\ atRest
  /\ rig[m].pc = "search" /\ tooOld(rig[m].workBlock)
  /\ rig' = [rig EXCEPT ![m].pc = "pool"]
  /\ UNCHANGED <<contract, clock, sent, dogVars, faults>>

\* Lines 187-192: the last look at the age of the work.
checkAge(m) ==
  /\ atRest
  /\ rig[m].pc = "check"
  /\ rig' = [rig EXCEPT ![m].pc = IF tooOld(rig[m].workBlock) THEN "pool" ELSE "verify",
                        ![m].attempt = 1, ![m].checkedAt = block]
  /\ UNCHANGED <<contract, clock, sent, dogVars, faults>>

\* Lines 194-198: the contract is asked some blocks later.
checkWork(m) ==
  /\ atRest
  /\ rig[m].pc = "verify"
  /\ rig' = [rig EXCEPT ![m].pc = IF verifyWork(m, rig[m].nonce, rig[m].workBlock)
                                  THEN "send" ELSE "pool"]
  /\ UNCHANGED <<contract, clock, sent, dogVars, faults>>

broadcast(m) ==
  /\ Len(sent[m]) < MaxSent
  /\ sent' = [sent EXCEPT ![m] =
       Append(@, [nonce |-> rig[m].nonce, workBlock |-> rig[m].workBlock,
                  checkedAt |-> rig[m].checkedAt, minedAt |-> 0,
                  status |-> "pending"])]

\* Lines 198-211: signed with the account's next nonce and broadcast.
submit(m) ==
  /\ rig[m].pc = "send"
  /\ broadcast(m)
  /\ rig' = [rig EXCEPT ![m].pc = "wait"]
  /\ UNCHANGED <<contract, clock, dogVars, faults>>

attemptsLeft(m) == rig[m].attempt < MAX_RETRIES

\* Lines 213-226: a call raises, before the broadcast, with its answer lost, or
\* because no receipt came in time; then once more, without the checks.
submitFails(m) ==
  /\ \/ rig[m].pc = "send" /\ UNCHANGED sent
     \/ rig[m].pc = "send" /\ broadcast(m)
     \/ /\ rig[m].pc = "wait"
        /\ sent[m][Len(sent[m])].status = "pending" /\ UNCHANGED sent
  /\ rig' = IF attemptsLeft(m)
              THEN [rig EXCEPT ![m].pc = "send", ![m].attempt = @ + 1]
              ELSE [rig EXCEPT ![m].pc = "pool"]
  /\ fault
  /\ UNCHANGED <<contract, clock, dogVars>>

mined_bug(tx) == TRUE
mined(tx) == tx.status = "ok"

\* Lines 211, 228-238 and 388-391: the receipt of the last transaction sent.
receive(m) ==
  LET tx == sent[m][Len(sent[m])] IN
  /\ atRest /\ rig[m].pc = "wait" /\ tx.status # "pending"
  /\ rig' = [rig EXCEPT ![m].pc = "pool", ![m].found = IF mined(tx) THEN @ + 1 ELSE @]
  /\ UNCHANGED <<contract, clock, sent, dogVars, faults>>

-----------------------------------------------------------------------------
(* The watchdog *)

fundsAbove_bug == wallet
fullRefillsOnly_bug ==
  IF wallet >= REFILL_UST + GAS_RESERVE THEN wallet - GAS_RESERVE ELSE 0
fundsAbove == wallet - GAS_RESERVE

\* Lines 128-138.
readPool ==
  /\ atRest
  /\ dog.pc = "check" /\ money.pool < MIN_UST
  /\ dog' = [dog EXCEPT !.pc = "funds"]
  /\ UNCHANGED <<contract, clock, minerVars, refills, wallet, faults, gaveUp>>

\* Lines 132, 140-154: the account is read after the pool.
decideRefill ==
  /\ atRest
  /\ dog.pc = "funds"
  /\ dog' = IF fundsAbove > 0
              THEN [pc |-> "send", amount |-> MinOf(REFILL_UST, fundsAbove)]
              ELSE [dog EXCEPT !.pc = "check"]
  /\ UNCHANGED <<contract, clock, minerVars, refills, wallet, faults, gaveUp>>

\* The nonce counts the mined transactions: while one of the account's waits,
\* another has the same.
nonceFree_bug == TRUE
nonceFree == \A i \in 1 .. Len(refills) : refills[i].status # "pending"

\* Lines 110-122; eth_estimateGas fails if the account cannot pay.
sendRefill ==
  /\ atRest
  /\ dog.pc = "send"
  /\ nonceFree /\ wallet >= dog.amount
  /\ Len(refills) < MaxRefills
  /\ refills' = Append(refills, [amount |-> dog.amount, status |-> "pending"])
  /\ dog' = [dog EXCEPT !.pc = "wait"]
  /\ UNCHANGED <<contract, clock, minerVars, wallet, faults, gaveUp>>

\* Line 118: where the price of gas has risen by enough since the last refill was
\* sent, the node lets the new one take its place.
outbidRefill ==
  /\ atRest
  /\ dog.pc = "send"
  /\ ~nonceFree /\ wallet >= dog.amount
  /\ refills' = [refills EXCEPT ![Len(refills)].amount = dog.amount]
  /\ dog' = [dog EXCEPT !.pc = "wait"]
  /\ UNCHANGED <<contract, clock, minerVars, wallet, faults, gaveUp>>

\* Else the node refuses, lines 176-180: the next check starts over.
refillRefused ==
  /\ dog.pc = "send" /\ (nonceFree => wallet < dog.amount)
  /\ dog' = [dog EXCEPT !.pc = "check"]
  /\ UNCHANGED <<contract, clock, minerVars, refills, wallet, faults, gaveUp>>

\* Lines 132-138, 110-122 and 176-180: a call raises before the broadcast.
watchFails ==
  /\ dog.pc \in {"funds", "send"}
  /\ dog' = [dog EXCEPT !.pc = "check"]
  /\ fault
  /\ UNCHANGED <<contract, clock, minerVars, refills, wallet, gaveUp>>

\* Line 123: a minute without a receipt.  The transaction is still out there.
refillTimesOut ==
  /\ dog.pc = "wait" /\ refills[Len(refills)].status = "pending"
  /\ dog' = [dog EXCEPT !.pc = "check"]
  /\ gaveUp' = TRUE
  /\ fault
  /\ UNCHANGED <<contract, clock, minerVars, refills, wallet>>

refillDone ==
  /\ dog.pc = "wait" /\ refills[Len(refills)].status # "pending"
  /\ dog' = [dog EXCEPT !.pc = "check"]
  /\ UNCHANGED <<contract, clock, minerVars, refills, wallet, faults, gaveUp>>

-----------------------------------------------------------------------------
(* The chain: an account's transactions are mined in the order of their nonces. *)

FirstPending(txs) ==
  CHOOSE i \in 1 .. Len(txs) :
    txs[i].status = "pending" /\ \A j \in 1 .. i - 1 : txs[j].status # "pending"
SomePending(txs) == \E i \in 1 .. Len(txs) : txs[i].status = "pending"

\* Why mine() would revert, in the order of its checks; "ok" if it would not.
outcome(m, tx) ==
  CASE ~workUnused(<<m, tx.nonce, tx.workBlock>>) -> "claimed"
    [] ~verifyWork(m, tx.nonce, tx.workBlock)     -> "stale"
    [] money.pool < reward                        -> "poor"
    [] OTHER                                      -> "ok"

mineTx(m) ==
  /\ atRest /\ SomePending(sent[m])
  /\ LET i == FirstPending(sent[m])
         tx == sent[m][i]
     IN /\ sent' = [sent EXCEPT ![m][i].status = outcome(m, tx),
                                ![m][i].minedAt = block]
        /\ IF outcome(m, tx) = "ok" THEN mine(m, tx.nonce, tx.workBlock)
           ELSE UNCHANGED <<contract, clock>>
  /\ UNCHANGED <<rig, dogVars, faults>>

mineReturned == mineReturns /\ UNCHANGED <<minerVars, dogVars, faults>>

\* The account pays for nothing else, so what was covered when sent still is.
refillTx ==
  /\ atRest /\ SomePending(refills)
  /\ LET i == FirstPending(refills)
     IN /\ refills' = [refills EXCEPT ![i].status = "ok"]
        /\ fund(Deployer, refills[i].amount)
        /\ wallet' = wallet - refills[i].amount
  /\ UNCHANGED <<minerVars, dog, faults, gaveUp>>

nextBlock ==
  /\ \E dt \in TimeSteps : newBlock(dt)
  /\ UNCHANGED <<minerVars, dogVars, faults>>

-----------------------------------------------------------------------------
NetInit ==
  /\ Init
  /\ rig = [m \in Miners |-> [pc |-> "pool", workBlock |-> 0, nonce |-> 0,
                              attempt |-> 0, checkedAt |-> 0, found |-> 0]]
  /\ sent = [m \in Miners |-> <<>>]
  /\ dog = [pc |-> "check", amount |-> 0]
  /\ refills = <<>> /\ wallet = DeployerFunds
  /\ faults = 0 /\ gaveUp = FALSE

Mine(m) ==
  \/ takeWork(m) \/ dropWork(m) \/ checkAge(m) \/ checkWork(m) \/ submit(m) \/ receive(m)
  \/ \E n \in Nonces : findNonce(m, n)

Watch == readPool \/ decideRefill \/ sendRefill \/ outbidRefill \/ refillRefused \/ refillDone

Chain == mineReturned \/ refillTx \/ \E m \in Miners : mineTx(m)

NetNext ==
  \/ \E m \in Miners : Mine(m) \/ submitFails(m)
  \/ Watch \/ watchFails \/ refillTimesOut
  \/ Chain \/ nextBlock

NetSpec == NetInit /\ [][NetNext]_netVars

\* The watchdog loops for ever and the validators mine what is sent; no miner
\* owes anything, and no block beyond the bound is needed.
NetFairSpec == NetSpec /\ WF_netVars(Watch) /\ WF_netVars(mineReturned)
                       /\ WF_netVars(refillTx)

-----------------------------------------------------------------------------
(* Properties *)

\* blocks_found never claims more than the contract paid the miner, whatever was
\* retried, mined late or reverted (211-238, 388-391).
MinedBy(m) == {i \in 1 .. Len(log) : log[i].work[1] = m}
FoundIsMined == \A m \in Miners : rig[m].found <= Cardinality(MinedBy(m))

\* Stopping at WORK_BLOCK_MAX_AGE leaves a margin: a checked proof is too old for
\* the contract only if more blocks passed since than the margin has ("stop mining/
\* submitting earlier to avoid stale proofs", 90-91; USSTMine.sol:149).
MarginIsEnough ==
  \A m \in Miners : \A i \in 1 .. Len(sent[m]) :
    sent[m][i].status = "stale" =>
      sent[m][i].minedAt - sent[m][i].checkedAt > WORK_AGE - WORK_BLOCK_MAX_AGE

\* The watchdog overshoots by one refill at most, though it may decide while an
\* earlier refill it gave up on is still to be mined (110-162).
PoolBounded == money.pool < MIN_UST + 2 * REFILL_UST

\* It never touches the gas reserve, unless it gave up on a refill: then the
\* balance it decides on may not be the one it pays from (132, 141-149).
ReserveKept == gaveUp \/ wallet >= GAS_RESERVE

\* A pool below the threshold is refilled, as long as there are funds, whatever
\* was given up on before (137-162, 174-180).
PoolRefilled ==
  money.pool < MIN_UST ~>
    money.pool >= MIN_UST \/ wallet <= GAS_RESERVE
=============================================================================
