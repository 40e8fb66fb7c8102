# Verification of UST Network (unitsky-chain)

TLA+ models of the programs and contracts of UST Network (chain id 778889), the
TLC configurations that check them, and proofs that their safety properties hold
for every value of the constants.
Paths such as `scripts/bridge-relayer.py:255` are relative to the repository's
sources; `PROJECT.json` maps every definition to the lines it models.

- [The system](#the-system)
- [Modules](#modules)
- [Runs](#runs)
- [Where code and documentation disagree](#where-code-and-documentation-disagree)
- [Proofs](#proofs)
- [What is not modelled](#what-is-not-modelled)
- [Plan](#plan)

## The system

UST Network is a Clique (proof of authority) Ethereum chain. UST, its coin, is
given away for proofs of work by a contract; USDT is bridged from Ethereum as a
token; Python programs run both.

| Part | State it keeps | Operations | Correct when |
|---|---|---|---|
| `contracts/USSTMine.sol`, the reward pool | pool, counters, used proofs, reentrancy lock, difficulty, owner, three pending operations with dates | `fund`, `mine`, queue / execute / cancel of difficulty, ownership and withdrawal | no coin is lost, no proof is paid twice, events tell the history, nothing changes without its public delay |
| `contracts/BridgedUSDT.sol`, the token | balances, allowances, supply, used deposit hashes, operator and pending operator | ERC-20 calls, `bridgeMint`, `bridgeBurn`, two-step operator change | supply is what is held, is backed by distinct deposits, and is spent only as approved |
| `contracts/EscrowUSDT.sol`, the escrow on Ethereum | balance, used burn hashes, signers, threshold, limits, owner | `deposit`, `release`, signer list, `setThreshold`, `setLimits`, timelocked ownership | one payment per burn, list and set of signers agree, the balance adds up |
| `scripts/bridge-relayer.py` | cursors, cache of minted hashes and rate windows in memory; cursor file and cache file on disk | one loop: scan deposits, mint, scan burns, pay, save | each deposit is minted once, each burn is paid once, none is passed over |
| `miner/usst_miner.py` | work block, proof, attempt, count of proofs | wait for the pool, search, check, submit, wait for the receipt | it counts what it was paid, and submits proofs still young enough |
| `miner/gpu_engine.py`, `cpu_engine.py` | two buffers with a batch in flight, the work block on the device | search a range of nonces | a nonce returned is a proof for the work asked for, and no proof of a batch is passed over |
| `scripts/pool-watchdog.py` | none between two checks | read pool, decide, send refill, wait | the pool is refilled, not twice, and not out of the gas reserve |
| `scripts/rpc-filter.py` | claim and request times in memory | faucet claims, request limit, method filter, WebSocket proxy | a wallet, an address on the net, and a second get no more than their limit |
| `scripts/caddy_sites_watcher.py` | site list on disk, debounce timer, observer | write the list and reload Caddy, from several threads | Caddy serves the sites that exist |
| `scripts/deploy-dex.py` | resume file of addresses | deploy WUST, factory, router and pair; mint, approve, add liquidity | resumed parts belong together, little unbacked bUSDT is minted |
| `scripts/migrate_to_v4.py` | `deployed.json`, `.env` | deploy v4, empty v3 into it, verify, save | no file names a pool that is not funded |
| `scripts/emergency-rotate-keys.py` | file of new keys | draw keys, move tokens and coins of the old accounts | coins never go to a key that is lost, nothing is left behind |
| `scripts/transfer-operator.py`, `deploy-busdt*.py`, `set-operator.py` | `deployed.json` | hand the minting right over in two transactions | a reported handover stays |

How they meet: the miner and the watchdog read USSTMine through RPC and write to
it through transactions. The relayer reads Ethereum's `Transfer` events, calls
`bridgeMint` as the token's operator, reads `BridgeWithdraw` events, and sends
USDT from a treasury account on Ethereum. The faucet pays the gas of new miners
from its own account. The maintenance scripts are run by hand with the keys of the
deployer and the bridge operator, which the watchdog and the relayer also sign
with. Explorer pages send users' transactions to the contracts.

What is hard to get right, and to test:

- **Callbacks.** `mine()` and `executeWithdraw()` pay an account in the middle of
  the call; its code may call the contract again, or refuse the money so that
  everything back to the start of the call is undone.
- **Long sequences.** Three governance operations share one contract and can be
  queued, re-queued, cancelled and executed in any order, also from callbacks,
  and across a change of owner.
- **Stops.** The relayer writes two files at different times, neither of them
  atomically, and may stop between any two steps; so may every script that is
  run a second time, with the transactions of its first run still pending.
- **Threads.** The sites watcher writes one file from a polling loop and from timers,
  without a lock; the GPU searcher has two kernels and one work block.
- **Lost answers and late transactions.** A transaction whose broadcast raised, or
  whose receipt did not come in time, may be mined all the same, after its
  sender has decided something else.
- **Stale reads.** Heads of chains, balances and work blocks are read at one moment
  and used at a later one.
- **Windows and limits.** Scans are cut into windows, rates and cooldowns are kept
  in memory.

`PROJECT.json` lists each hazard at its line with the properties that would catch it.

## Modules

| Module | Models | Extends |
|---|---|---|
| `USSTMine` | the mining contract | |
| `MCUSSTMine` | its instance for TLC | `USSTMine` |
| `USSTMine_proofs` | theorems about it | `USSTMine` |
| `MiningNetwork` | miner program, watchdog and the chain between them and the contract | `USSTMine` |
| `MCMiningNetwork` | its instance for TLC | `MiningNetwork` |
| `MiningNetwork_proofs` | theorems about it | `MiningNetwork`, `USSTMine_proofs`, `Collections_proofs` |
| `GPUSearcher` | both proof searchers and the loop that calls them | |
| `MCGPUSearcher` | its hash functions for TLC | `GPUSearcher` |
| `BridgedUSDT` | the token | |
| `BridgeLedger` | abstract: what the bridge promises a depositor | |
| `BridgeRelayer` | the relayer between Ethereum and the token; implements `BridgeLedger` | `BridgedUSDT` |
| `BridgeRelayer_proofs` | theorems about the token and the relayer | `BridgeRelayer`, `Collections_proofs` |
| `EscrowUSDT` | the escrow | |
| `MCContracts` | an instance of token and escrow for TLC | `BridgedUSDT`, `EscrowUSDT` |
| `EscrowUSDT_proofs` | theorems about it | `EscrowUSDT` |
| `Faucet` | the faucet of the RPC filter | |
| `MCFaucet` | its instance for TLC | `Faucet` |
| `Faucet_proofs` | theorems about it | `Faucet`, `Collections_proofs` |
| `SitesWatcher` | the threads that keep Caddy's sites up to date | |
| `Threads_proofs` | theorems about the watcher and the searchers | `SitesWatcher`, `GPUSearcher`, `Collections_proofs` |
| `ScriptChain` | how a script sends, waits, gives up and is run again | |
| `DexDeployment`, `OperatorHandover` | scripts on the token | `ScriptChain`, `BridgedUSDT` |
| `Migration`, `KeyRotation` | scripts on accounts and pools | `ScriptChain` |
| `Scripts` | the four on one chain | these four |
| `MCScripts` | its instance for TLC | `Scripts` |
| `Scripts_proofs` | theorems about the four scripts | `Scripts`, `Collections_proofs` |
| `Collections_proofs` | lemmas on sums, sequences and counting that the others cite | |

A definition whose name ends in `_bug` (and `rewardAfterCount`) is a plausible
mistake in the one that follows it. No action uses it; put in its place, it
makes a property fail, which shows that the property looks at that code.

### USSTMine

One call is one action, named as in the contract, with the guard's `require`s as
conjuncts. `mine` and `executeWithdraw` are two steps each, since they hand over
control: the first ends at the external call and pushes a frame with the storage
saved on `stack`, the second (`mineReturns`, `withdrawReturns`) finishes the
call, and `callReverts` restores what the frame saved, nested effects included.
While a frame waits for an account with code, only such accounts can be
`msg.sender` (`MayCall`). `newBlock` moves block number and time, between
transactions only.

`gov`, `pow` and `money` are the contract's storage and balance; `money` also
keeps where each coin went. `log` is the sequence of events. `notice` is observed,
not stored: since when each pending operation has been the one it is. The
proof-of-work hash is a constant operator `PowHash`; the reward schedule is the
code's, with shifts by era as divisions by powers of two (eras from 7 on pay
`MIN_REWARD`, as at `USSTMine.sol:127`).

Left out: `launchBlock` and `proofsTillHalving`, which nothing else reads, gas, and
money forced into the contract without a call.

### MiningNetwork

The contract is `USSTMine` itself with accounts without code, so its steps are
whole when seen from outside. `rig[m].pc` follows `main()` of the miner: `pool`,
`search`, `check`, `verify`, `send`, `wait`. `dog.pc` follows `check_and_refill()`:
`check`, `funds`, `send`, `wait`. Transactions wait in `sent` and `refills` and are
mined in nonce order; a `mine()` that would revert is mined with the reason.

- `submitFails` is every exception inside the retry loop: before the broadcast,
  with the answer lost, or with no receipt; the proof goes out again without the
  checks, as the code does (`usst_miner.py:198-226`).
- The miner asks for its nonce with `"pending"`, so a second transaction is queued
  behind the first. The watchdog asks for the mined count, so a second one has the
  nonce of the first and is refused (`nonceFree`), or, where gas has become dear
  enough in between, takes the place of the first (`outbidRefill`).
- The age of the work and its proof are checked by two reads of the chain, with blocks
  in between (`checkAge`, `checkWork`).
- `refillTimesOut` forgets a refill that is still on its way.

### GPUSearcher

`miner.pc` follows the loop of `main()` in the miner: read the block, read the
difficulty, search, collect. The chain may grow and change its difficulty between
the two reads, so a work block may be paired with a later target. `gpu` is the
state of `GPUSearcher`: the work block that is on the device, whether a batch is in
flight, and which slot is collected next; `slots` are the two streams with what
their kernels were given and what their result buffer holds. A `kernel` may run at
any time between its launch and its collection, and reads the device's work block
when it runs. `hash.gpu` says which searcher `create_searcher` chose; on the CPU,
`chunks` are the futures of the thread pool, finished in any order, and the first
hit cancels the rest. Targets are compared limb by limb, in base `BASE`. `clear` is
observed: the nonces which the program has been told hold no proof.

### BridgedUSDT, BridgeLedger, BridgeRelayer

`BridgedUSDT` has one action per call. `ledger` observes what was minted per
deposit, burned, approved and spent. `type(uint256).max` is `MAX_UINT`, small
enough that the check of overflow and the unlimited allowance both matter.

`BridgeRelayer` puts it behind a mempool and next to an Ethereum of blocks with
USDT transfers. `pc` is the place in `main()`, `mem` its variables, `disk` the two
files. `mintDeposit` has the four outcomes of `send_tx`: broadcast, rejected by
the gas estimate, broadcast with the answer lost, failed. `crash` stops the
process between any two steps; with `TornWrites` the file being written may be
left empty, since `write_text` truncates it first and `load_json` answers with
the default for a file it cannot read. The clock is the head of Ethereum: an entry
leaves the rate window, and an hour passes for everybody else, after `HOUR` blocks.

Two variables are observed, not stored. `seen` holds the deposits and burns the relayer
has looked at, the cursor it had when it last stopped and the lowest it saved, and the
blocks it jumped over: those above that cursor, up to the head, each time a start
found no usable state file. `broadcast` holds every mint sent, with its sender and time.

`BridgeLedger` is the promise in `BridgedUSDT.sol`'s header, in three steps: a
deposit locks USDT, may be issued once in its own amount, and what circulates can
be redeemed. `KeepsLedger` says that every step of the bridge is a step of it or
none, with `locked` computed from the deposits of Ethereum, `issued` the contract's
record and `circulating` its supply.

### EscrowUSDT

One action per call; a call that reverts changes nothing. The signer list keeps its
order, with the swap and pop of `removeSigner`. The USDT contract moves the amount
asked for or fails. `paid` observes the payments per burn, `noticed` since when the
pending owner has been the one it is.

### Faucet

`HTTPServer` serves one request at a time, so one claim `req` is at a place:
checked, balance read, sent. Between its steps time passes, the chain mines
payments, users spend them, a call fails or its answer is lost (`callFails`), or
the container restarts and forgets both tables. The clock is monotonic and starts
at `Uptime`, as an address never seen counts as one that claimed at time 0.

### SitesWatcher

`pc[w]` is the place of each thread in `write_and_reload`: list the folders, compare
with the file, open it (which empties it), write, reload. The main thread writes
once at the start whatever the file holds (`forced`), starts the observer, and polls;
a timer thread appears when an armed timer fires. The file is a list with a length:
two threads may have it open together, and a shorter text over a longer one leaves
an unreadable rest. A reload is two steps, Caddy's read of the file and its
replacement of the configuration, so that one reload can overtake another. A folder
that is a link is listed but its events are not seen; a skipped name has neither.
A process that stops leaves its reload undone or done, and starts again.

### ScriptChain, DexDeployment, Migration, KeyRotation, OperatorHandover, Scripts

`ScriptChain` is what the scripts share. `step` is the place of the script that
runs, `mempool` holds the transactions of each account in nonce order, and
`receipt` is what the script waits for. A wait may end without a receipt
(`timesOut`) and a run may stop anywhere (`isStopped`): the transaction stays in the
mempool and may be mined during a later run, which does not know of it. Each
script's module gives the steps names of its own and says what each call does when
it is mined.

- `DexDeployment`: four contracts, each written to the resume file when its receipt
  is there; the file is truncated before it is written. The gas estimate of `createPair`
  ends the script when the pair is there already. The last three steps mint, approve and
  add the liquidity, on the token of `BridgedUSDT`. A new pool takes all that is
  offered, one with reserves anything from 90% on, or nothing, as its price asks
  (`asked`, `refused`); a call that is mined when nobody waits for it any more may be
  past its deadline and fail.
- `Migration`: read v3, deploy v4 with its count, withdraw, fund, verify, save two
  files. v3 is mined meanwhile, and the watchdog of `pool-watchdog.py` refills it with
  the same key. v3's source is not in the repository: it has what the script's ABI
  says. Both files are written in place, so a stop may leave one `Torn`; a torn
  `deployed.json` ends every later run, after its transactions, until it is removed.
- `KeyRotation`: the new keys are written before anything is sent, then LP tokens and
  coins of the old accounts are sent, whatever the receipts, while those accounts
  still earn. The keys are written once more at the end.
- `OperatorHandover`: `transfer-operator.py` stops at the first failure; the two
  `deploy-busdt` scripts go on; `_deploy_bridged_usdt_v2.py` names the operator in the
  constructor; `set-operator.py` calls a function the token does not have. The
  variables of `BridgedUSDT` are those of the token deployed last; an older one is
  not looked at any more.
- `Scripts` runs one of them, as often as `MaxRuns` allows. Two different scripts are
  never run in one behaviour: they share no file, and two people running two of them
  with one key at one time is not something the repository describes.

A transaction is not dropped from a mempool. In `KeyRotation` the new deployer's
account of one draw of keys stands for that of every draw.

## Runs

All runs use two workers. Where deadlock is not checked the bounds of the model
stop it (no more blocks, proofs, payments, runs or time).

| Run | Question | Bounds |
|---|---|---|
| `mine` | Do callbacks, refused payments, halvings and governance in any order keep coins, proofs, events, lock and timelocks right? | an owner with code and a miner without; era length 1, so that the proofs cross a halving and reach the minimum reward; two nonces, work age 1, two blocks; delays 1 and 2, time steps 1 and 2; difficulties at and below the floor |
| `network` | Miner and watchdog against failing calls and late transactions | one miner, margin of one block between 1 and 2, two attempts, funds for one full and one partial refill, two faults |
| `searcher` | Is what a search returns a proof, and what it passes over none? | four hash functions, both searchers, batches of three nonces for two threads, three blocks with changes of target, nine nonces |
| `contracts` | Is the token's book-keeping right, and the escrow's: signer list, one release per burn, announced owner? | one contract per behaviour; token: two holders, one of them operator, two deposits, amounts 1 and 3 = `MAX_UINT`; escrow: three people, two deposits, two burns, list of at most three |
| `restarts` | Does any stop or failure break the deposit side? | two deposits, windows of two blocks on four blocks, one stop, one fault, torn writes; amounts in and out of the limits |
| `steady` | Limit, single payment, solvency and liveness | two deposits and two burns of one amount, rate limit 1, an hour of two blocks out of three, one stop, no fault |
| `burns_skipped`, `paid_again`, `deposits_lost` | see the next section | |
| `faucet` | cooldown, limit per address on the net, maximum balance | two wallets, one address, cooldown 2 from uptime 1, window 3, one restart, one fault |
| `sites` | Does Caddy serve what is there? | three folders (one skipped, one a link), one timer beside the main thread, three changes, one stop, one refused reload |
| `scripts` | Can each script be stopped and run again? | three runs, two stops or timeouts; a pool's worth of ten, so that 90% of it is nine; one refill, two incomes, two candidates for operator |

Why these bounds are enough to be interesting: each limit is crossed inside its
run (an era, a scan window, a rate limit, a work age, a cooldown, the gas reserve, a
batch), and each conflict needs at most two of a kind (two calls nested, two
transactions of one account, two deposits, two writers, two runs of a script with a
third to see the result). Each property has a mutant of the code in `PROJECT.json`
that the same bounds refute.

### What the properties say

- `mine`: `Conservation`: the pool and all payments add up to the income in every
  state, in the middle of calls too. `OneRewardPerProof`: between transactions
  the used proofs, the events and the counter agree. `EventsInOrder`: each event
  carries the reward of its place in the history. `LockHeldByOneMine`,
  `NoNestedWithdrawal`: how calls can nest. `ChangesAnnounced` and
  `WithdrawalsAnnounced` relate the step that changes or pays to the time its
  operation became readable.
- `network`: `FoundIsMined`: the miner's count never exceeds its payments, whatever it
  sent twice. `MarginIsEnough`: a checked proof is stale on arrival only if more
  blocks passed since the check than eight and ten leave between them.
  `PoolBounded`: never more than one refill too many. `ReserveKept`: the gas reserve
  stays, unless a refill was given up on. That exception is real: the decision is
  taken on a balance the forgotten refill still leaves afterwards.
  `PoolRefilled`: liveness.
- `searcher`: `ReturnsProofs`: the nonce returned is a proof for the block and target of
  *that* call, though its batch was launched by the call before.
  `NothingPassedOver`: a nonce counted as tried holds no proof; the batch that was in
  flight when the target changed does not count.
- `contracts`: `SupplyIsHeld`, `SupplyIsBacked`, `SpendingApproved` of the token;
  `SignersListed`, `OneReleasePerBurn`, `OwnerAnnounced` of the escrow.
- `restarts`: `NoDepositPassedOver`: below every cursor, in memory or on disk, all was
  looked at, but for the blocks jumped over by a start that found no usable state file.
  Those lie above the cursor of the last stop; `deposits_lost` shows that deposits are
  lost in them. `CacheIsBacked`: a hash in the cache has a mint. `KeepsLedger`.
- `steady`: `RateLimitKept`: the window is trimmed and forgotten by the process, but the
  hour is that of the clock: in none of them is an address minted more than the limit,
  and as much again for each stop. `RepaidOnlyAfterStop`: stops are the only reason for
  a second payment, one each. `BridgeSolvent`: the treasury covers the supply up to what
  was paid twice. `DepositsMinted`: liveness.
- `faucet`: `CooldownKept`, `IpLimitKept`: in one life of the process, for payments that
  could be recorded; `MaxBalanceKept`: over all lives, if the balance check saw every
  earlier payment.
- `sites`: `QuietMeansServed`: with no writer at work and no reload refused or
  overtaken, Caddy serves what the file lists. `CaddyCatchesUp`: liveness, with the same
  exception.
- `scripts`: `PartsFit`: the addresses in the resume file were built for each other.
  `OneBatchIdle`: less than two pools' worth of unbacked bUSDT lies idle, the rest of an
  earlier offer included, and one more for each mint left pending. `SavedIsFunded`:
  files name a funded contract only, or are torn. `PoolArrives`: what was withdrawn
  arrives. `KeysRecoverable`: nothing is on its way to a key that is neither in the file
  nor printed. `RescueComplete`: a run that saw all its receipts leaves dust.
  `HandoverIsFinal`: a reported operator stays.

### Fairness

`DepositsMinted` assumes weak fairness of the relayer's own steps (its loop runs, and
Docker restarts it) and of the mining of each mint (validators mine what is
broadcast). Users, faults and stops owe nothing. `PoolRefilled` assumes weak
fairness of the watchdog's own steps (its loop catches every exception) and of
the mining of refills. `CaddyCatchesUp` assumes weak fairness of every thread that is
inside `write_and_reload`, of the start, the observer's start and the 30-second poll,
of Caddy's part of a reload, and of the restart of a stopped process; none of the
observer's events or of timers: the poll alone must do. No strong fairness is used:
no step needed is disabled again and again.

## Where code and documentation disagree

Three runs end in a violation; each finding in `PROJECT.json` quotes the lines.

1. `burns_skipped`: the withdrawal scan reads at most 500 blocks, then the cursor goes
   to the head (`bridge-relayer.py:330`): burns in between are never looked at. The
   deposit side uses the end of its window (293).
2. `paid_again`: a stop between a payout (325) and the save of the cursor (332) pays the
   burn again after the restart.
3. `deposits_lost`: `save_json` empties the state file before it writes it
   (`bridge-relayer.py:95`). After a stop in between, the relayer takes the next start
   for its first and begins at the head (240-247); the deposits since its cursor, which
   "are processed automatically by the relayer" (`bridge.html:121`), are never looked at.

Other observations, which the models reproduce but no run is spent on:

- The relayer's rate window is in memory only (`bridge-relayer.py:98`), so one more window is
  allowed after each stop, while `SECURITY.md:103` promises five deposits per hour. It
  counts by when a deposit is looked at (101-106), and what it refuses is passed for good
  (280-282, 293), although the log calls it queued: after a backlog, deposits made hours
  apart are in one window. `RateLimitKept` and `DepositsMinted` allow for both.
- A faucet claim is recorded only when the node has answered (`rpc-filter.py:149-158`): after
  a lost answer the same address can be paid again within its cooldown, while
  `faucet.html:164` says "One claim per address every 24 hours".
- When one call of `mint_bridged` fails, the deposit is logged and passed
  (`bridge-relayer.py:290-293`); it is never minted. `DepositsMinted` therefore assumes
  that calls do not fail (`steady` has no faults).
- `release()` never reads `threshold` (`EscrowUSDT.sol:118`), though the contract's
  comments say that a threshold of signers must agree (14, 40).
- A reload of Caddy that is refused, or overtaken by one that read the file earlier, is
  not repeated before the folders change again, since the comparison is with the file
  (`caddy_sites_watcher.py:80-93`). This is the exception in both `sites` properties.
- `deploy-dex.py` has no record of its last three steps: after a stop behind
  `addLiquidityETH`, a second run mints and adds the liquidity again. And when a pair
  was created but not saved, the gas estimate of `createPair` fails in every later run.
- `set-operator.py` calls `setOperator()`, which `BridgedUSDT` does not have, so it
  always reverts.
- `emergency-rotate-keys.py` reads the old faucet's account but never empties it; its
  last write truncates the file in place.
- `migrate_to_v4.py` truncates `deployed.json` and `.env` in place (209, 225): a stop there
  loses the address of a pool already funded, or every other setting in `.env`.
- `pool-watchdog.py` decides on a balance that a refill it gave up on is still to be paid
  from, so the gas reserve can be spent (`ReserveKept` holds until then).
- After a restart the faucet knows no cooldown, and a balance of the latest block misses
  a payment still to be mined (`MaxBalanceKept` exempts an address it was missed for).
- `gpu_engine.py` launches a batch with the target of one call and collects it in the
  next; where the target rose in between, a proof in that batch can be passed over.
- `migrate_to_v4.py` writes the new address under a key of `deployed.json` that the
  miner does not read; the miner is switched by `.env`.

## Proofs

Seven modules prove theorems for every value of the constants that satisfies the
named assumptions of the module they are about; an eighth holds lemmas they share.

| Theorem | States | In |
|---|---|---|
| `TypeCorrect` | `Spec => []TypeOK` | `USSTMine_proofs` |
| `PoolConserved` | `Spec => []Conservation` | `USSTMine_proofs` |
| `LockSound` | `Spec => []LockHeldByOneMine` | `USSTMine_proofs` |
| `WithdrawalsNeverNest` | `Spec => []NoNestedWithdrawal` | `USSTMine_proofs` |
| `TimelockHolds` | `Spec => ChangesAnnounced` | `USSTMine_proofs` |
| `WithdrawTimelockHolds` | `Spec => WithdrawalsAnnounced` | `USSTMine_proofs` |
| `HistoryTold` | `Spec => []EventsInOrder` | `USSTMine_proofs` |
| `ProofsPaidOnce` | `Spec => []OneRewardPerProof` | `USSTMine_proofs` |
| `SpendingBounded` | `TokenSpec => []SpendingApproved` | `BridgeRelayer_proofs` |
| `SupplyHeld` | `TokenSpec => []SupplyIsHeld` | `BridgeRelayer_proofs` |
| `SupplyBacked` | `TokenSpec => []SupplyIsBacked` | `BridgeRelayer_proofs` |
| `TokenTypes` | `TokenSpec => []TokenTypeOK` | `BridgeRelayer_proofs` |
| `DepositsSeen` | `Spec => []NoDepositPassedOver` | `BridgeRelayer_proofs` |
| `OnePaymentPerStop` | `Spec => []RepaidOnlyAfterStop` | `BridgeRelayer_proofs` |
| `LedgerImplemented` | `Spec => KeepsLedger`, the refinement of `BridgeLedger` | `BridgeRelayer_proofs` |
| `CacheBacked` | `Spec => []CacheIsBacked` | `BridgeRelayer_proofs` |
| `RateLimited` | `Spec => []RateLimitKept` | `BridgeRelayer_proofs` |
| `Solvent` | `Spec => []BridgeSolvent` | `BridgeRelayer_proofs` |
| `SignersSound` | `EscrowSpec => []SignersListed` | `EscrowUSDT_proofs` |
| `OnePayment` | `EscrowSpec => []OneReleasePerBurn` | `EscrowUSDT_proofs` |
| `OwnershipAnnounced` | `EscrowSpec => OwnerAnnounced` | `EscrowUSDT_proofs` |
| `FoundAreMined` | `NetSpec => []FoundIsMined` | `MiningNetwork_proofs` |
| `MarginKept` | `NetSpec => []MarginIsEnough` | `MiningNetwork_proofs` |
| `PoolStaysBounded` | `NetSpec => []PoolBounded` | `MiningNetwork_proofs` |
| `ReserveStays` | `NetSpec => []ReserveKept` | `MiningNetwork_proofs` |
| `CooldownHolds` | `FaucetSpec => []CooldownKept` | `Faucet_proofs` |
| `MaxBalanceHolds` | `FaucetSpec => []MaxBalanceKept` | `Faucet_proofs` |
| `IpLimitHolds` | `FaucetSpec => []IpLimitKept` | `Faucet_proofs` |
| `ProofsReturned` | `SearcherSpec => []ReturnsProofs` | `Threads_proofs` |
| `NonePassedOver` | `SearcherSpec => []NothingPassedOver` | `Threads_proofs` |
| `QuietIsServed` | `WatcherSpec => []QuietMeansServed` | `Threads_proofs` |
| `ResumeFits` | `Spec => []PartsFit` | `Scripts_proofs` |
| `OneBatch` | `Spec => []OneBatchIdle` | `Scripts_proofs` |
| `HandoverStays` | `Spec => []HandoverIsFinal` | `Scripts_proofs` |
| `RotationRecoverable` | `Spec => []KeysRecoverable` | `Scripts_proofs` |
| `RotationRescues` | `Spec => []RescueComplete` | `Scripts_proofs` |
| `MigrationSaves` | `Spec => []SavedIsFunded` | `Scripts_proofs` |
| `MigrationPays` | `Spec => []PoolArrives` | `Scripts_proofs` |

So every safety property that a passing run checks is also proved, for any number of
accounts, deposits, burns, claims, miners, threads, nonces, runs and stops. `FloorKept`
adds that neither the difficulty nor a pending one is ever below `MIN_DIFFICULTY`,
and `NetConserves` that `Conservation` survives among the contract's programs.

What the constants are assumed to be:

- amounts, delays and limits are natural numbers, a delay, an interval or a batch at
  least one; owners, signers and script keys are among the accounts, and none of them is
  `address(0)`; a burn is at most the whole reward; the initial difficulty is at the
  floor or above (`TokenomicsAssumption`, `EscrowAssumption`, `RotationAssumption`, ...);
- the holders of the token and the Ethereum transactions are finitely many, being words
  of 160 and 256 bits (`TokenAssumption`), and all the USDT deposited in the time looked
  at fits a `uint256` (`SupplyFits`); otherwise `totalSupply` would revert a mint
  that the relayer counts on;
- hashes have 256 bits and are there for every nonce below the sentinel, and no search
  comes near the sentinel, which starts of 48 bits do not (`SearcherAssumption`);
- `PoolStaysBounded` and `ReserveStays` have a hypothesis of their own, on how the network
  is set up: the pool is funded below `MIN_UST + 2 * REFILL_UST` (10000 of 11000 UST, as
  in `deploy.py:24` and `pool-watchdog.py:71-72`), and the watchdog's account starts with
  `GAS_RESERVE` at least. The instance of the run `network` satisfies both.

**Collections.** `SubsetInduction` is induction over a finite set, put as a statement on
sets of its subsets, since the library's principle takes an operator and cannot be
instantiated by the provers; `CountInduction` does the same for natural numbers. From
them come how a sum changes with one entry (`SumChange`), is compared (`SumLeq`), is zero
(`SumZero`), and how `Hits`, the number of places of a sequence with a value in a set,
follows appending, taking the head and replacing.

**USSTMine.** None of its invariants is inductive alone, because `callReverts` can bring
back any world a frame saved. `IInv` therefore says of the current world *and of every
saved one* that it is well typed, balanced, above the floor, and that each pending
operation's date lies a full delay after its notice (`Good`). A step that opens
a frame saves a good world (`PushGood`), a return or revert takes one away
(`PopGood`), every other call has a lemma that it leaves a good world (`MineGood`,
`DifficultyGood`, `OwnershipGood`, `WithdrawGood`, ...), and time only makes notices
older (`NewBlockGood`). `Inductive` collects them.

The lock and the nesting need more: `StackInv` says, of the current world over all
frames and of each saved world over the frames below it, that the lock is taken
iff one of them is a `mine()`, that no withdrawal is executable while one of them
is a withdrawal, and that the owner had been paid no more when it was saved. The
second part is why `executeWithdraw()` needs no guard: it clears the pending
operation before it pays, and one queued in the callback has a later date than the
one block time a transaction sees. The third part makes a revert a step that
never pays an owner, as `WithdrawalsAnnounced` needs.

The history needs a third one, `HistoryInv`. A proof is counted before its miner is
paid and its event is emitted after, so between the two the storage is one proof ahead
of the log. `Settled` says that log and storage agree, `Awaiting` that they will once
the event in the open frame is appended; the lock tells which holds, in the current
world and in every saved one. That rewards never rise comes from `RewardAntitone`,
over `EraMonotone` and the division by growing powers of two.

**BridgedUSDT.** `SpendingInv` adds the types of the approvals to `SpendingApproved`; an
unlimited allowance is left alone by `transferFrom`, so it can stand next to a finite
approval in the ledger's account without disturbing it. `HeldInv` and `BackedInv` are the
two balances of the supply; the ledger of mints has entries for processed transactions
only, so a repeated mint changes neither side. They are stated of amounts, whatever
set these are drawn from, so that the relayer's calls are covered as well. That no
balance passes `MAX_UINT` (`TokenTypes`) follows, the balances being parts of the supply.

**BridgeRelayer.** `EthInv` and `UstInv` say that the chains only grow, and `BaseInv` adds the
types of what the process, its files and the mempools hold. On these stand four
arguments:

- *Deposits.* `ScanInv`: both cursors, in memory and on disk, are behind the head, every
  deposit behind a cursor was looked at, and every one of the window in progress was, or
  is still to come in `todo`. The cursor in memory moves only when `todo` is empty, the
  one on disk only to the one in memory. A start without a usable file begins at the
  heads, and the blocks from the cursor of the last stop up to there are the ones jumped
  over (`seen.jumped`); that cursor is itself one that left nothing behind.
- *Burns.* `RepaidInv`: a burn ahead of the cursors has been paid once per stop at most,
  the others once more. `todo` repeats none, so one pass pays each once.
- *Mints.* `MempoolInv`: what is broadcast is a deposit within the limits, in its own
  amount. The token's `processedDeposits` turns the second of two such mints away. With the
  token's invariants each step of the relayer is a step of `BridgeLedger` or none
  (`LedgerImplemented`). `SumsInv` bounds what can be issued by the height of Ethereum, so
  with `SupplyFits` no mint overflows, which is what `CacheInv` needs: a
  cached deposit is minted, or waits in the mempool and will not be refused.
  `RateInv` says that of the mints of any hour of the clock those the process remembers
  are within the limit, and those it has forgotten within a limit per stop: an entry is
  only trimmed from what is compared, a window is only lost with the process, and a
  new entry is let through when the hour that ends with it has room.
- *Money.* `MoneyInv`: what is in the treasury and what was paid, first payments and later
  ones, add up to what was deposited; what was burned is in the record. With the supply's
  balance, `Solvent` follows by comparing sums term by term.

**EscrowUSDT.** `DropsOne` is the lemma about swap-and-pop: from a list without
repetitions it takes the one signer and leaves all others, once each. `SignersInv`
adds that absence of repetitions to `SignersListed`. `PaidOnceUsed` adds that an unused
hash has not been paid, `OwnerWaits` that a pending owner's date lies a full delay
after its notice.

**MiningNetwork.** `ContractInv` is the contract's `IInv`, carried over to a chain where each
`mine()` is whole (`FrameInv`: at most one frame, of `mine`, while it is under way).
`MinerInv` counts, for each miner, the transactions that are mined and the events of the
log: there are as many events as transactions mined, or one is about to be emitted; and
the proofs found, with the receipt that counts next, are no more than either. It also says
that what was sent had passed the checks, and when.
`DogInv` says that one refill at most is on its way and that the account covers it; from it
follow `PoolInv`, in which a decision taken below the threshold may be joined by the one
refill that was given up on, and `ReserveInv`, in which, until one was given up on,
the balance that was read is the balance that is spent.

**Faucet.** `CooldownInv`: the table of addresses is at or ahead of every payment
recorded in this run of the filter, and at least a cooldown behind the claim that is let
through. `BalanceInv` counts, for each address, the balance together with the payments
on their way; a check that missed none let it through below the maximum. `IpInv` says of
every moment in the window that the recorded payments after it are no more than
the entries of the list after it. The list is trimmed at the window's edge only, so its
length bounds them.

**Searchers.** `LimbOrder` is the arithmetic: comparing four limbs of 64 bits, the highest
first, is comparing the numbers, for any base (`DivDiv`, `LimbsOf`, `DigitLess`).
`ChunksCover` says that the chunks, rounded up, cover the batch and pass its end by less
than a nonce per thread. `SearcherInv` then says of the GPU that the slot to be
collected begins where the collected batches end and the hot one a batch later
(`Aligned`), that a slot whose kernel ended has the least proof of its batch for the work
block on the device (`Kernels`), and that this is the caller's block when a batch is
collected; of the CPU that finished chunks hold no proof (`CpuInv`). `ReachInv` keeps all
nonces below the sentinel, so that it is never mistaken for a nonce.

**SitesWatcher.** `CaddyInv` says why Caddy is right, or who will see to it: some thread
will read the file after its last change (`WillRead`), or the file is half written, or
the reload that read it last has what it holds and no other overtakes it (`Latest`), or
all reloads that still come were overtaken and what is served is what is in the file, if
the last one was not refused (`Settled`). `ReloadInv` keeps the record of which reload
is older than which.

**Scripts.** All four argue about the mempool with one lemma on queues: entries of a kind
stay of that kind while transactions are appended, included and given up (`Queues`).

- *DEX.* `PartsFit` speaks of the file only; `DexInv` adds how the file comes about.
  `Fits` says of the dictionary and of the file that a part is there only after those it
  is made from, `StepInv` which parts a step can rely on and what its receipt names,
  `MempoolInv` that at most one transaction in all mempools is awaited and that it is the
  one of this step, made from the dictionary as it is. So a transaction that an
  earlier run left behind can create a contract but never answers a later run
  (`InclusionKeeps`), and `ChainInv` keeps its address apart from all others (`Grows`).
  `BatchInv` counts mints instead: the deployer holds a whole number of pools' worth of
  bUSDT and less than one more, the rest of what a pool did not take; with the mints
  still pending the whole ones are no more than one and those given up.
- *Handover.* Once the right has left the old operator no offer stands (`RolesInv`), and a
  script that can claim success has no creation of its own pending (`HandoverSteps`).
- *Rotation.* `FileInv`: while a run works with a set of keys the file holds it, and the
  file is rewritten only after the set was shown. `AwaitedInv`: an awaited transfer of
  coins is its account's only one and of all there was when it was read; so when it is
  included nothing but later income is left (`AnsweredInv`, `OldInv`).
- *Migration.* `PendingInv`: the owner has one transaction pending at most, since neither
  the script nor the watchdog sends a second. `WithdrawnInv` follows what was withdrawn
  from v3 to the deployer, to the amount to be paid, to the pool of v4; `NamedInv` says that
  what the files name was verified, and that pools of v4 only grow.

Only model-checked: liveness (`DepositsMinted`, `PoolRefilled`, `CaddyCatchesUp`), since the
prover has neither fairness nor `ENABLED`; and the three runs that end in a violation.
Nothing here is written with `RECURSIVE`: sums and counts are folds or recursive functions.

## What is not modelled

- **Request limit, method filter and WebSocket proxy** of `rpc-filter.py`. Each request
  is passed on or refused by itself, and the two tasks of a WebSocket connection share
  nothing but its end. The `/bridge/deposit` endpoint writes a file nothing reads.
- **Hashing and compiling.** Keccak is a constant function of block and nonce; what the
  DEX scripts download, patch and compile is third-party code.
- **Other deployment and key scripts** (`deploy.py`, `fund-miner.py`, `migrate-keys.py`,
  `create-miner-wallet.py`, ...): each sends one transaction or writes one file, and
  nothing is resumed; what they do to a contract is an action of its module.
- **Audit and test scripts, explorer pages, containers, tunnels, PowerShell**: they keep
  no state of their own, or configure third-party programs.
- **Geth, Clique, Ethereum, Tether, Uniswap, Caddy**: external. A chain is a sequence of
  blocks and a mempool. No reorganisation is modelled: no program of the repository
  looks for one.
- **Several transfers in one Ethereum transaction.** A deposit of the model is one
  transaction with one transfer to the treasury. The relayer's cache and the token's
  record go by transaction hash, so of two transfers in one transaction the second
  is skipped (`bridge-relayer.py:267`).
- **Scripts that ended.** A script that reported its end is not run again, though nothing
  stops an operator from it.
- **A change of difficulty in `MiningNetwork`.** A proof can also become stale because the
  difficulty rose after it was checked; `MarginIsEnough` is about age only. What may
  change the difficulty, and when, is `USSTMine`.
- **Mints for `deploy-dex.py` in `BridgeRelayer`.** The script mints bUSDT no deposit backs
  (371-393); `BridgeSolvent` is about a bridge whose operator mints for deposits only.
- **Views, logs, formatting, gas prices, wei conversion.** Amounts are small integers;
  the watchdog's comparison in floating point is taken as exact.

## Plan

Done, in this order: `USSTMine` with its proofs, `BridgedUSDT`, `BridgeLedger` and
`BridgeRelayer`, `EscrowUSDT`, `MiningNetwork`, `Faucet`, `GPUSearcher`, `SitesWatcher`,
the scripts; then the proofs of the history, the token, the escrow, the relayer with its
refinement, the faucet, the scripts, the network, the watcher and the searchers.

Next theorems: action properties that say what a step may never do, where only an
invariant is stated now (the relayer's cursors never go back but over a torn file; no
script's file loses an entry); the bound on what `deploy-dex.py` adds to a pool twice.

Next modules: the request limit and the WebSocket proxy (`rpc-filter.py:168-178,
383-408`), and several transfers per transaction in `BridgeRelayer`.
