------------------------------ MODULE USSTMine ------------------------------
(***************************************************************************)
(* contracts/USSTMine.sol: the proof-of-work reward pool of chain 778889.  *)
(*                                                                         *)
(* A call of the contract is one action, except mine() and                 *)
(* executeWithdraw(), which hand control to an account while they run:     *)
(* their first action ends at the external call and pushes a frame on      *)
(* `stack', and a second one returns from it or reverts it.  Between the   *)
(* two, the account called may call the contract again when it is itself a *)
(* contract.  A call that reverts restores the `World' its frame saved,    *)
(* effects of the calls nested in it included.                             *)
(***************************************************************************)
EXTENDS Integers, Sequences, FiniteSets

CONSTANTS
  \* the contract's own constants
  BASE_REWARD, HALVING_INTERVAL, MIN_REWARD, BURN_BPS, TIMELOCK_DELAY,
  WITHDRAW_TIMELOCK, MIN_DIFFICULTY, INITIAL_DIFFICULTY,
  WORK_AGE,             \* oldest work block accepted, in blocks (10 in the code)
  \* deployment
  Accounts,             \* addresses that call the contract
  Contracts,            \* those with code: they can call back when paid
  Deployer, NoAddress,  \* first owner; address(0)
  InitialTotalMined, InitialFund,
  \* proofs of work
  Nonces, MAX_HASH,
  PowHash(_, _, _),     \* keccak256(miner, nonce, workBlock)
  \* inputs and bounds of the model
  Heirs, Difficulties, Amounts, TimeSteps, MaxBlock, MaxTime, MaxMined, MaxFunded

ASSUME TokenomicsAssumption ==
  /\ BASE_REWARD \in Nat /\ MIN_REWARD \in Nat
  /\ HALVING_INTERVAL \in Nat \ {0}
  /\ BURN_BPS \in 0 .. 10000
ASSUME GovernanceAssumption ==
  /\ TIMELOCK_DELAY \in Nat \ {0} /\ WITHDRAW_TIMELOCK \in Nat \ {0}
  /\ MIN_DIFFICULTY \in Nat \ {0}
  /\ INITIAL_DIFFICULTY \in Nat /\ INITIAL_DIFFICULTY >= MIN_DIFFICULTY
ASSUME AccountAssumption ==
  /\ Contracts \subseteq Accounts /\ Deployer \in Accounts
  /\ NoAddress \notin Accounts /\ Heirs \subseteq Accounts
ASSUME InputAssumption ==
  /\ InitialTotalMined \in Nat /\ InitialFund \in Nat /\ WORK_AGE \in Nat
  /\ Difficulties \subseteq Nat /\ Amounts \subseteq Nat
  /\ TimeSteps \subseteq Nat
  /\ MaxBlock \in Nat /\ MaxTime \in Nat /\ MaxMined \in Nat /\ MaxFunded \in Nat

VARIABLES
  gov,     \* governance storage: owner, difficulty and the pending operations
  pow,     \* mining storage: _status, totalMined, totalBurned, _usedWork
  money,   \* the pool, and where every coin that left or entered it went
  log,     \* the Mined and Burned events, in the order they were emitted
  notice,  \* since when each pending operation has been the one it is
  stack,   \* calls waiting for an external call to return
  block, now

world == <<gov, pow, money, log, notice>>
clock == <<block, now>>
vars == <<gov, pow, money, log, notice, stack, block, now>>

_NOT_ENTERED == 1
_ENTERED     == 2

-----------------------------------------------------------------------------
(* Views *)

EraOf(mined) == mined \div HALVING_INTERVAL

currentEra == EraOf(pow.totalMined)

\* BASE_REWARD >> era; then never below MIN_REWARD.
Pow2 == <<1, 2, 4, 8, 16, 32, 64>>
Halved(era) == BASE_REWARD \div Pow2[era + 1]

RewardIn(era) ==
  IF era >= 7 \/ Halved(era) < MIN_REWARD THEN MIN_REWARD ELSE Halved(era)

rewardAfterCount == RewardIn(EraOf(pow.totalMined + 1))
reward == RewardIn(currentEra)

BurnOf(gross) == (gross * BURN_BPS) \div 10000

minerReward == reward - BurnOf(reward)

target == MAX_HASH \div gov.difficulty

verifyWork(miner, nonce, workBlock) ==
  /\ workBlock <= block /\ block - workBlock <= WORK_AGE
  /\ PowHash(miner, nonce, workBlock) < target

\* The guards and money movements of the actions below.  A definition whose
\* name ends in _bug is a plausible mistake in the one that follows it: it is
\* used by no action, and shows what a property would catch.
lockIgnored_bug == TRUE
nonReentrant == pow.status = _NOT_ENTERED

workReused_bug(work) == TRUE
workUnused(work) == work \notin pow.used

PayBurn_bug(m, v) == m
PayBurn(m, v) == [m EXCEPT !.pool = @ - v, !.toBurn = @ + v]
PayMiner(m, v) == [m EXCEPT !.pool = @ - v, !.toMiners = @ + v]
PayOwner(m, v) == [m EXCEPT !.pool = @ - v, !.toOwner = @ + v]

ownerUnqueued_bug == TRUE
ownerQueued == gov.pendingOwner # NoAddress

tooEarlyByOne_bug(at) == now + 1 >= at
timelockOver(at) == now >= at

aboveFloor(d) == d >= MIN_DIFFICULTY

withdrawKeepsDate_bug ==
  IF gov.pendingWithdrawAmount # 0 THEN gov.pendingWithdrawAt
  ELSE now + WITHDRAW_TIMELOCK
withdrawDate == now + WITHDRAW_TIMELOCK

withdrawStaysQueued_bug == gov
withdrawCleared ==
  [gov EXCEPT !.pendingWithdrawAmount = 0, !.pendingWithdrawTo = NoAddress]

-----------------------------------------------------------------------------
(* Calls *)

World == [gov |-> gov, pow |-> pow, money |-> money, log |-> log,
          notice |-> notice]

\* A transaction starts when no call is open.  While one waits for an account
\* with code, that account, or another contract it calls, may be msg.sender.
Top == stack[Len(stack)]
MayCall(sender) ==
  stack # <<>> => sender \in Contracts /\ Top.callee \in Contracts

onlyOwner(sender) == MayCall(sender) /\ sender = gov.owner

Push(op, callee, event) ==
  stack' = Append(stack, [op |-> op, callee |-> callee, event |-> event,
                          saved |-> World])

Pop == stack' = SubSeq(stack, 1, Len(stack) - 1)

\* The pool's income: receive() and fund().
fund(sender, value) ==
  /\ MayCall(sender)
  /\ money.funded + value <= MaxFunded
  /\ money' = [money EXCEPT !.pool = @ + value, !.funded = @ + value]
  /\ UNCHANGED <<gov, pow, log, notice, stack, clock>>

\* mine() up to the call that pays msg.sender; the burn address has no code.
mine(sender, nonce, workBlock) ==
  LET work == <<sender, nonce, workBlock>>
      gross == reward
      burn == BurnOf(gross)
      net == gross - burn
  IN /\ MayCall(sender)
     /\ nonReentrant
     /\ workUnused(work)
     /\ verifyWork(sender, nonce, workBlock)
     /\ money.pool >= gross
     /\ pow.totalMined < MaxMined
     /\ pow' = [pow EXCEPT !.status = _ENTERED, !.used = @ \cup {work},
                           !.totalMined = @ + 1, !.totalBurned = @ + burn]
     /\ money' = PayMiner(PayBurn(money, burn), net)
     /\ Push("mine", sender,
             [work |-> work, net |-> net, burned |-> burn, era |-> currentEra])
     /\ UNCHANGED <<gov, log, notice, clock>>

\* The miner's call succeeded: the events are emitted and the lock is freed.
mineReturns ==
  /\ stack # <<>> /\ Top.op = "mine"
  /\ log' = Append(log, [work |-> Top.event.work, net |-> Top.event.net,
                         burned |-> Top.event.burned, era |-> Top.event.era,
                         totalBurned |-> pow.totalBurned])
  /\ pow' = [pow EXCEPT !.status = _NOT_ENTERED]
  /\ Pop
  /\ UNCHANGED <<gov, money, notice, clock>>

\* TransferFailed: an account with code may refuse the money.
callReverts ==
  /\ stack # <<>> /\ Top.callee \in Contracts
  /\ gov' = Top.saved.gov /\ pow' = Top.saved.pow /\ money' = Top.saved.money
  /\ log' = Top.saved.log /\ notice' = Top.saved.notice
  /\ Pop
  /\ UNCHANGED clock

-----------------------------------------------------------------------------
(* Governance *)

\* `notice' is no storage of the contract: it observes since when the public
\* has been able to read the operation that is pending now.
Since(same, t) == IF same THEN t ELSE now

queueDifficulty(sender, newDifficulty) ==
  /\ onlyOwner(sender)
  /\ aboveFloor(newDifficulty)
  /\ gov' = [gov EXCEPT !.pendingDifficulty = newDifficulty,
                        !.pendingDifficultyAt = now + TIMELOCK_DELAY]
  /\ notice' = [notice EXCEPT !.difficulty =
                  Since(gov.pendingDifficulty = newDifficulty, @)]
  /\ UNCHANGED <<pow, money, log, stack, clock>>

executeDifficulty(sender) ==
  /\ onlyOwner(sender)
  /\ gov.pendingDifficulty # 0
  /\ timelockOver(gov.pendingDifficultyAt)
  /\ gov' = [gov EXCEPT !.difficulty = gov.pendingDifficulty,
                        !.pendingDifficulty = 0]
  /\ UNCHANGED <<pow, money, log, notice, stack, clock>>

cancelDifficulty(sender) ==
  /\ onlyOwner(sender)
  /\ gov.pendingDifficulty # 0
  /\ gov' = [gov EXCEPT !.pendingDifficulty = 0]
  /\ UNCHANGED <<pow, money, log, notice, stack, clock>>

queueOwnershipTransfer(sender, newOwner) ==
  /\ onlyOwner(sender)
  /\ newOwner # NoAddress
  /\ gov' = [gov EXCEPT !.pendingOwner = newOwner,
                        !.pendingOwnerAt = now + TIMELOCK_DELAY]
  /\ notice' = [notice EXCEPT !.owner = Since(gov.pendingOwner = newOwner, @)]
  /\ UNCHANGED <<pow, money, log, stack, clock>>

executeOwnershipTransfer(sender) ==
  /\ onlyOwner(sender)
  /\ ownerQueued
  /\ timelockOver(gov.pendingOwnerAt)
  /\ gov' = [gov EXCEPT !.owner = gov.pendingOwner, !.pendingOwner = NoAddress]
  /\ UNCHANGED <<pow, money, log, notice, stack, clock>>

cancelOwnershipTransfer(sender) ==
  /\ onlyOwner(sender)
  /\ gov.pendingOwner # NoAddress
  /\ gov' = [gov EXCEPT !.pendingOwner = NoAddress]
  /\ UNCHANGED <<pow, money, log, notice, stack, clock>>

queueWithdraw(sender, amount) ==
  /\ onlyOwner(sender)
  /\ amount # 0 /\ amount <= money.pool
  /\ gov' = [gov EXCEPT !.pendingWithdrawAmount = amount,
                        !.pendingWithdrawTo = gov.owner,
                        !.pendingWithdrawAt = withdrawDate]
  /\ notice' = [notice EXCEPT !.withdraw =
                  Since(/\ gov.pendingWithdrawAmount = amount
                        /\ gov.pendingWithdrawTo = gov.owner, @)]
  /\ UNCHANGED <<pow, money, log, stack, clock>>

\* executeWithdraw() up to the call that pays pendingWithdrawTo.
executeWithdraw(sender) ==
  LET amount == gov.pendingWithdrawAmount
  IN /\ onlyOwner(sender)
     /\ amount # 0
     /\ timelockOver(gov.pendingWithdrawAt)
     /\ amount <= money.pool
     /\ gov' = withdrawCleared
     /\ money' = PayOwner(money, amount)
     /\ Push("withdraw", gov.pendingWithdrawTo, [amount |-> amount])
     /\ UNCHANGED <<pow, log, notice, clock>>

withdrawReturns ==
  /\ stack # <<>> /\ Top.op = "withdraw"
  /\ Pop
  /\ UNCHANGED <<world, clock>>

cancelWithdraw(sender) ==
  /\ onlyOwner(sender)
  /\ gov.pendingWithdrawAmount # 0
  /\ gov' = withdrawCleared
  /\ UNCHANGED <<pow, money, log, notice, stack, clock>>

-----------------------------------------------------------------------------
\* A transaction sees one block number and one timestamp.
newBlock(dt) ==
  /\ stack = <<>>
  /\ block < MaxBlock /\ now + dt <= MaxTime
  /\ block' = block + 1 /\ now' = now + dt
  /\ UNCHANGED <<world, stack>>

Init ==
  /\ gov = [difficulty |-> INITIAL_DIFFICULTY, owner |-> Deployer,
            pendingDifficulty |-> 0, pendingDifficultyAt |-> 0,
            pendingOwner |-> NoAddress, pendingOwnerAt |-> 0,
            pendingWithdrawAmount |-> 0, pendingWithdrawTo |-> NoAddress,
            pendingWithdrawAt |-> 0]
  /\ pow = [status |-> _NOT_ENTERED, totalMined |-> InitialTotalMined,
            totalBurned |-> 0, used |-> {}]
  /\ money = [pool |-> InitialFund, funded |-> InitialFund, toMiners |-> 0,
              toBurn |-> 0, toOwner |-> 0]
  /\ log = <<>>
  /\ notice = [difficulty |-> 0, owner |-> 0, withdraw |-> 0]
  /\ stack = <<>>
  /\ block = 0 /\ now = 0

Mining(a) ==
  \/ \E v \in Amounts : fund(a, v)
  \/ \E n \in Nonces, w \in 0 .. MaxBlock : mine(a, n, w)

Governing(a) ==
  \/ \E d \in Difficulties : queueDifficulty(a, d)
  \/ executeDifficulty(a)
  \/ cancelDifficulty(a)
  \/ \E o \in Heirs : queueOwnershipTransfer(a, o)
  \/ executeOwnershipTransfer(a)
  \/ cancelOwnershipTransfer(a)
  \/ \E v \in Amounts : queueWithdraw(a, v)
  \/ executeWithdraw(a)
  \/ cancelWithdraw(a)

Next ==
  \/ \E a \in Accounts : Mining(a) \/ Governing(a)
  \/ mineReturns
  \/ withdrawReturns
  \/ callReverts
  \/ \E dt \in TimeSteps : newBlock(dt)

Spec == Init /\ [][Next]_vars

-----------------------------------------------------------------------------
(* Types *)

Works == Accounts \X Nonces \X Nat
Owners == Accounts \cup {NoAddress}

GovType == [difficulty: Nat, owner: Accounts,
            pendingDifficulty: Nat, pendingDifficultyAt: Nat,
            pendingOwner: Owners, pendingOwnerAt: Nat,
            pendingWithdrawAmount: Nat, pendingWithdrawTo: Owners,
            pendingWithdrawAt: Nat]
PowType == [status: {_NOT_ENTERED, _ENTERED}, totalMined: Nat, totalBurned: Nat,
            used: SUBSET Works]
MoneyType == [pool: Nat, funded: Nat, toMiners: Nat, toBurn: Nat, toOwner: Nat]
LogType == Seq([work: Works, net: Nat, burned: Nat, era: Nat, totalBurned: Nat])
NoticeType == [difficulty: Nat, owner: Nat, withdraw: Nat]
WorldType == [gov: GovType, pow: PowType, money: MoneyType, log: LogType,
              notice: NoticeType]
MineFrame == [op: {"mine"}, callee: Accounts, saved: WorldType,
              event: [work: Works, net: Nat, burned: Nat, era: Nat]]
WithdrawFrame == [op: {"withdraw"}, callee: Accounts, saved: WorldType,
                  event: [amount: Nat]]
FrameType == MineFrame \cup WithdrawFrame

\* Every variable keeps its type: no balance or counter goes below zero.
TypeOK ==
  /\ gov \in GovType /\ pow \in PowType /\ money \in MoneyType
  /\ log \in LogType /\ notice \in NoticeType
  /\ stack \in Seq(FrameType)
  /\ block \in Nat /\ now \in Nat

-----------------------------------------------------------------------------
(* Properties *)

\* Every coin that ever entered the pool is in it, or was paid to a miner,
\* burned, or withdrawn by the owner; and totalBurned is what the burn address
\* got, also in the middle of a call and after a revert (mine 163-181,
\* executeWithdraw 252-258).
Balanced(w) ==
  /\ w.money.pool + w.money.toMiners + w.money.toBurn + w.money.toOwner
       = w.money.funded
  /\ w.money.toBurn = w.pow.totalBurned
Conservation == Balanced(World)

\* One proof, one reward: when no call is open, each used proof has exactly one
\* Mined event, and totalMined has counted each once (mine 160, 170-172), no
\* matter how calls nested or reverted.
WorksLogged == {log[i].work : i \in 1 .. Len(log)}
OneRewardPerProof ==
  stack = <<>> =>
    /\ WorksLogged = pow.used
    /\ Len(log) = Cardinality(pow.used)
    /\ pow.totalMined = InitialTotalMined + Len(log)

\* A reader of the events can rebuild the history: the i-th Mined event is the
\* i-th proof counted, with the era and the reward of that proof, and the totals
\* that the Burned events carry add up (mine 171-185).
EventsInOrder ==
  \A i \in 1 .. Len(log) :
    /\ log[i].era = EraOf(InitialTotalMined + i - 1)
    /\ log[i].net + log[i].burned = RewardIn(log[i].era)
    /\ log[i].totalBurned =
         log[i].burned + (IF i = 1 THEN 0 ELSE log[i - 1].totalBurned)
    /\ i > 1 => log[i].net + log[i].burned <= log[i - 1].net + log[i - 1].burned

\* The lock is held exactly while a mine() waits for its miner, and at most one
\* does: nothing, a refused payment included, leaves mining locked (17-26, 181).
MineFrames == {i \in 1 .. Len(stack) : stack[i].op = "mine"}
LockHeldByOneMine ==
  /\ (pow.status = _ENTERED) <=> (MineFrames # {})
  /\ \A i, j \in MineFrames : i = j

\* executeWithdraw() has no reentrancy guard: while one is waiting for the owner's
\* account, no other can be open, since a withdrawal queued in the callback is
\* still a full WITHDRAW_TIMELOCK away (249-260, 241-247).
WithdrawFrames == {i \in 1 .. Len(stack) : stack[i].op = "withdraw"}
NoNestedWithdrawal == \A i, j \in WithdrawFrames : i = j

\* Difficulty is never below MIN_DIFFICULTY, so target() never divides by zero,
\* and no pending value can bring it there ([HIGH-1], 36, 191).
DifficultyFloor ==
  /\ gov.difficulty >= MIN_DIFFICULTY
  /\ gov.pendingDifficulty # 0 => gov.pendingDifficulty >= MIN_DIFFICULTY

\* A step that is not a revert changes the difficulty or the owner only to a
\* value that was pending, unchanged, for the whole TIMELOCK_DELAY (190-228).
Forward == Len(stack') >= Len(stack)
ChangesAnnounced ==
  [][ /\ Forward /\ gov'.difficulty # gov.difficulty =>
           /\ gov'.difficulty = gov.pendingDifficulty
           /\ now - notice.difficulty >= TIMELOCK_DELAY
      /\ Forward /\ gov'.owner # gov.owner =>
           /\ gov'.owner = gov.pendingOwner
           /\ now - notice.owner >= TIMELOCK_DELAY ]_vars

\* "Every withdrawal is public knowledge 7 days in advance" (238): coins leave
\* for an owner only in the amount and to the address that could be read from the
\* contract, unchanged, for the whole WITHDRAW_TIMELOCK.
WithdrawalsAnnounced ==
  [][ money'.toOwner > money.toOwner =>
        /\ money'.toOwner - money.toOwner = gov.pendingWithdrawAmount
        /\ Len(stack') > Len(stack)
        /\ stack'[Len(stack')].callee = gov.pendingWithdrawTo
        /\ now - notice.withdraw >= WITHDRAW_TIMELOCK ]_vars

=============================================================================
