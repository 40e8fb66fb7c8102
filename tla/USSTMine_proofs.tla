-------------------------- MODULE USSTMine_proofs --------------------------
(***************************************************************************)
(* What holds of USSTMine for every value of its constants.                *)
(***************************************************************************)
EXTENDS USSTMine, SequenceTheorems, FiniteSetTheorems, TLAPS

-----------------------------------------------------------------------------
(* The emission schedule *)

\* The reward of an era is a number of coins.
LEMMA RewardType == \A era \in Nat : RewardIn(era) \in Nat
<1> SUFFICES ASSUME NEW era \in Nat, era < 7 PROVE Halved(era) \in Nat
  BY TokenomicsAssumption DEF RewardIn
<1>1. era \in {0, 1, 2, 3, 4, 5, 6}
  OBVIOUS
<1>2. Pow2[era + 1] \in Nat \ {0}
  BY <1>1 DEF Pow2
<1> QED
  BY <1>2, TokenomicsAssumption DEF Halved

\* Era of a count of proofs.
LEMMA EraType == \A n \in Nat : EraOf(n) \in Nat
  BY TokenomicsAssumption DEF EraOf

\* The burn never exceeds the reward it is taken from.
LEMMA BurnBound == \A gross \in Nat : BurnOf(gross) \in 0 .. gross
<1> SUFFICES ASSUME NEW gross \in Nat PROVE BurnOf(gross) \in 0 .. gross
  OBVIOUS
<1>1. BURN_BPS \in Nat /\ BURN_BPS <= 10000
  BY TokenomicsAssumption
<1>2. gross * BURN_BPS \in Nat /\ gross * BURN_BPS <= gross * 10000
  BY <1>1
<1> QED
  BY <1>2 DEF BurnOf
-----------------------------------------------------------------------------
(* The inductive strengthening of the safety properties: what holds of the    *)
(* current world holds of every world a revert could restore.                 *)

\* A pending operation has waited from its notice on, and will be executable
\* only when it has waited for its whole delay.
Announced(g, n) ==
  /\ n.difficulty <= now /\ n.owner <= now /\ n.withdraw <= now
  /\ g.pendingDifficulty # 0 =>
       g.pendingDifficultyAt >= n.difficulty + TIMELOCK_DELAY
  /\ g.pendingOwner # NoAddress => g.pendingOwnerAt >= n.owner + TIMELOCK_DELAY
  /\ g.pendingWithdrawAmount # 0 =>
       g.pendingWithdrawAt >= n.withdraw + WITHDRAW_TIMELOCK

Floor(g) ==
  /\ g.difficulty >= MIN_DIFFICULTY
  /\ g.pendingDifficulty # 0 => g.pendingDifficulty >= MIN_DIFFICULTY

Payable(g) == g.pendingWithdrawAmount # 0 => g.pendingWithdrawTo \in Accounts

Good(w) ==
  /\ w \in WorldType
  /\ Balanced(w) /\ Floor(w.gov) /\ Payable(w.gov) /\ Announced(w.gov, w.notice)

IInv ==
  /\ stack \in Seq(FrameType) /\ block \in Nat /\ now \in Nat
  /\ Good(World)
  /\ \A i \in 1 .. Len(stack) : Good(stack[i].saved)

\* A world with the first n frames below it: the lock is taken iff one of them is
\* a mine(), no withdrawal is executable if one of them is a withdrawal, and none
\* of the worlds they saved had paid the owners more.
Executable(g) == g.pendingWithdrawAmount # 0 /\ g.pendingWithdrawAt <= now
Nesting(w, n) ==
  /\ (w.pow.status = _ENTERED) <=> (\E i \in 1 .. n : stack[i].op = "mine")
  /\ (\E i \in 1 .. n : stack[i].op = "withdraw") => ~Executable(w.gov)
  /\ \A i \in 1 .. n : stack[i].saved.money.toOwner <= w.money.toOwner

Opened(f) ==
  /\ f.op = "mine" => f.saved.pow.status = _NOT_ENTERED
  /\ f.op = "withdraw" => Executable(f.saved.gov)

StackInv ==
  /\ Nesting(World, Len(stack))
  /\ \A i \in 1 .. Len(stack) :
       Nesting(stack[i].saved, i - 1) /\ Opened(stack[i])

-----------------------------------------------------------------------------
(* Frames: what Push and Pop do to the stack. *)

\* A call that hands over control saves a good world and leaves a good one.
LEMMA PushGood ==
  ASSUME IInv, NEW f \in FrameType, f.saved = World,
         stack' = Append(stack, f), Good(World)', UNCHANGED clock
  PROVE  IInv'
<1>1. stack' \in Seq(FrameType) /\ Len(stack') = Len(stack) + 1
  BY DEF IInv
<1>2. \A i \in 1 .. Len(stack) : stack'[i] = stack[i]
  BY DEF IInv
<1>3. stack'[Len(stack) + 1] = f
  BY DEF IInv
<1>4. now' = now /\ block' = block
  BY DEF clock
<1>5. \A w : Good(w) => Good(w)'
  BY <1>4 DEF Good, Announced, Balanced, Floor, Payable
<1> QED
  BY <1>1, <1>2, <1>3, <1>4, <1>5 DEF IInv

\* A call that opens no frame leaves a good world.
LEMMA KeepGood ==
  ASSUME IInv, Good(World)', UNCHANGED stack, UNCHANGED clock
  PROVE  IInv'
<1>1. now' = now /\ block' = block
  BY DEF clock
<1>2. \A w : Good(w) => Good(w)'
  BY <1>1 DEF Good, Announced, Balanced, Floor, Payable
<1> QED
  BY <1>1, <1>2 DEF IInv

\* A sequence without its last element.
LEMMA ButLast ==
  ASSUME NEW S, NEW s \in Seq(S), s # <<>>
  PROVE  /\ SubSeq(s, 1, Len(s) - 1) \in Seq(S)
         /\ Len(SubSeq(s, 1, Len(s) - 1)) = Len(s) - 1
         /\ \A i \in 1 .. Len(s) - 1 : SubSeq(s, 1, Len(s) - 1)[i] = s[i]
<1>1. Len(s) \in Nat \ {0}
  BY EmptySeq
<1>2. \A i \in 1 .. Len(s) - 1 : s[i] \in S
  BY ElementOfSeq, <1>1
<1> DEFINE n == Len(s) - 1
           u == SubSeq(s, 1, n)
<1>3. n \in Nat /\ n \in Int /\ n - 1 + 1 = n
  BY <1>1
<1>4. /\ u \in Seq(S)
      /\ Len(u) = IF 1 <= n THEN n - 1 + 1 ELSE 0
      /\ \A i \in 1 .. n - 1 + 1 : u[i] = s[1 + i - 1]
  <2> HIDE DEF n
  <2> QED
    BY <1>2, <1>3, SubSeqProperties DEF n
<1> HIDE DEF u
<1>5. Len(u) = n
  <2>1. ASSUME NEW k \in Nat, Len(u) = IF 1 <= k THEN k - 1 + 1 ELSE 0
        PROVE  Len(u) = k
    BY <2>1
  <2> QED
    BY <1>3, <1>4, <2>1
<1>6. \A i \in 1 .. n : u[i] = s[i]
  BY <1>1, <1>4
<1> QED
  BY <1>4, <1>5, <1>6 DEF u

\* A frame that returns or reverts leaves those below it as they were.
LEMMA PopFacts ==
  ASSUME stack \in Seq(FrameType), stack # <<>>, Pop
  PROVE  /\ stack' \in Seq(FrameType)
         /\ Len(stack') = Len(stack) - 1
         /\ \A i \in 1 .. Len(stack') : stack'[i] = stack[i]
         /\ Len(stack) \in Nat \ {0}
         /\ Top \in FrameType
<1>1. Len(stack) \in Nat \ {0}
  BY EmptySeq
<1> QED
  BY <1>1, ButLast DEF Pop, Top

\* Returning from a call keeps every saved world good.
LEMMA PopGood ==
  ASSUME IInv, stack # <<>>, Pop, Good(World)', UNCHANGED clock
  PROVE  IInv'
<1>1. now' = now /\ block' = block
  BY DEF clock
<1>2. \A w : Good(w) => Good(w)'
  BY <1>1 DEF Good, Announced, Balanced, Floor, Payable
<1>3. Len(stack) \in Nat
  BY DEF IInv
<1> QED
  BY <1>1, <1>2, <1>3, PopFacts DEF IInv

-----------------------------------------------------------------------------
(* The inductive invariant *)

\* The constructor leaves a good world and no open call.
LEMMA InitGood == Init => IInv
<1> SUFFICES ASSUME Init PROVE IInv
  OBVIOUS
<1>1. gov \in GovType
  BY GovernanceAssumption, AccountAssumption DEF Init, GovType, Owners
<1>2. pow \in PowType /\ money \in MoneyType /\ notice \in NoticeType
  BY InputAssumption DEF Init, PowType, MoneyType, NoticeType
<1>3. log \in LogType
  BY DEF Init, LogType
<1>4. World \in WorldType
  BY <1>1, <1>2, <1>3 DEF World, WorldType
<1>5. Balanced(World)
  BY InputAssumption DEF Init, World, Balanced
<1>6. Floor(gov) /\ Payable(gov) /\ Announced(gov, notice)
  BY GovernanceAssumption DEF Init, Floor, Payable, Announced
<1>7. Good(World)
  BY <1>4, <1>5, <1>6 DEF Good, World
<1> QED
  BY <1>7 DEF IInv, Init

\* What a good world says of its parts, now and after a step.
GoodGov == /\ gov \in GovType /\ notice \in NoticeType
           /\ Floor(gov) /\ Payable(gov) /\ Announced(gov, notice)
GoodMoney == /\ pow \in PowType /\ money \in MoneyType
             /\ money.pool + money.toMiners + money.toBurn + money.toOwner
                  = money.funded
             /\ money.toBurn = pow.totalBurned

\* A good world, taken apart by the storage its parts read.
LEMMA GoodParts == Good(World) <=> GoodGov /\ GoodMoney /\ log \in LogType
  BY DEF Good, World, WorldType, Balanced, GoodGov, GoodMoney

\* The same in the next state.
LEMMA GoodPartsNext ==
  (GoodGov /\ GoodMoney /\ log \in LogType)' => Good(World)'
  BY DEF Good, World, WorldType, Balanced, GoodGov, GoodMoney

\* receive() and fund() keep the books balanced.
LEMMA FundGood ==
  ASSUME IInv, NEW a \in Accounts, NEW v \in Nat, fund(a, v)
  PROVE  IInv'
<1>1. v \in Nat
  OBVIOUS
<1>2. GoodGov /\ GoodMoney /\ log \in LogType
  BY GoodParts DEF IInv
<1>3. money' = [pool |-> money.pool + v, funded |-> money.funded + v,
                toMiners |-> money.toMiners, toBurn |-> money.toBurn,
                toOwner |-> money.toOwner]
  BY <1>2 DEF GoodMoney, MoneyType, fund
<1>4. GoodMoney'
  <2>1. money' \in MoneyType
    BY <1>1, <1>2, <1>3 DEF GoodMoney, MoneyType
  <2>2. /\ money'.pool = money.pool + v /\ money'.funded = money.funded + v
        /\ money'.toMiners = money.toMiners /\ money'.toBurn = money.toBurn
        /\ money'.toOwner = money.toOwner /\ pow' = pow
    BY <1>2 DEF GoodMoney, MoneyType, fund
  <2>3. /\ money.pool \in Nat /\ money.funded \in Nat /\ money.toMiners \in Nat
        /\ money.toBurn \in Nat /\ money.toOwner \in Nat
    BY <1>2 DEF GoodMoney, MoneyType
  <2> QED
    BY <1>1, <1>2, <2>1, <2>2, <2>3 DEF GoodMoney
<1>5. GoodGov' /\ (log \in LogType)'
  BY <1>2 DEF fund, GoodGov, Floor, Payable, Announced, clock
<1> QED
  BY <1>4, <1>5, KeepGood, GoodPartsNext DEF fund

\* Paying keeps the books balanced as long as the pool covers the payment.
LEMMA PayType ==
  ASSUME NEW m \in MoneyType, NEW v \in Nat, v <= m.pool
  PROVE  /\ PayBurn(m, v) \in MoneyType /\ PayMiner(m, v) \in MoneyType
         /\ PayOwner(m, v) \in MoneyType
<1>1. [m EXCEPT !.pool = m.pool - v] \in MoneyType
  BY DEF MoneyType
<1>2. m.toBurn + v \in Nat /\ m.toMiners + v \in Nat /\ m.toOwner + v \in Nat
  BY DEF MoneyType
<1> QED
  BY <1>1, <1>2 DEF MoneyType, PayBurn, PayMiner, PayOwner

\* A payment out of the pool moves coins and makes or loses none.
LEMMA PayBalance ==
  ASSUME NEW m \in MoneyType, NEW v \in Nat, NEW u \in Nat
  PROVE  LET b == PayBurn(m, v)
             p == PayMiner(b, u)
             o == PayOwner(m, v)
         IN /\ b.pool = m.pool - v
            /\ p.pool = m.pool - v - u /\ p.toBurn = m.toBurn + v
            /\ p.toMiners = m.toMiners + u /\ p.toOwner = m.toOwner
            /\ p.funded = m.funded
            /\ o.pool = m.pool - v /\ o.toOwner = m.toOwner + v
            /\ o.toMiners = m.toMiners /\ o.toBurn = m.toBurn
            /\ o.funded = m.funded
  BY DEF MoneyType, PayBurn, PayMiner, PayOwner

\* mine() up to the payment: burn, net reward and pool add up.
LEMMA MineGood ==
  ASSUME IInv, NEW a \in Accounts, NEW n \in Nonces, NEW w \in Nat, mine(a, n, w)
  PROVE  IInv'
<1> DEFINE gross == reward
           burn == BurnOf(gross)
           net == gross - burn
           event == [work |-> <<a, n, w>>, net |-> net, burned |-> burn,
                     era |-> currentEra]
           f == [op |-> "mine", callee |-> a, event |-> event, saved |-> World]
<1>1. GoodGov /\ GoodMoney /\ log \in LogType
  BY GoodParts DEF IInv
<1>2. pow.totalMined \in Nat
  BY <1>1 DEF GoodMoney, PowType
<1>3. currentEra \in Nat /\ gross \in Nat
  BY <1>2, EraType, RewardType DEF currentEra, reward
<1>4. burn \in Nat /\ net \in Nat /\ burn <= gross
  BY <1>3, BurnBound
<1>5. <<a, n, w>> \in Works
  BY DEF Works
<1>6. pow' \in PowType /\ pow'.totalBurned = pow.totalBurned + burn
  <2>1. pow' = [status |-> _ENTERED, totalMined |-> pow.totalMined + 1,
                totalBurned |-> pow.totalBurned + burn,
                used |-> pow.used \cup {<<a, n, w>>}]
    BY <1>1 DEF GoodMoney, PowType, mine
  <2> QED
    BY <2>1, <1>1, <1>4, <1>5 DEF GoodMoney, PowType
<1>7. money' = PayMiner(PayBurn(money, burn), net)
  BY DEF mine
<1>8. money' \in MoneyType
  <2>1. gross <= money.pool
    BY DEF mine
  <2>2. money \in MoneyType /\ money.pool \in Nat
    BY <1>1 DEF GoodMoney, MoneyType
  <2>3. burn <= money.pool
    BY <2>1, <2>2, <1>3, <1>4
  <2>4. PayBurn(money, burn) \in MoneyType
    BY <2>2, <2>3, <1>4, PayType
  <2>5. net <= PayBurn(money, burn).pool
    BY <2>1, <2>2, <1>3, <1>4, PayBalance
  <2> QED
    BY <2>4, <2>5, <1>4, <1>7, PayType
<1> HIDE DEF gross, burn, net
<1>9. GoodMoney'
  <2>1. /\ money'.pool = money.pool - burn - net /\ money'.funded = money.funded
        /\ money'.toMiners = money.toMiners + net
        /\ money'.toBurn = money.toBurn + burn /\ money'.toOwner = money.toOwner
    BY <1>1, <1>4, <1>7, PayBalance DEF GoodMoney
  <2>2. /\ money.pool \in Nat /\ money.funded \in Nat /\ money.toMiners \in Nat
        /\ money.toBurn \in Nat /\ money.toOwner \in Nat
    BY <1>1 DEF GoodMoney, MoneyType
  <2> QED
    BY <1>1, <1>4, <1>6, <1>8, <2>1, <2>2 DEF GoodMoney
<1>10. GoodGov' /\ (log \in LogType)'
  BY <1>1 DEF mine, GoodGov, Floor, Payable, Announced, clock
<1>11. Good(World)'
  BY <1>9, <1>10, GoodPartsNext
<1>12. f \in FrameType /\ f.saved = World
  <2>1. World \in WorldType
    BY DEF IInv, Good
  <2> QED
    BY <2>1, <1>3, <1>4, <1>5 DEF FrameType, MineFrame
<1>13. stack' = Append(stack, f) /\ UNCHANGED clock
  BY DEF mine, Push, gross, burn, net
<1> HIDE DEF f
<1> QED
  BY <1>11, <1>12, <1>13, PushGood


\* The end of mine() only appends events and frees the lock.
LEMMA MineReturnsGood == IInv /\ mineReturns => IInv'
<1> SUFFICES ASSUME IInv, mineReturns PROVE IInv'
  OBVIOUS
<1>1. GoodGov /\ GoodMoney /\ log \in LogType
  BY GoodParts DEF IInv
<1>2. stack # <<>> /\ Pop /\ UNCHANGED clock
  BY DEF mineReturns
<1>3. Top \in MineFrame
  <2>1. Top \in FrameType /\ Top.op = "mine"
    BY <1>2, PopFacts DEF IInv, mineReturns
  <2> QED
    BY <2>1 DEF FrameType, MineFrame, WithdrawFrame
<1>4. log' \in LogType
  <2>1. pow.totalBurned \in Nat
    BY <1>1 DEF GoodMoney, PowType
  <2> DEFINE e == [work |-> Top.event.work, net |-> Top.event.net,
                   burned |-> Top.event.burned, era |-> Top.event.era,
                   totalBurned |-> pow.totalBurned]
  <2>2. e \in [work: Works, net: Nat, burned: Nat, era: Nat, totalBurned: Nat]
    BY <1>3, <2>1 DEF MineFrame
  <2>3. log' = Append(log, e)
    BY DEF mineReturns
  <2> HIDE DEF e
  <2> QED
    BY <1>1, <2>2, <2>3 DEF LogType
<1>5. GoodMoney'
  BY <1>1 DEF mineReturns, GoodMoney, PowType
<1>6. GoodGov'
  BY <1>1 DEF mineReturns, clock, GoodGov, Floor, Payable, Announced
<1> QED
  BY <1>2, <1>4, <1>5, <1>6, GoodPartsNext, PopGood

\* The end of executeWithdraw() changes nothing but the stack.
LEMMA WithdrawReturnsGood == IInv /\ withdrawReturns => IInv'
<1> SUFFICES ASSUME IInv, withdrawReturns PROVE IInv'
  OBVIOUS
<1>1. Good(World)'
  BY DEF IInv, withdrawReturns, Good, World, world, clock, Balanced, Floor, Payable, Announced
<1> QED
  BY <1>1, PopGood DEF withdrawReturns

\* A revert puts the saved world in place of the current one.
LEMMA RevertWorld ==
  ASSUME callReverts, Top.saved \in WorldType
  PROVE  World' = Top.saved
  BY DEF WorldType, World, callReverts

\* The world a revert restores was good when it was saved, and still is.
LEMMA RevertGood == IInv /\ callReverts => IInv'
<1> SUFFICES ASSUME IInv, callReverts PROVE IInv'
  OBVIOUS
<1>1. stack # <<>> /\ Pop /\ UNCHANGED clock
  BY DEF callReverts
<1>2. Len(stack) \in 1 .. Len(stack)
  BY <1>1, PopFacts DEF IInv
<1>3. Good(Top.saved)
  BY <1>2 DEF IInv, Top
<1>4. World' = Top.saved
  BY <1>3, RevertWorld DEF Good
<1>5. Good(World)'
  BY <1>1, <1>3, <1>4 DEF Good, Balanced, Floor, Payable, Announced, clock
<1> QED
  BY <1>1, <1>5, PopGood

\* Time passes: what was announced has been announced for longer.
LEMMA NewBlockGood ==
  ASSUME IInv, NEW dt \in TimeSteps, newBlock(dt)
  PROVE  IInv'
<1>1. dt \in Nat
  BY InputAssumption
<1>2. now' = now + dt /\ block' = block + 1 /\ stack' = stack /\ stack = <<>>
  BY DEF newBlock
<1>3. GoodGov /\ GoodMoney /\ log \in LogType
  BY GoodParts DEF IInv
<1>4. GoodGov'
  BY <1>1, <1>2, <1>3
     DEF newBlock, world, GoodGov, Floor, Payable, Announced, IInv, NoticeType
<1>5. GoodMoney' /\ (log \in LogType)'
  BY <1>3 DEF newBlock, world, GoodMoney
<1> QED
  BY <1>1, <1>2, <1>4, <1>5, GoodPartsNext DEF IInv


\* A governance call that pays nobody: only its own storage matters.
LEMMA GovGood ==
  ASSUME IInv, GoodGov', UNCHANGED <<pow, money, log, stack, clock>>
  PROVE  IInv'
<1>1. GoodMoney' /\ (log \in LogType)'
  BY GoodParts DEF IInv, GoodMoney
<1> QED
  BY <1>1, GoodPartsNext, KeepGood

\* Queue, execute and cancel of the difficulty keep floor and notice.
LEMMA DifficultyGood ==
  ASSUME IInv, NEW a \in Accounts,
         \/ \E d \in Difficulties : queueDifficulty(a, d)
         \/ executeDifficulty(a)
         \/ cancelDifficulty(a)
  PROVE  IInv'
<1>1. GoodGov /\ now \in Nat
  BY GoodParts DEF IInv
<1>2. CASE \E d \in Difficulties : queueDifficulty(a, d)
  <2>1. PICK d \in Difficulties : queueDifficulty(a, d)
    BY <1>2
  <2>2. d \in Nat /\ now + TIMELOCK_DELAY \in Nat
    BY <1>1, InputAssumption, GovernanceAssumption
  <2>3. gov' = [difficulty |-> gov.difficulty, owner |-> gov.owner,
                pendingDifficulty |-> d,
                pendingDifficultyAt |-> now + TIMELOCK_DELAY,
                pendingOwner |-> gov.pendingOwner,
                pendingOwnerAt |-> gov.pendingOwnerAt,
                pendingWithdrawAmount |-> gov.pendingWithdrawAmount,
                pendingWithdrawTo |-> gov.pendingWithdrawTo,
                pendingWithdrawAt |-> gov.pendingWithdrawAt]
    BY <1>1, <2>1 DEF queueDifficulty, GoodGov, GovType
  <2>4. notice' \in NoticeType /\ notice'.difficulty \in {notice.difficulty, now}
        /\ notice'.owner = notice.owner /\ notice'.withdraw = notice.withdraw
    BY <1>1, <2>1 DEF queueDifficulty, GoodGov, NoticeType, Since
  <2>5. notice.difficulty <= now /\ notice.difficulty \in Nat /\ d >= MIN_DIFFICULTY
    BY <1>1, <2>1
       DEF GoodGov, Announced, NoticeType, queueDifficulty, aboveFloor
  <2>6. gov' \in GovType
    BY <1>1, <2>2, <2>3 DEF GoodGov, GovType
  <2>7. Announced(gov, notice)'
    <3>1. now' = now
      BY <2>1 DEF queueDifficulty, clock
    <3> QED
      BY <1>1, <2>2, <2>3, <2>4, <2>5, <3>1, GovernanceAssumption
         DEF GoodGov, GovType, NoticeType, Announced
  <2>8. Floor(gov)' /\ Payable(gov)'
    BY <1>1, <2>3, <2>5 DEF GoodGov, Floor, Payable
  <2>9. GoodGov'
    BY <2>4, <2>6, <2>7, <2>8 DEF GoodGov
  <2> QED
    BY <2>1, <2>9, GovGood DEF queueDifficulty
<1>3. CASE executeDifficulty(a)
  <2>1. gov' = [difficulty |-> gov.pendingDifficulty, owner |-> gov.owner,
                pendingDifficulty |-> 0,
                pendingDifficultyAt |-> gov.pendingDifficultyAt,
                pendingOwner |-> gov.pendingOwner,
                pendingOwnerAt |-> gov.pendingOwnerAt,
                pendingWithdrawAmount |-> gov.pendingWithdrawAmount,
                pendingWithdrawTo |-> gov.pendingWithdrawTo,
                pendingWithdrawAt |-> gov.pendingWithdrawAt]
    BY <1>1, <1>3 DEF executeDifficulty, GoodGov, GovType
  <2>2. GoodGov'
    BY <1>1, <1>3, <2>1
       DEF executeDifficulty, GoodGov, GovType, Floor, Payable, Announced, clock
  <2> QED
    BY <1>3, <2>2, GovGood DEF executeDifficulty
<1>4. CASE cancelDifficulty(a)
  <2>1. gov' = [gov EXCEPT !.pendingDifficulty = 0] /\ gov' \in GovType
    BY <1>1, <1>4 DEF cancelDifficulty, GoodGov, GovType
  <2>2. GoodGov'
    BY <1>1, <1>4, <2>1
       DEF cancelDifficulty, GoodGov, GovType, Floor, Payable, Announced, clock
  <2> QED
    BY <1>4, <2>2, GovGood DEF cancelDifficulty
<1> QED
  BY <1>2, <1>3, <1>4

\* Queue, execute and cancel of the ownership keep the owner an account.
LEMMA OwnershipGood ==
  ASSUME IInv, NEW a \in Accounts,
         \/ \E o \in Heirs : queueOwnershipTransfer(a, o)
         \/ executeOwnershipTransfer(a)
         \/ cancelOwnershipTransfer(a)
  PROVE  IInv'
<1>1. GoodGov /\ now \in Nat
  BY GoodParts DEF IInv
<1>2. CASE \E o \in Heirs : queueOwnershipTransfer(a, o)
  <2>1. PICK o \in Heirs : queueOwnershipTransfer(a, o)
    BY <1>2
  <2>2. o \in Accounts /\ now + TIMELOCK_DELAY \in Nat
    BY <1>1, AccountAssumption, GovernanceAssumption
  <2>3. gov' = [difficulty |-> gov.difficulty, owner |-> gov.owner,
                pendingDifficulty |-> gov.pendingDifficulty,
                pendingDifficultyAt |-> gov.pendingDifficultyAt,
                pendingOwner |-> o,
                pendingOwnerAt |-> now + TIMELOCK_DELAY,
                pendingWithdrawAmount |-> gov.pendingWithdrawAmount,
                pendingWithdrawTo |-> gov.pendingWithdrawTo,
                pendingWithdrawAt |-> gov.pendingWithdrawAt]
    BY <1>1, <2>1 DEF queueOwnershipTransfer, GoodGov, GovType
  <2>4. notice' \in NoticeType /\ notice'.owner \in {notice.owner, now}
        /\ notice'.difficulty = notice.difficulty
        /\ notice'.withdraw = notice.withdraw
    BY <1>1, <2>1 DEF queueOwnershipTransfer, GoodGov, NoticeType, Since
  <2>5. notice.owner <= now /\ notice.owner \in Nat
    BY <1>1 DEF GoodGov, Announced, NoticeType
  <2>6. gov' \in GovType
    BY <1>1, <2>2, <2>3 DEF GoodGov, GovType, Owners
  <2>7. Announced(gov, notice)'
    <3>1. now' = now
      BY <2>1 DEF queueOwnershipTransfer, clock
    <3> QED
      BY <1>1, <2>2, <2>3, <2>4, <2>5, <3>1, GovernanceAssumption
         DEF GoodGov, GovType, NoticeType, Announced
  <2>8. Floor(gov)' /\ Payable(gov)'
    BY <1>1, <2>3 DEF GoodGov, Floor, Payable
  <2>9. GoodGov'
    BY <2>4, <2>6, <2>7, <2>8 DEF GoodGov
  <2> QED
    BY <2>1, <2>9, GovGood DEF queueOwnershipTransfer
<1>3. CASE executeOwnershipTransfer(a)
  <2>1. gov' = [difficulty |-> gov.difficulty, owner |-> gov.pendingOwner,
                pendingDifficulty |-> gov.pendingDifficulty,
                pendingDifficultyAt |-> gov.pendingDifficultyAt,
                pendingOwner |-> NoAddress,
                pendingOwnerAt |-> gov.pendingOwnerAt,
                pendingWithdrawAmount |-> gov.pendingWithdrawAmount,
                pendingWithdrawTo |-> gov.pendingWithdrawTo,
                pendingWithdrawAt |-> gov.pendingWithdrawAt]
    BY <1>1, <1>3 DEF executeOwnershipTransfer, GoodGov, GovType
  <2>2. gov.pendingOwner \in Accounts
    BY <1>1, <1>3
       DEF executeOwnershipTransfer, ownerQueued, GoodGov, GovType, Owners
  <2>3. GoodGov'
    BY <1>1, <1>3, <2>1, <2>2
       DEF executeOwnershipTransfer, GoodGov, GovType, Owners, Floor, Payable,
           Announced, clock
  <2> QED
    BY <1>3, <2>3, GovGood DEF executeOwnershipTransfer
<1>4. CASE cancelOwnershipTransfer(a)
  <2>1. gov' = [gov EXCEPT !.pendingOwner = NoAddress] /\ gov' \in GovType
    BY <1>1, <1>4 DEF cancelOwnershipTransfer, GoodGov, GovType, Owners
  <2>2. GoodGov'
    BY <1>1, <1>4, <2>1
       DEF cancelOwnershipTransfer, GoodGov, GovType, Floor, Payable, Announced,
           clock
  <2> QED
    BY <1>4, <2>2, GovGood DEF cancelOwnershipTransfer
<1> QED
  BY <1>2, <1>3, <1>4

\* A cleared withdrawal has no notice to keep.
LEMMA WithdrawClearedGood ==
  ASSUME GoodGov
  PROVE  /\ withdrawCleared =
              [difficulty |-> gov.difficulty, owner |-> gov.owner,
               pendingDifficulty |-> gov.pendingDifficulty,
               pendingDifficultyAt |-> gov.pendingDifficultyAt,
               pendingOwner |-> gov.pendingOwner,
               pendingOwnerAt |-> gov.pendingOwnerAt,
               pendingWithdrawAmount |-> 0, pendingWithdrawTo |-> NoAddress,
               pendingWithdrawAt |-> gov.pendingWithdrawAt]
         /\ withdrawCleared \in GovType
         /\ Floor(withdrawCleared) /\ Payable(withdrawCleared)
         /\ Announced(withdrawCleared, notice)
<1>1. withdrawCleared =
        [difficulty |-> gov.difficulty, owner |-> gov.owner,
         pendingDifficulty |-> gov.pendingDifficulty,
         pendingDifficultyAt |-> gov.pendingDifficultyAt,
         pendingOwner |-> gov.pendingOwner,
         pendingOwnerAt |-> gov.pendingOwnerAt,
         pendingWithdrawAmount |-> 0, pendingWithdrawTo |-> NoAddress,
         pendingWithdrawAt |-> gov.pendingWithdrawAt]
  <2>1. ASSUME NEW g, g = withdrawCleared
        PROVE  g = [difficulty |-> gov.difficulty, owner |-> gov.owner,
                    pendingDifficulty |-> gov.pendingDifficulty,
                    pendingDifficultyAt |-> gov.pendingDifficultyAt,
                    pendingOwner |-> gov.pendingOwner,
                    pendingOwnerAt |-> gov.pendingOwnerAt,
                    pendingWithdrawAmount |-> 0, pendingWithdrawTo |-> NoAddress,
                    pendingWithdrawAt |-> gov.pendingWithdrawAt]
    BY <2>1 DEF withdrawCleared, GoodGov, GovType
  <2> QED
    BY <2>1
<1>2. withdrawCleared \in GovType
  BY <1>1 DEF GoodGov, GovType, Owners
<1> QED
  BY <1>1, <1>2 DEF GoodGov, Floor, Payable, Announced

\* Queue, execute and cancel of the withdrawal keep the pool covered.
LEMMA WithdrawGood ==
  ASSUME IInv, NEW a \in Accounts,
         \/ \E v \in Amounts : queueWithdraw(a, v)
         \/ executeWithdraw(a)
         \/ cancelWithdraw(a)
  PROVE  IInv'
<1>1. GoodGov /\ GoodMoney /\ log \in LogType /\ now \in Nat
  BY GoodParts DEF IInv
<1>2. CASE \E v \in Amounts : queueWithdraw(a, v)
  <2>1. PICK v \in Amounts : queueWithdraw(a, v)
    BY <1>2
  <2>2. v \in Nat /\ withdrawDate \in Nat /\ withdrawDate = now + WITHDRAW_TIMELOCK
    BY <1>1, InputAssumption, GovernanceAssumption DEF withdrawDate
  <2>3. gov' = [difficulty |-> gov.difficulty, owner |-> gov.owner,
                pendingDifficulty |-> gov.pendingDifficulty,
                pendingDifficultyAt |-> gov.pendingDifficultyAt,
                pendingOwner |-> gov.pendingOwner,
                pendingOwnerAt |-> gov.pendingOwnerAt,
                pendingWithdrawAmount |-> v,
                pendingWithdrawTo |-> gov.owner,
                pendingWithdrawAt |-> withdrawDate]
    BY <1>1, <2>1 DEF queueWithdraw, GoodGov, GovType
  <2>4. notice' \in NoticeType /\ notice'.withdraw \in {notice.withdraw, now}
        /\ notice'.owner = notice.owner /\ notice'.difficulty = notice.difficulty
    BY <1>1, <2>1 DEF queueWithdraw, GoodGov, NoticeType, Since
  <2>5. notice.withdraw <= now /\ notice.withdraw \in Nat
    BY <1>1 DEF GoodGov, Announced, NoticeType
  <2>6. gov' \in GovType
    BY <1>1, <2>2, <2>3 DEF GoodGov, GovType, Owners
  <2>7. Announced(gov, notice)'
    <3>1. now' = now
      BY <2>1 DEF queueWithdraw, clock
    <3> QED
      BY <1>1, <2>2, <2>3, <2>4, <2>5, <3>1, GovernanceAssumption
         DEF GoodGov, GovType, NoticeType, Announced
  <2>8. Floor(gov)' /\ Payable(gov)'
    BY <1>1, <2>3 DEF GoodGov, GovType, Floor, Payable
  <2>9. GoodGov'
    BY <2>4, <2>6, <2>7, <2>8 DEF GoodGov
  <2> QED
    BY <2>1, <2>9, GovGood DEF queueWithdraw
<1>3. CASE executeWithdraw(a)
  <2> DEFINE v == gov.pendingWithdrawAmount
             f == [op |-> "withdraw", callee |-> gov.pendingWithdrawTo,
                   event |-> [amount |-> v], saved |-> World]
  <2>1. v \in Nat /\ v <= money.pool /\ gov.pendingWithdrawTo \in Accounts
    BY <1>1, <1>3 DEF executeWithdraw, GoodGov, GovType, Payable
  <2>2. money' = PayOwner(money, v) /\ gov' = withdrawCleared
        /\ UNCHANGED <<pow, log, notice, clock>>
    BY <1>3 DEF executeWithdraw
  <2>3. GoodGov'
    BY <1>1, <2>2, WithdrawClearedGood
       DEF GoodGov, Floor, Payable, Announced, clock
  <2>4. money' \in MoneyType
    BY <1>1, <2>1, <2>2, PayType DEF GoodMoney
  <2>5. GoodMoney'
    <3>1. /\ money'.pool = money.pool - v /\ money'.funded = money.funded
          /\ money'.toMiners = money.toMiners /\ money'.toBurn = money.toBurn
          /\ money'.toOwner = money.toOwner + v /\ pow' = pow
      BY <1>1, <2>1, <2>2, PayBalance DEF GoodMoney
    <3>2. /\ money.pool \in Nat /\ money.funded \in Nat
          /\ money.toMiners \in Nat /\ money.toBurn \in Nat
          /\ money.toOwner \in Nat
      BY <1>1 DEF GoodMoney, MoneyType
    <3> HIDE DEF v
    <3> QED
      BY <1>1, <2>1, <2>4, <3>1, <3>2 DEF GoodMoney
  <2>6. Good(World)'
    BY <1>1, <2>2, <2>3, <2>5, GoodPartsNext
  <2>7. f \in FrameType /\ f.saved = World
    BY <2>1 DEF FrameType, WithdrawFrame, IInv, Good
  <2>8. stack' = Append(stack, f)
    BY <1>3 DEF executeWithdraw, Push
  <2> HIDE DEF f
  <2> QED
    BY <2>2, <2>6, <2>7, <2>8, PushGood
<1>4. CASE cancelWithdraw(a)
  <2>1. GoodGov'
    BY <1>1, <1>4, WithdrawClearedGood
       DEF cancelWithdraw, GoodGov, Floor, Payable, Announced, clock
  <2> QED
    BY <1>4, <2>1, GovGood DEF cancelWithdraw
<1> QED
  BY <1>2, <1>3, <1>4

\* Every step of the contract keeps IInv.
LEMMA StepGood == IInv /\ [Next]_vars => IInv'
<1> SUFFICES ASSUME IInv, [Next]_vars PROVE IInv'
  OBVIOUS
<1>1. CASE UNCHANGED vars
  BY <1>1 DEF vars, IInv, Good, World, Balanced, Floor, Payable, Announced
<1>2. ASSUME NEW a \in Accounts, Mining(a) PROVE IInv'
  BY <1>2, FundGood, MineGood, InputAssumption DEF Mining
<1>3. ASSUME NEW a \in Accounts, Governing(a) PROVE IInv'
  BY <1>3, DifficultyGood, OwnershipGood, WithdrawGood DEF Governing
<1>4. ASSUME NEW dt \in TimeSteps, newBlock(dt) PROVE IInv'
  BY <1>4, NewBlockGood
<1> QED
  BY <1>1, <1>2, <1>3, <1>4, MineReturnsGood, WithdrawReturnsGood, RevertGood
     DEF Next


\* In every reachable state, the world and every world a revert could restore
\* are well typed, balanced, above the difficulty floor and announced.
THEOREM Inductive == Spec => []IInv
  BY InitGood, StepGood, PTL DEF Spec

\* Every variable keeps its type in every behaviour.
THEOREM TypeCorrect == Spec => []TypeOK
<1>1. IInv => TypeOK
  BY GoodParts DEF IInv, TypeOK, GoodGov, GoodMoney
<1> QED
  BY <1>1, Inductive, PTL

\* The books of the pool balance in every state, whatever reverts.
THEOREM PoolConserved == Spec => []Conservation
<1>1. IInv => Conservation
  BY DEF IInv, Good, Conservation
<1> QED
  BY <1>1, Inductive, PTL

\* No sequence of governance calls brings the difficulty below its floor.
THEOREM FloorKept == Spec => []DifficultyFloor
<1>1. IInv => DifficultyFloor
  BY GoodParts DEF IInv, DifficultyFloor, GoodGov, Floor
<1> QED
  BY <1>1, Inductive, PTL

-----------------------------------------------------------------------------
(* Timelocks *)

\* Difficulty and owner change only to what was announced a full delay before.
ChangeAnnounced ==
  /\ Forward /\ gov'.difficulty # gov.difficulty =>
       /\ gov'.difficulty = gov.pendingDifficulty
       /\ now - notice.difficulty >= TIMELOCK_DELAY
  /\ Forward /\ gov'.owner # gov.owner =>
       /\ gov'.owner = gov.pendingOwner
       /\ now - notice.owner >= TIMELOCK_DELAY

\* A step that is no revert changes difficulty and owner only when announced.
LEMMA GovernanceStep ==
  ASSUME IInv, NEW a \in Accounts, Governing(a)
  PROVE  ChangeAnnounced
<1>1. GoodGov /\ now \in Nat
  BY GoodParts DEF IInv
<1>2. CASE executeDifficulty(a)
  <2>1. /\ gov.pendingDifficulty # 0 /\ now >= gov.pendingDifficultyAt
        /\ gov'.difficulty = gov.pendingDifficulty /\ gov'.owner = gov.owner
    BY <1>1, <1>2 DEF executeDifficulty, timelockOver, GoodGov, GovType
  <2> QED
    BY <1>1, <2>1, GovernanceAssumption
       DEF ChangeAnnounced, GoodGov, Announced, GovType, NoticeType
<1>3. CASE executeOwnershipTransfer(a)
  <2>1. /\ gov.pendingOwner # NoAddress /\ now >= gov.pendingOwnerAt
        /\ gov'.owner = gov.pendingOwner /\ gov'.difficulty = gov.difficulty
    BY <1>1, <1>3
       DEF executeOwnershipTransfer, timelockOver, ownerQueued, GoodGov, GovType
  <2> QED
    BY <1>1, <2>1, GovernanceAssumption
       DEF ChangeAnnounced, GoodGov, Announced, GovType, NoticeType
<1>4. CASE ~executeDifficulty(a) /\ ~executeOwnershipTransfer(a)
  <2>1. gov'.difficulty = gov.difficulty /\ gov'.owner = gov.owner
    BY <1>1, <1>4
       DEF Governing, queueDifficulty, cancelDifficulty, queueOwnershipTransfer,
           cancelOwnershipTransfer, queueWithdraw, executeWithdraw,
           cancelWithdraw, withdrawCleared, GoodGov, GovType
  <2> QED
    BY <2>1 DEF ChangeAnnounced
<1> QED
  BY <1>2, <1>3, <1>4

\* Every change of difficulty or owner was readable on chain, unchanged, for the
\* whole TIMELOCK_DELAY before it.
THEOREM TimelockHolds == Spec => ChangesAnnounced
<1>1. IInv /\ [Next]_vars => [ChangeAnnounced]_vars
  <2> SUFFICES ASSUME IInv, Next PROVE ChangeAnnounced
    BY DEF vars
  <2>1. ASSUME NEW a \in Accounts, Mining(a) PROVE gov' = gov
    BY <2>1 DEF Mining, fund, mine
  <2>2. CASE callReverts
    <3>1. Len(stack') = Len(stack) - 1 /\ Len(stack) \in Nat
      BY <2>2, PopFacts DEF IInv, callReverts
    <3> QED
      BY <3>1 DEF ChangeAnnounced, Forward
  <2>3. CASE mineReturns \/ withdrawReturns \/ \E dt \in TimeSteps : newBlock(dt)
    BY <2>3 DEF mineReturns, withdrawReturns, newBlock, world, ChangeAnnounced
  <2> QED
    BY <2>1, <2>2, <2>3, GovernanceStep DEF Next, ChangeAnnounced
<1> QED
  BY <1>1, Inductive, PTL DEF Spec, ChangesAnnounced, ChangeAnnounced

\* A call that opens and closes no frame keeps the nesting of those open.
LEMMA StackKeptNesting ==
  ASSUME IInv, StackInv, UNCHANGED stack, UNCHANGED clock,
         pow'.status = pow.status, money'.toOwner = money.toOwner,
         Executable(gov)' => Executable(gov)
  PROVE  StackInv'
<1>1. Nesting(World, Len(stack))'
  BY DEF StackInv, Nesting, World
<1>2. now' = now
  BY DEF clock
<1> QED
  BY <1>1, <1>2 DEF StackInv, Nesting, Opened, Executable

\* A call that opens a frame from a world that allows it keeps the nesting.
LEMMA PushNesting ==
  ASSUME IInv, IInv', StackInv, NEW f, stack' = Append(stack, f), f.saved = World,
         UNCHANGED clock, Opened(f),
         pow'.status = IF f.op = "mine" THEN _ENTERED ELSE pow.status,
         f.op \in {"mine", "withdraw"},
         Executable(gov)' => Executable(gov) /\ f.op = "mine",
         money'.toOwner >= money.toOwner
  PROVE  StackInv'
<1>n. PICK n \in Nat : n = Len(stack)
  BY DEF IInv
<1>1. /\ n = Len(stack) /\ n \in Nat
      /\ Len(stack') = n + 1 /\ stack'[n + 1] = f
      /\ \A i \in 1 .. n : stack'[i] = stack[i]
  BY <1>n DEF IInv
<1>2. now' = now
  BY DEF clock
<1>3. \A i \in 1 .. n : stack[i].saved.money.toOwner \in Nat
  BY <1>n DEF IInv, Good, WorldType, MoneyType
<1>4. money.toOwner \in Nat /\ World.money = money
  BY DEF IInv, Good, WorldType, MoneyType, World
<1>5. Nesting(World, n) /\ Opened(f)
  BY <1>n DEF StackInv
<1>6. Nesting(World, Len(stack))'
  <2>1. \A i \in 1 .. n + 1 : i = n + 1 \/ i \in 1 .. n
    BY <1>1
  <2>2. n + 1 \in 1 .. n + 1 /\ \A i \in 1 .. n : i \in 1 .. n + 1
    BY <1>1
  <2>3. (pow'.status = _ENTERED) <=> (\E i \in 1 .. n + 1 : stack'[i].op = "mine")
    BY <1>1, <1>5, <2>1, <2>2 DEF Nesting, World
  <2>4. (\E i \in 1 .. n + 1 : stack'[i].op = "withdraw") => ~Executable(gov)'
    BY <1>1, <1>5, <2>1, <2>2 DEF Nesting, World
  <2>5. money'.toOwner \in Nat
    BY DEF IInv, Good, World, WorldType, MoneyType
  <2>6. \A i \in 1 .. n + 1 : stack'[i].saved.money.toOwner <= money'.toOwner
    BY <1>1, <1>3, <1>4, <1>5, <2>1, <2>5 DEF Nesting
  <2> QED
    BY <1>1, <2>3, <2>4, <2>6 DEF Nesting, World
<1>7. ASSUME NEW i \in 1 .. n
      PROVE  Nesting(stack[i].saved, i - 1)' /\ Opened(stack[i])'
  <2>1. Nesting(stack[i].saved, i - 1) /\ Opened(stack[i]) /\ stack'[i] = stack[i]
    BY <1>1 DEF StackInv
  <2>2. \A j \in 1 .. i - 1 : stack'[j] = stack[j]
    BY <1>1
  <2> QED
    BY <1>2, <2>1, <2>2 DEF Nesting, Opened, Executable
<1>8. Nesting(f.saved, n)' /\ Opened(f)'
  <2>1. f.saved \in WorldType /\ Nesting(f.saved, n)
    BY <1>5 DEF IInv, Good
  <2>2. Nesting(f.saved, n)'
    BY <1>1, <1>2, <2>1 DEF Nesting, Executable
  <2> QED
    BY <1>2, <2>2 DEF Opened, Executable
<1> QED
  <2>1. \A i \in 1 .. n + 1 : i = n + 1 \/ i \in 1 .. n
    BY <1>1
  <2>2. ASSUME NEW i \in 1 .. n + 1
        PROVE  Nesting(stack[i].saved, i - 1)' /\ Opened(stack[i])'
    <3>1. CASE i \in 1 .. n
      BY <1>1, <1>7, <3>1
    <3>2. CASE i = n + 1
      <4>1. i - 1 = n /\ stack'[i] = f
        BY <1>1, <3>2
      <4>2. Opened(stack[i])'
        BY <1>8, <4>1 DEF Opened, Executable
      <4>3. Nesting(stack[i].saved, i - 1)'
        BY <1>8, <4>1 DEF Nesting, Executable
      <4> QED
        BY <4>2, <4>3
    <3> QED
      BY <2>1, <3>1, <3>2
  <2> QED
    BY <1>1, <1>6, <2>2 DEF StackInv

\* Closing the last frame keeps the nesting of those below it.
LEMMA PopNesting ==
  ASSUME IInv, StackInv, stack # <<>>, Pop, UNCHANGED clock,
         \A n \in Nat : n = Len(stack) - 1 => Nesting(World', n)
  PROVE  StackInv'
<1>1. PICK n \in Nat : n = Len(stack) - 1
  BY PopFacts DEF IInv
<1>2. Len(stack') = n /\ \A i \in 1 .. n : stack'[i] = stack[i]
  BY <1>1, PopFacts DEF IInv
<1>3. now' = now
  BY DEF clock
<1>4. Nesting(World', n)
  BY <1>1
<1>5. Nesting(World, Len(stack))'
  BY <1>2, <1>3, <1>4 DEF Nesting, Executable
<1>6. \A i \in 1 .. n : i \in 1 .. Len(stack)
  BY <1>1, PopFacts DEF IInv
<1>7. \A i \in 1 .. n : Nesting(stack[i].saved, i - 1)' /\ Opened(stack[i])'
  BY <1>2, <1>3, <1>6 DEF StackInv, Nesting, Opened, Executable
<1> QED
  BY <1>2, <1>5, <1>7 DEF StackInv


\* mine() opens its frame with the lock free.
LEMMA MineNesting ==
  ASSUME IInv, IInv', StackInv, NEW a \in Accounts, NEW n \in Nonces,
         NEW w \in Nat, mine(a, n, w)
  PROVE  StackInv'
<1>1. PICK f : /\ stack' = Append(stack, f) /\ f.saved = World /\ f.op = "mine"
  BY DEF mine, Push
<1>2. GoodGov /\ GoodMoney /\ log \in LogType
  BY GoodParts DEF IInv
<1>3. pow'.status = _ENTERED /\ pow.status = _NOT_ENTERED
  BY <1>2 DEF mine, nonReentrant, GoodMoney, PowType
<1>4. money'.toOwner = money.toOwner /\ money.toOwner \in Nat
  BY <1>2 DEF mine, GoodMoney, MoneyType, PayMiner, PayBurn
<1>5. gov' = gov /\ now' = now
  BY DEF mine, clock
<1>6. Opened(f) /\ (Executable(gov)' => Executable(gov))
  BY <1>1, <1>3, <1>5 DEF Opened, World, Executable
<1> QED
  BY <1>1, <1>3, <1>4, <1>5, <1>6, PushNesting DEF mine

\* executeWithdraw() opens its frame and leaves nothing executable.
LEMMA ExecuteNesting ==
  ASSUME IInv, IInv', StackInv, NEW a \in Accounts, executeWithdraw(a)
  PROVE  StackInv'
<1>1. PICK f : /\ stack' = Append(stack, f) /\ f.saved = World
               /\ f.op = "withdraw"
  BY DEF executeWithdraw, Push
<1>2. GoodGov /\ GoodMoney /\ log \in LogType
  BY GoodParts DEF IInv
<1>3. gov.pendingWithdrawAmount \in Nat /\ money.toOwner \in Nat
  BY <1>2 DEF GoodGov, GovType, GoodMoney, MoneyType
<1>4. money'.toOwner = money.toOwner + gov.pendingWithdrawAmount
  BY <1>2, <1>3, PayBalance DEF executeWithdraw, GoodMoney
<1>5. gov'.pendingWithdrawAmount = 0 /\ pow' = pow
  BY <1>2, WithdrawClearedGood DEF executeWithdraw
<1>6. Opened(f) /\ ~Executable(gov)'
  BY <1>1, <1>5 DEF Opened, World, Executable, executeWithdraw, timelockOver
<1>7. money'.toOwner >= money.toOwner
  BY <1>3, <1>4
<1> QED
  BY <1>1, <1>5, <1>6, <1>7, PushNesting DEF executeWithdraw

\* The other governance calls neither open a frame nor make a withdrawal
\* executable: one that is queued now is executable a full timelock later.
LEMMA GovernNesting ==
  ASSUME IInv, StackInv, NEW a \in Accounts, Governing(a), ~executeWithdraw(a)
  PROVE  StackInv'
<1>1. GoodGov /\ now \in Nat
  BY GoodParts DEF IInv
<1>2. UNCHANGED <<pow, money, stack, clock>> /\ now' = now
  BY DEF Governing, queueDifficulty, executeDifficulty, cancelDifficulty,
         queueOwnershipTransfer, executeOwnershipTransfer,
         cancelOwnershipTransfer, queueWithdraw, cancelWithdraw, clock
<1>3. Executable(gov)' => Executable(gov)
  <2>1. ASSUME NEW v \in Amounts, queueWithdraw(a, v)
        PROVE  gov'.pendingWithdrawAt = now + WITHDRAW_TIMELOCK
    BY <1>1, <2>1 DEF queueWithdraw, withdrawDate, GoodGov, GovType
  <2>2. ASSUME NEW v \in Amounts, queueWithdraw(a, v)
        PROVE  ~Executable(gov)'
    BY <1>1, <1>2, <2>1, <2>2, GovernanceAssumption DEF Executable
  <2>3. CASE cancelWithdraw(a)
    BY <1>1, <2>3, WithdrawClearedGood DEF cancelWithdraw, Executable
  <2>4. CASE ~cancelWithdraw(a) /\ ~\E v \in Amounts : queueWithdraw(a, v)
    <3>1. /\ gov'.pendingWithdrawAmount = gov.pendingWithdrawAmount
          /\ gov'.pendingWithdrawAt = gov.pendingWithdrawAt
      BY <1>1, <2>4
         DEF Governing, queueDifficulty, executeDifficulty, cancelDifficulty,
             queueOwnershipTransfer, executeOwnershipTransfer,
             cancelOwnershipTransfer, GoodGov, GovType
    <3> QED
      BY <1>2, <3>1 DEF Executable
  <2> QED
    BY <2>2, <2>3, <2>4
<1> QED
  BY <1>2, <1>3, StackKeptNesting

\* A return or a revert keeps the nesting.
LEMMA ReturnNesting ==
  ASSUME IInv, StackInv, mineReturns \/ withdrawReturns \/ callReverts
  PROVE  StackInv'
<1>1. stack # <<>> /\ Pop /\ UNCHANGED clock
  BY DEF mineReturns, withdrawReturns, callReverts
<1>2. Len(stack) \in Nat \ {0} /\ Top \in FrameType
  BY <1>1, PopFacts DEF IInv
<1>3. /\ Nesting(Top.saved, Len(stack) - 1) /\ Opened(Top)
      /\ Nesting(World, Len(stack)) /\ Top.saved \in WorldType
  BY <1>2 DEF StackInv, Top, IInv, Good
<1>4. ASSUME NEW n \in Nat, n = Len(stack) - 1 PROVE Nesting(World', n)
  <2>1. /\ \A i \in 1 .. n : i \in 1 .. Len(stack)
        /\ \A i \in 1 .. Len(stack) : i \in 1 .. n \/ stack[i] = Top
        /\ Len(stack) \in 1 .. Len(stack) /\ stack[Len(stack)] = Top
    BY <1>2, <1>4 DEF Top
  <2>2. CASE mineReturns
    <3>1. gov' = gov /\ money' = money /\ pow'.status = _NOT_ENTERED
      BY <2>2, GoodParts DEF mineReturns, IInv, GoodMoney, PowType
    <3>2. ~\E i \in 1 .. n : stack[i].op = "mine"
      BY <1>3, <1>4, <2>2
         DEF Nesting, Opened, mineReturns, _NOT_ENTERED, _ENTERED
    <3> QED
      BY <1>3, <2>1, <3>1, <3>2
         DEF Nesting, World, _NOT_ENTERED, _ENTERED, Executable
  <2>3. CASE withdrawReturns
    <3>1. gov' = gov /\ money' = money /\ pow' = pow /\ Top.op = "withdraw"
      BY <2>3 DEF withdrawReturns, world
    <3> QED
      BY <1>3, <2>1, <3>1 DEF Nesting, World, Executable
  <2>4. CASE callReverts
    BY <1>3, <1>4, <2>4, RevertWorld
  <2> QED
    BY <2>2, <2>3, <2>4
<1> QED
  BY <1>1, <1>4, PopNesting


\* Every step of the contract keeps StackInv.
LEMMA StepNesting == IInv /\ StackInv /\ [Next]_vars => StackInv'
<1> SUFFICES ASSUME IInv, StackInv, [Next]_vars PROVE StackInv'
  OBVIOUS
<1>1. IInv'
  BY StepGood
<1>2. CASE UNCHANGED vars
  BY <1>2 DEF vars, StackInv, Nesting, Opened, Executable, World
<1>3. ASSUME NEW a \in Accounts, NEW v \in Amounts, fund(a, v) PROVE StackInv'
  <2>1. money'.toOwner = money.toOwner /\ gov' = gov /\ pow' = pow /\ now' = now
    BY <1>3, GoodParts DEF fund, IInv, GoodMoney, MoneyType, clock
  <2> QED
    BY <1>3, <2>1, StackKeptNesting DEF fund, Executable
<1>4. ASSUME NEW a \in Accounts, Governing(a) PROVE StackInv'
  BY <1>1, <1>4, GovernNesting, ExecuteNesting
<1>5. ASSUME NEW dt \in TimeSteps, newBlock(dt) PROVE StackInv'
  BY <1>5 DEF newBlock, world, StackInv, Nesting, World
<1>6. ASSUME NEW a \in Accounts, NEW n \in Nonces, NEW w \in 0 .. MaxBlock,
             mine(a, n, w)
      PROVE  StackInv'
  BY <1>1, <1>6, MineNesting, InputAssumption
<1> QED
  BY <1>2, <1>3, <1>4, <1>5, <1>6, ReturnNesting DEF Next, Mining

\* No call is open at the start.
LEMMA InitNesting == Init => StackInv
  BY DEF Init, StackInv, Nesting, World, _NOT_ENTERED, _ENTERED

\* Whatever accounts with code do when they are paid, calls nest one way only.
THEOREM NestingInvariant == Spec => []StackInv
  BY InitNesting, StepNesting, Inductive, PTL DEF Spec

\* The lock is held exactly while one mine() waits for its miner, and no sequence
\* of nested, returning and reverting calls leaves it held.
THEOREM LockSound == Spec => []LockHeldByOneMine
<1>1. IInv /\ StackInv => LockHeldByOneMine
  <2> SUFFICES ASSUME IInv, StackInv PROVE LockHeldByOneMine
    OBVIOUS
  <2>1. (pow.status = _ENTERED) <=> (MineFrames # {})
    BY DEF StackInv, Nesting, World, MineFrames
  <2>2. ASSUME NEW i \in MineFrames, NEW j \in MineFrames, i < j PROVE FALSE
    <3>1. i \in 1 .. j - 1
      BY <2>2 DEF MineFrames, IInv
    <3>2. stack[i].op = "mine" /\ stack[j].op = "mine"
      BY DEF MineFrames
    <3>3. Nesting(stack[j].saved, j - 1) /\ Opened(stack[j])
      BY DEF MineFrames, StackInv
    <3> QED
      BY <3>1, <3>2, <3>3 DEF Nesting, Opened, _NOT_ENTERED, _ENTERED
  <2>3. \A i, j \in MineFrames : i \in Int /\ j \in Int
    BY DEF MineFrames
  <2>4. \A i, j \in MineFrames : i = j
    BY <2>2, <2>3
  <2> QED
    BY <2>1, <2>4 DEF LockHeldByOneMine
<1> QED
  BY <1>1, Inductive, NestingInvariant, PTL

\* executeWithdraw() needs no reentrancy guard: two are never open at once.
THEOREM WithdrawalsNeverNest == Spec => []NoNestedWithdrawal
<1>1. IInv /\ StackInv => NoNestedWithdrawal
  <2> SUFFICES ASSUME IInv, StackInv PROVE NoNestedWithdrawal
    OBVIOUS
  <2>1. ASSUME NEW i \in WithdrawFrames, NEW j \in WithdrawFrames, i < j
        PROVE  FALSE
    <3>1. i \in 1 .. j - 1
      BY <2>1 DEF WithdrawFrames, IInv
    <3>2. stack[i].op = "withdraw" /\ stack[j].op = "withdraw"
      BY DEF WithdrawFrames
    <3>3. Nesting(stack[j].saved, j - 1) /\ Opened(stack[j])
      BY DEF WithdrawFrames, StackInv
    <3> QED
      BY <3>1, <3>2, <3>3 DEF Nesting, Opened
  <2>2. \A i, j \in WithdrawFrames : i \in Int /\ j \in Int
    BY DEF WithdrawFrames
  <2> QED
    BY <2>1, <2>2 DEF NoNestedWithdrawal
<1> QED
  BY <1>1, Inductive, NestingInvariant, PTL

-----------------------------------------------------------------------------
(* Withdrawals *)

WithdrawalAnnounced ==
  money'.toOwner > money.toOwner =>
    /\ money'.toOwner - money.toOwner = gov.pendingWithdrawAmount
    /\ Len(stack') > Len(stack)
    /\ stack'[Len(stack')].callee = gov.pendingWithdrawTo
    /\ now - notice.withdraw >= WITHDRAW_TIMELOCK
-----------------------------------------------------------------------------
(* Nested calls *)

\* Coins leave for an owner only as announced a full WITHDRAW_TIMELOCK before.
THEOREM WithdrawTimelockHolds == Spec => WithdrawalsAnnounced
<1>1. IInv /\ StackInv /\ [Next]_vars => [WithdrawalAnnounced]_vars
  <2> SUFFICES ASSUME IInv, StackInv, Next PROVE WithdrawalAnnounced
    BY DEF vars
  <2>1. GoodGov /\ GoodMoney /\ money.toOwner \in Nat /\ now \in Nat
    BY GoodParts DEF IInv, GoodMoney, MoneyType
  <2>2. ASSUME NEW a \in Accounts, executeWithdraw(a) PROVE WithdrawalAnnounced
    <3>1. PICK f : stack' = Append(stack, f) /\ f.callee = gov.pendingWithdrawTo
      BY <2>2 DEF executeWithdraw, Push
    <3>2. Len(stack') = Len(stack) + 1 /\ stack'[Len(stack')] = f
          /\ Len(stack) \in Nat
      BY <3>1 DEF IInv
    <3>3. /\ gov.pendingWithdrawAmount # 0 /\ gov.pendingWithdrawAmount \in Nat
          /\ now >= gov.pendingWithdrawAt
      BY <2>1, <2>2 DEF executeWithdraw, timelockOver, GoodGov, GovType
    <3>4. money'.toOwner = money.toOwner + gov.pendingWithdrawAmount
      BY <2>1, <2>2, <3>3, PayBalance DEF executeWithdraw, GoodMoney
    <3>5. now - notice.withdraw >= WITHDRAW_TIMELOCK
      BY <2>1, <3>3, GovernanceAssumption
         DEF GoodGov, Announced, GovType, NoticeType
    <3> QED
      BY <2>1, <3>1, <3>2, <3>3, <3>4, <3>5 DEF WithdrawalAnnounced
  <2>3. CASE callReverts
    <3>1. Len(stack) \in 1 .. Len(stack)
      BY <2>3, PopFacts DEF IInv, callReverts
    <3>2. Top.saved.money.toOwner <= money.toOwner
      BY <3>1 DEF StackInv, Nesting, Top, World
    <3>3. Top.saved.money.toOwner \in Nat
      BY <3>1 DEF IInv, Good, WorldType, MoneyType, Top
    <3>4. money'.toOwner = Top.saved.money.toOwner
      BY <2>3 DEF callReverts
    <3> QED
      BY <2>1, <3>2, <3>3, <3>4 DEF WithdrawalAnnounced
  <2>4. CASE ~callReverts /\ ~\E a \in Accounts : executeWithdraw(a)
    <3>1. money'.toOwner = money.toOwner
      BY <2>1, <2>4
         DEF Next, Mining, Governing, fund, mine, mineReturns, withdrawReturns,
             newBlock, world, queueDifficulty, executeDifficulty,
             cancelDifficulty, queueOwnershipTransfer, executeOwnershipTransfer,
             cancelOwnershipTransfer, queueWithdraw, cancelWithdraw, PayMiner,
             PayBurn, GoodMoney, MoneyType
    <3> QED
      BY <2>1, <3>1 DEF WithdrawalAnnounced
  <2> QED
    BY <2>2, <2>3, <2>4
<1> QED
  BY <1>1, Inductive, NestingInvariant, PTL
     DEF Spec, WithdrawalsAnnounced, WithdrawalAnnounced

-----------------------------------------------------------------------------
(* The schedule never rises. *)

\* Dividing by more gives less.
LEMMA DivisorAntitone ==
  ASSUME NEW b \in Nat, NEW p \in Nat \ {0}, NEW q \in Nat \ {0}, p <= q
  PROVE  b \div q <= b \div p
<1> DEFINE u == b \div q
           v == b \div p
<1>1. u \in Nat /\ v \in Nat /\ q * u <= b /\ b < p * (v + 1)
  OBVIOUS
<1> HIDE DEF u, v
<1>2. p * u <= q * u
  BY <1>1
<1>3. p * u < p * (v + 1)
  BY <1>1, <1>2
<1>4. u < v + 1
  BY <1>1, <1>3
<1> QED
  BY <1>1, <1>4 DEF u, v

\* Dividing more gives more: a later proof is of no earlier era.
LEMMA EraMonotone == \A m, n \in Nat : m <= n => EraOf(m) <= EraOf(n)
<1> SUFFICES ASSUME NEW m \in Nat, NEW n \in Nat, m <= n
             PROVE  EraOf(m) <= EraOf(n)
  OBVIOUS
<1>h. PICK h \in Nat \ {0} : h = HALVING_INTERVAL
  BY TokenomicsAssumption
<1> DEFINE u == m \div h
           v == n \div h
<1>1. u \in Nat /\ v \in Nat /\ h * u <= m /\ n < h * (v + 1)
  OBVIOUS
<1> HIDE DEF u, v
<1>2. h * u < h * (v + 1)
  BY <1>1
<1>3. u < v + 1
  BY <1>1, <1>2
<1> QED
  BY <1>h, <1>1, <1>3 DEF u, v, EraOf

\* The reward of a later era is never higher.
LEMMA RewardAntitone == \A d, e \in Nat : d <= e => RewardIn(e) <= RewardIn(d)
<1> SUFFICES ASSUME NEW d \in Nat, NEW e \in Nat, d <= e
             PROVE  RewardIn(e) <= RewardIn(d)
  OBVIOUS
<1>1. MIN_REWARD \in Nat /\ BASE_REWARD \in Nat
  BY TokenomicsAssumption
<1>2. ASSUME NEW k \in Nat, k < 7 PROVE Pow2[k + 1] \in Nat \ {0} /\ Halved(k) \in Nat
  <2>1. k \in {0, 1, 2, 3, 4, 5, 6}
    BY <1>2
  <2>2. Pow2[k + 1] \in Nat \ {0}
    BY <2>1 DEF Pow2
  <2> QED
    BY <1>1, <2>2 DEF Halved
<1>3. CASE e < 7
  <2>1. d \in {0, 1, 2, 3, 4, 5, 6} /\ e \in {0, 1, 2, 3, 4, 5, 6}
    BY <1>3
  <2>2. Pow2[d + 1] <= Pow2[e + 1]
    BY <2>1 DEF Pow2
  <2>3. Halved(e) <= Halved(d)
    BY <1>1, <1>2, <1>3, <2>2, DivisorAntitone DEF Halved
  <2> QED
    BY <1>1, <1>2, <1>3, <2>3 DEF RewardIn
<1>4. CASE e >= 7
  <2>1. RewardIn(e) = MIN_REWARD
    BY <1>4 DEF RewardIn
  <2>2. RewardIn(d) >= MIN_REWARD
    BY <1>1, <1>2 DEF RewardIn
  <2> QED
    BY <1>1, <2>1, <2>2, RewardType
<1> QED
  BY <1>3, <1>4

-----------------------------------------------------------------------------
(* The strengthening: what the events of a world say of its storage.         *)

LogWorks(l) == {l[i].work : i \in 1 .. Len(l)}
LastBurned(l) == IF l = <<>> THEN 0 ELSE l[Len(l)].totalBurned

\* EventsInOrder, of any log.
Ordered(l) ==
  \A i \in 1 .. Len(l) :
    /\ l[i].era = EraOf(InitialTotalMined + i - 1)
    /\ l[i].net + l[i].burned = RewardIn(l[i].era)
    /\ l[i].totalBurned = l[i].burned + (IF i = 1 THEN 0 ELSE l[i - 1].totalBurned)
    /\ i > 1 => l[i].net + l[i].burned <= l[i - 1].net + l[i - 1].burned

\* No mine() is open: every used proof has its event.
Settled(p, l) ==
  /\ Ordered(l)
  /\ p.used = LogWorks(l)
  /\ IsFiniteSet(p.used) /\ Cardinality(p.used) = Len(l)
  /\ p.totalMined = InitialTotalMined + Len(l)
  /\ p.totalBurned = LastBurned(l)

\* One is open, and e will be its event.
Awaiting(p, l, e) ==
  /\ Ordered(l)
  /\ p.used = LogWorks(l) \cup {e.work}
  /\ IsFiniteSet(p.used) /\ Cardinality(p.used) = Len(l) + 1
  /\ p.totalMined = InitialTotalMined + Len(l) + 1
  /\ p.totalBurned = LastBurned(l) + e.burned
  /\ e.era = EraOf(InitialTotalMined + Len(l))
  /\ e.net + e.burned = RewardIn(e.era)

\* A world with the first n frames below it.
Told(p, l, n) ==
  /\ p.status = _NOT_ENTERED => Settled(p, l)
  /\ \A i \in 1 .. n : stack[i].op = "mine" => Awaiting(p, l, stack[i].event)

HistoryInv ==
  /\ Told(pow, log, Len(stack))
  /\ \A i \in 1 .. Len(stack) :
       Told(stack[i].saved.pow, stack[i].saved.log, i - 1)

LEMMA InitHistory == Init => HistoryInv
<1> SUFFICES ASSUME Init PROVE HistoryInv
  OBVIOUS
<1>1. IsFiniteSet({}) /\ Cardinality({}) = 0
  BY FS_EmptySet
<1>2. LogWorks(<<>>) = {} /\ LastBurned(<<>>) = 0 /\ Ordered(<<>>)
  BY DEF LogWorks, LastBurned, Ordered
<1>3. Settled(pow, log)
  BY <1>1, <1>2, InputAssumption DEF Init, Settled
<1> QED
  BY <1>3 DEF Init, HistoryInv, Told

\* A call that leaves mining alone and opens or closes no frame.
LEMMA KeepHistory ==
  ASSUME HistoryInv, UNCHANGED <<pow, log, stack>>
  PROVE  HistoryInv'
  BY DEF HistoryInv, Told, Settled, Awaiting

\* A call that opens a frame.
LEMMA PushHistory ==
  ASSUME IInv, HistoryInv, NEW f, stack' = Append(stack, f), f.saved = World,
         \A n \in Nat : n = Len(stack) => Told(pow', log', n),
         f.op = "mine" => Awaiting(pow', log', f.event)
  PROVE  HistoryInv'
<1>n. PICK n \in Nat : n = Len(stack)
  BY DEF IInv
<1>1. /\ Len(stack') = n + 1 /\ stack'[n + 1] = f
      /\ \A i \in 1 .. n : stack'[i] = stack[i]
  BY <1>n DEF IInv
<1>2. \A i \in 1 .. n + 1 : i = n + 1 \/ i \in 1 .. n
  BY <1>n
<1>3. Told(pow, log, Len(stack))'
  BY <1>n, <1>1, <1>2 DEF Told
<1>4. ASSUME NEW i \in 1 .. n + 1
      PROVE  Told(stack[i].saved.pow, stack[i].saved.log, i - 1)'
  <2>1. CASE i \in 1 .. n
    <3>1. /\ stack'[i] = stack[i]
          /\ \A j \in 1 .. i - 1 : stack'[j] = stack[j]
      BY <1>1, <2>1
    <3> QED
      BY <1>n, <2>1, <3>1 DEF HistoryInv, Told
  <2>2. CASE i = n + 1
    <3>1. stack'[i].saved.pow = pow /\ stack'[i].saved.log = log /\ i - 1 = n
      BY <1>1, <2>2 DEF World
    <3>2. Told(pow, log, n)
      BY <1>n DEF HistoryInv
    <3> QED
      BY <1>1, <3>1, <3>2 DEF Told
  <2> QED
    BY <1>2, <2>1, <2>2
<1> QED
  BY <1>1, <1>3, <1>4 DEF HistoryInv

\* A call that closes one.
LEMMA PopHistory ==
  ASSUME IInv, HistoryInv, stack # <<>>, Pop,
         \A n \in Nat : n = Len(stack) - 1 => Told(pow', log', n)
  PROVE  HistoryInv'
<1>1. PICK n \in Nat : n = Len(stack) - 1
  BY PopFacts DEF IInv
<1>2. Len(stack') = n /\ \A i \in 1 .. n : stack'[i] = stack[i]
  BY <1>1, PopFacts DEF IInv
<1>3. \A i \in 1 .. n : i \in 1 .. Len(stack)
  BY <1>1, PopFacts DEF IInv
<1>4. Told(pow, log, Len(stack))'
  BY <1>1, <1>2 DEF Told
<1>5. ASSUME NEW i \in 1 .. n
      PROVE  Told(stack[i].saved.pow, stack[i].saved.log, i - 1)'
  <2>1. /\ stack'[i] = stack[i]
        /\ \A j \in 1 .. i - 1 : stack'[j] = stack[j]
    BY <1>2
  <2> QED
    BY <1>3, <2>1 DEF HistoryInv, Told
<1> QED
  BY <1>2, <1>4, <1>5 DEF HistoryInv

-----------------------------------------------------------------------------
(* The steps *)

\* mine() counts a proof that no event names yet.
LEMMA MineHistory ==
  ASSUME IInv, StackInv, HistoryInv, NEW a \in Accounts, NEW n \in Nonces,
         NEW w \in Nat, mine(a, n, w)
  PROVE  HistoryInv'
<1> DEFINE burn == BurnOf(reward)
           work == <<a, n, w>>
           event == [work |-> work, net |-> reward - burn, burned |-> burn,
                     era |-> currentEra]
           f == [op |-> "mine", callee |-> a, event |-> event, saved |-> World]
<1>1. pow \in PowType /\ log \in LogType
  BY GoodParts DEF IInv, GoodMoney
<1>2. pow.totalMined \in Nat /\ reward \in Nat
  BY <1>1, EraType, RewardType DEF PowType, currentEra, reward
<1>3. burn \in Nat /\ reward - burn + burn = reward
  BY <1>2, BurnBound
<1>4. pow.status = _NOT_ENTERED /\ work \notin pow.used
  BY DEF mine, nonReentrant, workUnused
<1>5. Settled(pow, log)
  BY <1>4 DEF HistoryInv, Told
<1>6. /\ pow'.used = pow.used \cup {work} /\ pow'.totalMined = pow.totalMined + 1
      /\ pow'.totalBurned = pow.totalBurned + burn /\ pow'.status = _ENTERED
      /\ log' = log
  BY <1>1 DEF mine, PowType
<1>7. IsFiniteSet(pow'.used) /\ Cardinality(pow'.used) = Len(log) + 1
  <2>1. PICK x : x = work
    OBVIOUS
  <2> HIDE DEF work
  <2>2. x \notin pow.used /\ pow'.used = pow.used \cup {x}
    BY <1>4, <1>6, <2>1
  <2>3. IsFiniteSet(pow.used) /\ Cardinality(pow.used) = Len(log)
    BY <1>5 DEF Settled
  <2> QED
    BY <2>2, <2>3, FS_AddElement
<1>8. Awaiting(pow', log', event)
  <2>1. Len(log) \in Nat
    BY <1>1 DEF LogType
  <2>2. event.era = EraOf(InitialTotalMined + Len(log))
    BY <1>5 DEF Settled, currentEra
  <2>3. event.net + event.burned = RewardIn(event.era)
    BY <1>3 DEF reward
  <2>4. pow'.totalMined = InitialTotalMined + Len(log) + 1
    BY <1>5, <1>6 DEF Settled
  <2>5. pow'.totalBurned = LastBurned(log) + event.burned
    BY <1>5, <1>6 DEF Settled
  <2> QED
    BY <1>5, <1>6, <1>7, <2>2, <2>3, <2>4, <2>5 DEF Settled, Awaiting
<1>9. ASSUME NEW m \in Nat, m = Len(stack) PROVE Told(pow', log', m)
  <2>1. \A i \in 1 .. m : stack[i].op # "mine"
    BY <1>4, <1>9 DEF StackInv, Nesting, World, _NOT_ENTERED, _ENTERED
  <2> QED
    BY <1>6, <2>1 DEF Told, _NOT_ENTERED, _ENTERED
<1>10. stack' = Append(stack, f)
  BY DEF mine, Push
<1>11. f.saved = World /\ f.event = event
  OBVIOUS
<1> HIDE DEF f, event
<1> QED
  BY <1>8, <1>9, <1>10, <1>11, PushHistory

\* An event appended in its turn keeps the log in order.
LEMMA AppendOrdered ==
  ASSUME NEW l \in LogType,
         NEW e \in [work: Works, net: Nat, burned: Nat, era: Nat, totalBurned: Nat],
         Ordered(l), e.era = EraOf(InitialTotalMined + Len(l)),
         e.net + e.burned = RewardIn(e.era),
         e.totalBurned = LastBurned(l) + e.burned
  PROVE  Ordered(Append(l, e)) /\ LogWorks(Append(l, e)) = LogWorks(l) \cup {e.work}
<1>n. PICK n \in Nat : n = Len(l)
  BY DEF LogType
<1> DEFINE m == Append(l, e)
<1>1. /\ Len(m) = n + 1 /\ m[n + 1] = e
      /\ \A i \in 1 .. n : m[i] = l[i]
  BY <1>n DEF LogType
<1> HIDE DEF m
<1>2. \A i \in 1 .. n + 1 : i = n + 1 \/ i \in 1 .. n
  BY <1>n
<1>3. LogWorks(m) = LogWorks(l) \cup {e.work}
  BY <1>n, <1>1, <1>2 DEF LogWorks
<1>4. \A i \in 1 .. n : l[i].totalBurned \in Nat
  <2> DEFINE R == [work: Works, net: Nat, burned: Nat, era: Nat, totalBurned: Nat]
  <2>1. l \in Seq(R) /\ \A x \in R : x.totalBurned \in Nat
    BY DEF LogType
  <2> HIDE DEF R
  <2> QED
    BY <1>n, <2>1, ElementOfSeq
<1>5. ASSUME NEW i \in 1 .. n + 1
      PROVE  /\ m[i].era = EraOf(InitialTotalMined + i - 1)
             /\ m[i].net + m[i].burned = RewardIn(m[i].era)
             /\ m[i].totalBurned =
                  m[i].burned + (IF i = 1 THEN 0 ELSE m[i - 1].totalBurned)
             /\ i > 1 => m[i].net + m[i].burned <= m[i - 1].net + m[i - 1].burned
  <2>1. CASE i \in 1 .. n
    <3>1. m[i] = l[i] /\ (i > 1 => m[i - 1] = l[i - 1])
      BY <1>1, <2>1
    <3> QED
      BY <1>n, <2>1, <3>1 DEF Ordered
  <2>2. CASE i = n + 1
    <3>1. InitialTotalMined + Len(l) = InitialTotalMined + i - 1
      BY <1>n, <2>2, InputAssumption
    <3>2. m[i].totalBurned =
            m[i].burned + (IF i = 1 THEN 0 ELSE m[i - 1].totalBurned)
      <4>1. CASE n = 0
        <5>1. l = <<>>
          BY <1>n, <4>1, EmptySeq DEF LogType
        <5> QED
          BY <1>1, <2>2, <4>1, <5>1 DEF LastBurned
      <4>2. CASE n # 0
        <5>1. l # <<>> /\ i # 1 /\ i - 1 = n /\ m[i - 1] = l[n]
          BY <1>n, <1>1, <2>2, <4>2 DEF LogType
        <5>2. l[n].totalBurned \in Nat
          BY <1>n, <1>4, <4>2
        <5> QED
          BY <1>n, <1>1, <2>2, <5>1, <5>2 DEF LastBurned
      <4> QED
        BY <4>1, <4>2
    <3>3. ASSUME i > 1
          PROVE  m[i].net + m[i].burned <= m[i - 1].net + m[i - 1].burned
      <4>1. i - 1 = n /\ n \in 1 .. n /\ m[i - 1] = l[n]
        BY <1>n, <1>1, <2>2, <3>3
      <4>2. /\ l[n].era = EraOf(InitialTotalMined + n - 1)
            /\ l[n].net + l[n].burned = RewardIn(l[n].era)
        BY <1>n, <4>1 DEF Ordered
      <4>3. /\ InitialTotalMined + n - 1 \in Nat /\ InitialTotalMined + n \in Nat
            /\ InitialTotalMined + n - 1 <= InitialTotalMined + n
        BY <4>1, InputAssumption
      <4>4. l[n].era <= e.era /\ l[n].era \in Nat /\ e.era \in Nat
        BY <1>n, <4>2, <4>3, EraMonotone, EraType
      <4> QED
        BY <1>1, <2>2, <4>1, <4>2, <4>4, RewardAntitone
    <3> QED
      BY <1>1, <2>2, <3>1, <3>2, <3>3
  <2> QED
    BY <1>2, <2>1, <2>2
<1> QED
  BY <1>1, <1>3, <1>5 DEF Ordered, m

\* The end of mine() emits the event that was awaited.
LEMMA MineReturnsHistory ==
  ASSUME IInv, StackInv, HistoryInv, mineReturns
  PROVE  HistoryInv'
<1> DEFINE e == [work |-> Top.event.work, net |-> Top.event.net,
                 burned |-> Top.event.burned, era |-> Top.event.era,
                 totalBurned |-> pow.totalBurned]
<1>1. stack # <<>> /\ Pop /\ Top.op = "mine" /\ log' = Append(log, e)
  BY DEF mineReturns
<1>2. pow \in PowType /\ log \in LogType
  BY GoodParts DEF IInv, GoodMoney
<1>3. Len(stack) \in Nat \ {0} /\ Top \in MineFrame
  BY <1>1, PopFacts DEF IInv, FrameType, MineFrame, WithdrawFrame
<1>4. Len(stack) \in 1 .. Len(stack)
  BY <1>3
<1>5. Awaiting(pow, log, Top.event)
  BY <1>1, <1>4 DEF HistoryInv, Told, Top
<1>6. e \in [work: Works, net: Nat, burned: Nat, era: Nat, totalBurned: Nat]
  BY <1>2, <1>3 DEF MineFrame, PowType
<1>7. /\ e.era = EraOf(InitialTotalMined + Len(log))
      /\ e.net + e.burned = RewardIn(e.era)
      /\ e.totalBurned = LastBurned(log) + e.burned
      /\ e.work = Top.event.work
  BY <1>5 DEF Awaiting
<1> HIDE DEF e
<1>8. Ordered(log') /\ LogWorks(log') = LogWorks(log) \cup {e.work}
  BY <1>1, <1>2, <1>5, <1>6, <1>7, AppendOrdered DEF Awaiting
<1>9. /\ pow'.used = pow.used /\ pow'.totalMined = pow.totalMined
      /\ pow'.totalBurned = pow.totalBurned /\ pow'.status = _NOT_ENTERED
  BY <1>2 DEF mineReturns, PowType
<1>10. /\ Len(log') = Len(log) + 1 /\ Len(log) \in Nat
       /\ log' # <<>> /\ log'[Len(log')] = e
  <2> DEFINE R == [work: Works, net: Nat, burned: Nat, era: Nat, totalBurned: Nat]
  <2>1. log \in Seq(R) /\ e \in R
    BY <1>2, <1>6 DEF LogType
  <2> HIDE DEF R
  <2> QED
    BY <1>1, <2>1, AppendProperties, LenProperties
<1>11. Settled(pow', log')
  <2>1. pow'.totalBurned = LastBurned(log')
    BY <1>9, <1>10 DEF LastBurned, e
  <2>2. pow'.totalMined = InitialTotalMined + Len(log')
    BY <1>5, <1>9, <1>10, InputAssumption DEF Awaiting
  <2> QED
    BY <1>5, <1>7, <1>8, <1>9, <1>10, <2>1, <2>2 DEF Awaiting, Settled
<1>12. ASSUME NEW n \in Nat, n = Len(stack) - 1 PROVE Told(pow', log', n)
  <2>1. Nesting(Top.saved, Len(stack) - 1) /\ Opened(Top)
    BY <1>4 DEF StackInv, Top
  <2>2. \A i \in 1 .. n : stack[i].op # "mine"
    BY <1>1, <1>12, <2>1 DEF Nesting, Opened, _NOT_ENTERED, _ENTERED
  <2> QED
    BY <1>11, <2>2 DEF Told
<1> QED
  BY <1>1, <1>12, PopHistory

\* A revert brings back a world whose events matched its storage.
LEMMA RevertHistory ==
  ASSUME IInv, HistoryInv, callReverts
  PROVE  HistoryInv'
<1>1. stack # <<>> /\ Pop
  BY DEF callReverts
<1>2. Len(stack) \in 1 .. Len(stack)
  BY <1>1, PopFacts DEF IInv
<1>3. pow' = Top.saved.pow /\ log' = Top.saved.log
  BY DEF callReverts
<1>4. ASSUME NEW n \in Nat, n = Len(stack) - 1 PROVE Told(pow', log', n)
  BY <1>2, <1>3, <1>4 DEF HistoryInv, Top
<1> QED
  BY <1>1, <1>4, PopHistory

LEMMA WithdrawReturnsHistory ==
  ASSUME IInv, HistoryInv, withdrawReturns
  PROVE  HistoryInv'
<1>1. stack # <<>> /\ Pop /\ pow' = pow /\ log' = log
  BY DEF withdrawReturns, world
<1>2. Len(stack) \in Nat \ {0}
  BY <1>1, PopFacts DEF IInv
<1>3. ASSUME NEW n \in Nat, n = Len(stack) - 1 PROVE Told(pow', log', n)
  <2>1. \A i \in 1 .. n : i \in 1 .. Len(stack)
    BY <1>2, <1>3
  <2> QED
    BY <1>1, <2>1 DEF HistoryInv, Told
<1> QED
  BY <1>1, <1>3, PopHistory

LEMMA ExecuteHistory ==
  ASSUME IInv, HistoryInv, NEW a \in Accounts, executeWithdraw(a)
  PROVE  HistoryInv'
<1>1. PICK f : /\ stack' = Append(stack, f) /\ f.saved = World /\ f.op = "withdraw"
  BY DEF executeWithdraw, Push
<1>2. pow' = pow /\ log' = log
  BY DEF executeWithdraw
<1>3. \A n \in Nat : n = Len(stack) => Told(pow', log', n)
  BY <1>2 DEF HistoryInv
<1> QED
  BY <1>1, <1>3, PushHistory

LEMMA StepHistory == IInv /\ StackInv /\ HistoryInv /\ [Next]_vars => HistoryInv'
<1> SUFFICES ASSUME IInv, StackInv, HistoryInv, [Next]_vars PROVE HistoryInv'
  OBVIOUS
<1>1. CASE UNCHANGED vars
  BY <1>1, KeepHistory DEF vars, world
<1>2. ASSUME NEW a \in Accounts, NEW v \in Amounts, fund(a, v) PROVE HistoryInv'
  BY <1>2, KeepHistory DEF fund
<1>3. ASSUME NEW a \in Accounts, NEW n \in Nonces, NEW w \in 0 .. MaxBlock,
             mine(a, n, w)
      PROVE  HistoryInv'
  BY <1>3, MineHistory, InputAssumption
<1>4. ASSUME NEW a \in Accounts, Governing(a), ~executeWithdraw(a)
      PROVE  HistoryInv'
  BY <1>4, KeepHistory DEF Governing, queueDifficulty, executeDifficulty, cancelDifficulty,
     queueOwnershipTransfer, executeOwnershipTransfer, cancelOwnershipTransfer,
     queueWithdraw, cancelWithdraw
<1>5. ASSUME NEW dt \in TimeSteps, newBlock(dt) PROVE HistoryInv'
  BY <1>5, KeepHistory DEF newBlock, world
<1> QED
  BY <1>1, <1>2, <1>3, <1>4, <1>5, ExecuteHistory, MineReturnsHistory,
     WithdrawReturnsHistory, RevertHistory DEF Next, Mining

\* In every reachable state the events match the storage, and so they do in every
\* world that a refused payment could bring back.
THEOREM HistoryInvariant == Spec => []HistoryInv
  BY InitHistory, StepHistory, Inductive, NestingInvariant, PTL DEF Spec

-----------------------------------------------------------------------------
(* The properties *)

\* The i-th Mined event carries the era and the reward of the i-th proof, rewards
\* never rise, and the Burned totals add up, whatever calls nested and whatever
\* was reverted in between (mine 163-185).
THEOREM HistoryTold == Spec => []EventsInOrder
<1>1. IInv /\ StackInv /\ HistoryInv => EventsInOrder
  <2> SUFFICES ASSUME IInv, StackInv, HistoryInv PROVE EventsInOrder
    OBVIOUS
  <2>1. pow \in PowType
    BY GoodParts DEF IInv, GoodMoney
  <2>2. CASE pow.status = _NOT_ENTERED
    BY <2>2 DEF HistoryInv, Told, Settled, Ordered, EventsInOrder
  <2>3. CASE pow.status = _ENTERED
    <3>1. PICK i \in 1 .. Len(stack) : stack[i].op = "mine"
      BY <2>3 DEF StackInv, Nesting, World
    <3>2. Awaiting(pow, log, stack[i].event)
      BY <3>1 DEF HistoryInv, Told
    <3> QED
      BY <3>2 DEF Awaiting, Ordered, EventsInOrder
  <2> QED
    BY <2>1, <2>2, <2>3 DEF PowType
<1> QED
  BY <1>1, Inductive, NestingInvariant, HistoryInvariant, PTL

\* When no call is open, each used proof has exactly one Mined event and was
\* counted once, no matter how calls nested or reverted (mine 160, 170-172).
THEOREM ProofsPaidOnce == Spec => []OneRewardPerProof
<1>1. IInv /\ StackInv /\ HistoryInv => OneRewardPerProof
  <2> SUFFICES ASSUME IInv, StackInv, HistoryInv, stack = <<>>
               PROVE  /\ WorksLogged = pow.used
                      /\ Len(log) = Cardinality(pow.used)
                      /\ pow.totalMined = InitialTotalMined + Len(log)
    BY DEF OneRewardPerProof
  <2>1. pow.status # _ENTERED
    BY DEF StackInv, Nesting, World
  <2>2. pow.status = _NOT_ENTERED
    BY <2>1, GoodParts DEF IInv, GoodMoney, PowType
  <2>3. Settled(pow, log)
    BY <2>2 DEF HistoryInv, Told
  <2> QED
    BY <2>3 DEF Settled, LogWorks, WorksLogged
<1> QED
  BY <1>1, Inductive, NestingInvariant, HistoryInvariant, PTL
=============================================================================
