------------------------- MODULE MiningNetwork_proofs -------------------------
(***************************************************************************)
(* What holds of the miner's program and the watchdog around USSTMine, for *)
(* every number of miners, retries, failures and late transactions.        *)
(***************************************************************************)
EXTENDS MiningNetwork, USSTMine_proofs, Collections_proofs

-----------------------------------------------------------------------------
(* The contract among its programs                                           *)

\* One mine() at most is under way, since no account has code.
FrameInv ==
  stack # <<>> => /\ Len(stack) = 1 /\ stack[1].op = "mine"
                  /\ stack[1].event.work \in Works

ContractInv == IInv /\ FrameInv

LEMMA AtRest ==
  ASSUME stack = <<>>, NEW a
  PROVE  MayCall(a)
  BY DEF MayCall

\* What a mined proof takes out of the pool, and what it leaves on the stack.
LEMMA MineTakes ==
  ASSUME ContractInv, NEW m \in Miners, NEW n \in Nonces, NEW w \in Nat, stack = <<>>,
         mine(m, n, w)
  PROVE  /\ ContractInv'
         /\ money.pool \in Nat /\ money'.pool \in Nat /\ money'.pool <= money.pool
         /\ gov' = gov /\ log' = log /\ block' = block
         /\ stack' # <<>> /\ Top'.event.work = <<m, n, w>>
<1>1. m \in Accounts
  BY NetworkAssumption
<1>2. IInv'
  BY <1>1, MineGood DEF ContractInv
<1> DEFINE burn == BurnOf(reward)
           f == [op |-> "mine", callee |-> m, saved |-> World,
                 event |-> [work |-> <<m, n, w>>, net |-> reward - burn, burned |-> burn,
                            era |-> currentEra]]
<1>3. stack' = Append(stack, f)
  BY DEF mine, Push
<1>4. f.op = "mine" /\ f.event.work = <<m, n, w>> /\ f.event.work \in Works
  BY <1>1 DEF Works
<1>5. gov' = gov /\ log' = log /\ block' = block
      /\ money' = PayMiner(PayBurn(money, burn), reward - burn)
  BY DEF mine, clock
<1> HIDE DEF f
<1>6. Len(stack') = 1 /\ stack'[1] = f /\ stack' # <<>>
  BY <1>3
<1>7. FrameInv'
  BY <1>4, <1>6 DEF FrameInv
<1>8. GoodMoney /\ GoodMoney'
  BY <1>2 DEF ContractInv, IInv, Good, World, WorldType, Balanced, GoodMoney
<1>9. money \in MoneyType /\ money.pool \in Nat /\ money'.pool \in Nat /\ pow.totalMined \in Nat
  BY <1>8 DEF GoodMoney, MoneyType, PowType
<1>10. reward \in Nat
  BY <1>9, EraType, RewardType DEF reward, currentEra
<1>11. burn \in 0 .. reward
  BY <1>10, BurnBound
<1> HIDE DEF burn
<1>12. burn \in Nat /\ reward - burn \in Nat
  BY <1>10, <1>11
<1>13. money'.pool = money.pool - burn - (reward - burn)
  BY <1>5, <1>9, <1>12, PayBalance
<1> QED
  BY <1>2, <1>4, <1>5, <1>6, <1>7, <1>9, <1>10, <1>12, <1>13 DEF ContractInv, Top

\* The end of a mine() emits its event.
LEMMA MineReturnsTakes ==
  ASSUME ContractInv, mineReturns
  PROVE  /\ ContractInv' /\ stack # <<>> /\ stack' = <<>>
         /\ money' = money /\ gov' = gov /\ block' = block
         /\ Top.event.work \in Works
         /\ \E e : log' = Append(log, e) /\ e.work = Top.event.work
<1>1. IInv'
  BY MineReturnsGood DEF ContractInv
<1>2. /\ stack # <<>> /\ Pop /\ money' = money /\ gov' = gov /\ block' = block
      /\ log' = Append(log, [work |-> Top.event.work, net |-> Top.event.net,
                             burned |-> Top.event.burned, era |-> Top.event.era,
                             totalBurned |-> pow.totalBurned])
  BY DEF mineReturns, clock
<1>3. Len(stack) = 1 /\ stack[1].event.work \in Works
  BY <1>2 DEF ContractInv, FrameInv
<1>4. stack' \in Seq(FrameType) /\ Len(stack') = 0
  BY <1>2, <1>3, PopFacts DEF ContractInv, IInv
<1>5. stack' = <<>>
  BY <1>4, EmptySeq
<1>6. FrameInv'
  BY <1>5 DEF FrameInv
<1> QED
  BY <1>1, <1>2, <1>3, <1>5, <1>6 DEF ContractInv, Top

LEMMA FundTakes ==
  ASSUME ContractInv, NEW v \in Nat, fund(Deployer, v)
  PROVE  /\ ContractInv' /\ money.pool \in Nat /\ money'.pool = money.pool + v
         /\ gov' = gov /\ log' = log /\ stack' = stack /\ block' = block
<1>1. Deployer \in Accounts
  BY AccountAssumption
<1>2. IInv'
  BY <1>1, FundGood DEF ContractInv
<1>3. /\ gov' = gov /\ log' = log /\ stack' = stack /\ block' = block
      /\ money' = [money EXCEPT !.pool = @ + v, !.funded = @ + v]
  BY DEF fund, clock
<1>4. money \in MoneyType
  BY GoodParts DEF ContractInv, IInv, GoodMoney
<1>5. money.pool \in Nat /\ money'.pool = money.pool + v
  BY <1>3, <1>4 DEF MoneyType
<1>6. FrameInv'
  BY <1>3 DEF ContractInv, FrameInv
<1> QED
  BY <1>2, <1>3, <1>5, <1>6 DEF ContractInv

LEMMA BlockTakes ==
  ASSUME ContractInv, NEW dt \in TimeSteps, newBlock(dt)
  PROVE  /\ ContractInv' /\ block' = block + 1 /\ block \in Nat
         /\ gov' = gov /\ log' = log /\ stack' = stack /\ money' = money
<1>1. IInv'
  BY NewBlockGood DEF ContractInv
<1>2. /\ gov' = gov /\ log' = log /\ stack' = stack /\ money' = money
      /\ block' = block + 1 /\ block \in Nat
  BY DEF newBlock, world, ContractInv, IInv
<1>3. FrameInv'
  BY <1>2 DEF ContractInv, FrameInv
<1> QED
  BY <1>1, <1>2, <1>3 DEF ContractInv

LEMMA SameContract ==
  ASSUME ContractInv, UNCHANGED contract, UNCHANGED clock
  PROVE  /\ ContractInv' /\ gov' = gov /\ log' = log /\ stack' = stack /\ money' = money
         /\ block' = block
<1>1. /\ gov' = gov /\ pow' = pow /\ money' = money /\ log' = log /\ notice' = notice
      /\ stack' = stack /\ block' = block /\ now' = now
  BY DEF contract, clock
<1>2. IInv'
  BY <1>1 DEF ContractInv, IInv, Good, World, Balanced, Floor, Payable, Announced
<1>3. FrameInv'
  BY <1>1 DEF ContractInv, FrameInv
<1> QED
  BY <1>1, <1>2, <1>3 DEF ContractInv

-----------------------------------------------------------------------------
(* The miner                                                                 *)

Rigs == [pc: {"pool", "search", "check", "verify", "send", "wait"}, workBlock: Nat,
         nonce: Nonces \cup {0}, attempt: Nat, checkedAt: Nat, found: Nat]
Txs == [nonce: Nonces, workBlock: Nat, checkedAt: Nat, minedAt: Nat,
        status: {"pending", "ok", "claimed", "stale", "poor"}]
Oks == {t \in Txs : t.status = "ok"}
Events == [work: Works, net: Nat, burned: Nat, era: Nat, totalBurned: Nat]
EventsOf(m) == {e \in Events : e.work[1] = m}

\* What work is when its age was looked at for the last time, and what a proof is when it
\* has passed the last checks.
Aged(t) ==
  /\ t.workBlock \in Nat /\ t.checkedAt \in Nat
  /\ t.workBlock <= t.checkedAt /\ t.checkedAt <= block
  /\ t.checkedAt - t.workBlock <= WORK_BLOCK_MAX_AGE
Checked(m, t) ==
  /\ t.nonce \in Nonces /\ t.workBlock \in Nat /\ t.checkedAt \in Nat
  /\ t.workBlock <= t.checkedAt /\ t.checkedAt <= block
  /\ t.checkedAt - t.workBlock <= WORK_BLOCK_MAX_AGE
  /\ PowHash(m, t.nonce, t.workBlock) < target
Margin(t) ==
  t.status = "stale" => t.minedAt - t.checkedAt > WORK_AGE - WORK_BLOCK_MAX_AGE

\* The receipt that counts next; the payment whose event is to come.
counts(m) == IF rig[m].pc = "wait" /\ sent[m][Len(sent[m])].status = "ok" THEN 1 ELSE 0
opened(m) == IF stack # <<>> /\ Top.event.work[1] = m THEN 1 ELSE 0

MinerOf(m) ==
  /\ rig[m].workBlock <= block
  /\ rig[m].pc \in {"check", "verify", "send", "wait"} => rig[m].nonce \in Nonces
  /\ rig[m].pc = "verify" => Aged(rig[m])
  /\ rig[m].pc \in {"send", "wait"} => Checked(m, rig[m])
  /\ rig[m].pc = "wait" => sent[m] # <<>>
  /\ \A i \in 1 .. Len(sent[m]) : Checked(m, sent[m][i]) /\ Margin(sent[m][i])
  /\ rig[m].found + counts(m) <= Hits(sent[m], Oks)
  /\ rig[m].found <= Hits(log, EventsOf(m))
  /\ Hits(sent[m], Oks) <= Hits(log, EventsOf(m)) + opened(m)

MinerInv ==
  /\ rig \in [Miners -> Rigs] /\ sent \in [Miners -> Seq(Txs)]
  /\ \A m \in Miners : MinerOf(m)

\* The log and the stack tell no less of a miner than before.
ToldOf(m) ==
  /\ Hits(log, EventsOf(m)) <= Hits(log', EventsOf(m))
  /\ Hits(log, EventsOf(m)) + opened(m) <= Hits(log', EventsOf(m)) + opened(m)'

LEMMA CountsAre ==
  ASSUME ContractInv, MinerInv, NEW m \in Miners
  PROVE  /\ log \in Seq(Events) /\ Hits(log, EventsOf(m)) \in Nat
         /\ Hits(sent[m], Oks) \in Nat /\ counts(m) \in {0, 1} /\ opened(m) \in {0, 1}
         /\ rig[m] \in Rigs /\ sent[m] \in Seq(Txs) /\ block \in Nat
<1>1. log \in Seq(Events) /\ block \in Nat
  BY GoodParts DEF ContractInv, IInv, LogType, Events
<1>2. rig[m] \in Rigs /\ sent[m] \in Seq(Txs)
  BY DEF MinerInv
<1>3. Hits(log, EventsOf(m)) \in Nat /\ Hits(sent[m], Oks) \in Nat
  <2>1. Hits(log, EventsOf(m)) \in 0 .. Len(log) /\ Hits(sent[m], Oks) \in 0 .. Len(sent[m])
    BY <1>1, <1>2, HitsBounds
  <2>2. Len(log) \in Nat /\ Len(sent[m]) \in Nat
    BY <1>1, <1>2, LenProperties
  <2> QED
    BY <2>1, <2>2
<1> QED
  BY <1>1, <1>2, <1>3 DEF counts, opened

LEMMA SameTold ==
  ASSUME ContractInv, MinerInv, log' = log, stack' = stack, NEW m \in Miners
  PROVE  ToldOf(m)
<1>1. opened(m)' = opened(m)
  BY DEF opened, Top
<1> QED
  BY <1>1, CountsAre DEF ToldOf

LEMMA StaysChecked ==
  ASSUME NEW m, NEW t, Checked(m, t), gov' = gov, block \in Nat, block' \in Nat, block' >= block
  PROVE  Checked(m, t)'
<1>1. target' = target
  BY DEF target
<1> QED
  BY <1>1 DEF Checked

\* The next log is a log.
LEMMA LogNext ==
  ASSUME ContractInv'
  PROVE  log' \in Seq(Events) /\ block' \in Nat /\ \A m : Hits(log', EventsOf(m)) \in Nat
<1>1. PICK l : l = log'
  OBVIOUS
<1>2. l \in Seq(Events) /\ block' \in Nat
  BY <1>1 DEF ContractInv, IInv, Good, World, WorldType, LogType, Events
<1>3. \A m : Hits(l, EventsOf(m)) \in Nat
  BY <1>2, LenProperties, HitsBounds
<1> QED
  BY <1>1, <1>2, <1>3

LEMMA MinerUntouched ==
  ASSUME ContractInv, ContractInv', MinerInv, NEW m \in Miners, rig'[m] = rig[m], sent'[m] = sent[m],
         gov' = gov, block' >= block, ToldOf(m)
  PROVE  MinerOf(m)'
<1>1. /\ Hits(log, EventsOf(m)) \in Nat /\ Hits(sent[m], Oks) \in Nat
      /\ counts(m) \in {0, 1} /\ opened(m) \in {0, 1} /\ rig[m] \in Rigs /\ block \in Nat
      /\ block' \in Nat
  BY CountsAre, LogNext
<1>2. MinerOf(m)
  BY DEF MinerInv
<1>3. Checked(m, rig[m]) => Checked(m, rig[m])'
  <2>1. PICK t : t = rig[m]
    OBVIOUS
  <2>2. Checked(m, t) => Checked(m, t)'
    BY <1>1, StaysChecked
  <2> QED
    BY <2>1, <2>2 DEF Checked
<1>4. \A i \in 1 .. Len(sent[m]) : Checked(m, sent[m][i])'
  <2>1. ASSUME NEW i \in 1 .. Len(sent[m]) PROVE Checked(m, sent[m][i])'
    <3>1. PICK t : t = sent[m][i]
      OBVIOUS
    <3>2. Checked(m, t)'
      BY <1>1, <1>2, <3>1, StaysChecked DEF MinerOf
    <3> QED
      BY <3>1, <3>2 DEF Checked
  <2> QED
    BY <2>1
<1>5. counts(m)' = counts(m)
  BY DEF counts
<1>6. rig[m].found \in Nat /\ rig[m].workBlock \in Nat
  BY <1>1 DEF Rigs
<1>7. Hits(log', EventsOf(m)) \in Nat /\ opened(m)' \in {0, 1}
  BY LogNext DEF opened
<1>8. Aged(rig[m]) => Aged(rig[m])'
  BY <1>1 DEF Aged
<1> QED
  BY <1>1, <1>2, <1>3, <1>4, <1>5, <1>6, <1>7, <1>8 DEF MinerOf, ToldOf, Margin

\* A step of one miner that sends nothing.
LEMMA MinerTurns ==
  ASSUME ContractInv, MinerInv, UNCHANGED contract, UNCHANGED clock, NEW m \in Miners,
         NEW r \in Rigs, rig' = [rig EXCEPT ![m] = r], sent' = sent,
         r.workBlock <= block, r.pc # "wait",
         r.pc \in {"check", "verify", "send"} => r.nonce \in Nonces,
         r.pc = "verify" => Aged(r), r.pc = "send" => Checked(m, r),
         r.found <= Hits(sent[m], Oks), r.found <= Hits(log, EventsOf(m))
  PROVE  MinerInv'
<1>1. /\ ContractInv' /\ gov' = gov /\ log' = log /\ stack' = stack /\ block' = block
  BY SameContract
<1>2. /\ rig \in [Miners -> Rigs] /\ rig' \in [Miners -> Rigs] /\ rig'[m] = r
      /\ \A l \in Miners \ {m} : rig'[l] = rig[l]
  BY DEF MinerInv
<1>3. /\ Hits(log, EventsOf(m)) \in Nat /\ Hits(sent[m], Oks) \in Nat /\ opened(m) \in {0, 1}
      /\ block \in Nat /\ MinerOf(m) /\ r.found \in Nat
  BY CountsAre DEF MinerInv, Rigs
<1>4. \A l \in Miners \ {m} : MinerOf(l)'
  <2>1. ASSUME NEW l \in Miners \ {m} PROVE MinerOf(l)'
    <3>1. ToldOf(l) /\ rig'[l] = rig[l] /\ sent'[l] = sent[l] /\ block' >= block
      BY <1>1, <1>2, <1>3, SameTold
    <3> QED
      BY <1>1, <3>1, MinerUntouched
  <2> QED
    BY <2>1
<1>5. Checked(m, r) => Checked(m, rig[m])'
  <2>1. Checked(m, r) => Checked(m, r)'
    BY <1>1, <1>3, StaysChecked
  <2> QED
    BY <1>2, <2>1 DEF Checked
<1>6. \A i \in 1 .. Len(sent[m]) : Checked(m, sent[m][i])'
  <2>1. ASSUME NEW i \in 1 .. Len(sent[m]) PROVE Checked(m, sent[m][i])'
    <3>1. PICK t : t = sent[m][i]
      OBVIOUS
    <3>2. Checked(m, t)'
      BY <1>1, <1>3, <3>1, StaysChecked DEF MinerOf
    <3> QED
      BY <3>1, <3>2 DEF Checked
  <2> QED
    BY <2>1
<1>7. counts(m)' = 0 /\ opened(m)' = opened(m)
  BY <1>1, <1>2 DEF counts, opened, Top
<1>8. Aged(r) => Aged(rig[m])'
  BY <1>1, <1>2 DEF Aged
<1>9. MinerOf(m)'
  BY <1>1, <1>2, <1>3, <1>5, <1>6, <1>7, <1>8 DEF MinerOf, Margin
<1> QED
  BY <1>2, <1>4, <1>9 DEF MinerInv

\* A broadcast adds a pending transaction for the proof that was checked.
LEMMA MinerBroadcasts ==
  ASSUME ContractInv, MinerInv, UNCHANGED contract, UNCHANGED clock, NEW m \in Miners,
         NEW r \in Rigs, rig' = [rig EXCEPT ![m] = r], broadcast(m), rig[m].pc = "send",
         r.pc \in {"wait", "send", "pool"}, r.nonce = rig[m].nonce,
         r.workBlock = rig[m].workBlock, r.checkedAt = rig[m].checkedAt,
         r.found = rig[m].found
  PROVE  MinerInv'
<1>1. /\ ContractInv' /\ gov' = gov /\ log' = log /\ stack' = stack /\ block' = block
  BY SameContract
<1>2. /\ rig \in [Miners -> Rigs] /\ rig' \in [Miners -> Rigs] /\ rig'[m] = r
      /\ \A l \in Miners \ {m} : rig'[l] = rig[l]
  BY DEF MinerInv
<1>3. /\ Hits(log, EventsOf(m)) \in Nat /\ Hits(sent[m], Oks) \in Nat /\ opened(m) \in {0, 1}
      /\ counts(m) \in {0, 1} /\ sent[m] \in Seq(Txs)
      /\ block \in Nat /\ MinerOf(m) /\ r.found \in Nat
  BY CountsAre DEF MinerInv, Rigs
<1>4. Checked(m, rig[m])
  BY <1>3 DEF MinerOf
<1>5. PICK t : t = [nonce |-> rig[m].nonce, workBlock |-> rig[m].workBlock,
                    checkedAt |-> rig[m].checkedAt, minedAt |-> 0, status |-> "pending"]
  OBVIOUS
<1>6. t \in Txs /\ t \notin Oks /\ Checked(m, t) /\ t.status = "pending"
  BY <1>4, <1>5 DEF Txs, Oks, Checked
<1>7. PICK q : q = Append(sent[m], t)
  OBVIOUS
<1>8. /\ q \in Seq(Txs) /\ q # <<>> /\ q[Len(q)] = t
      /\ \A i \in 1 .. Len(q) : q[i] = t \/ \E j \in 1 .. Len(sent[m]) : q[i] = sent[m][j]
  <2>1. PICK n \in Nat : n = Len(sent[m])
    BY <1>3, LenProperties
  <2>2. q \in Seq(Txs) /\ Len(q) = n + 1 /\ q[n + 1] = t /\ \A i \in 1 .. n : q[i] = sent[m][i]
    BY <1>3, <1>6, <1>7, <2>1, AppendProperties
  <2>3. q # <<>>
    BY <2>2
  <2> QED
    BY <2>1, <2>2, <2>3
<1>9. Hits(q, Oks) = Hits(sent[m], Oks)
  <2>1. Hits(Append(sent[m], t), Oks) = Hits(sent[m], Oks) + IF t \in Oks THEN 1 ELSE 0
    BY <1>3, <1>6, HitsAppend
  <2> QED
    BY <1>3, <1>6, <1>7, <2>1
<1>10. sent' = [sent EXCEPT ![m] = q]
  BY <1>5, <1>7 DEF broadcast
<1>11. /\ sent' \in [Miners -> Seq(Txs)] /\ sent'[m] = q
       /\ \A l \in Miners \ {m} : sent'[l] = sent[l]
  BY <1>8, <1>10 DEF MinerInv
<1>12. \A l \in Miners \ {m} : MinerOf(l)'
  <2>1. ASSUME NEW l \in Miners \ {m} PROVE MinerOf(l)'
    <3>1. ToldOf(l) /\ rig'[l] = rig[l] /\ sent'[l] = sent[l] /\ block' >= block
      BY <1>1, <1>2, <1>3, <1>11, SameTold
    <3> QED
      BY <1>1, <3>1, MinerUntouched
  <2> QED
    BY <2>1
<1>13. \A u : Checked(m, u) => Checked(m, u)'
  BY <1>1, <1>3, StaysChecked
<1>14. Checked(m, rig[m])'
  <2>1. Checked(m, r)
    BY <1>4 DEF Checked
  <2>2. Checked(m, r)'
    BY <1>13, <2>1
  <2> QED
    BY <1>2, <2>2 DEF Checked
<1>15. \A i \in 1 .. Len(q) : Checked(m, q[i])' /\ Margin(q[i])
  <2>1. ASSUME NEW i \in 1 .. Len(q) PROVE Checked(m, q[i])' /\ Margin(q[i])
    <3>1. PICK u : u = q[i]
      OBVIOUS
    <3>2. Checked(m, u) /\ Margin(u)
      BY <1>3, <1>6, <1>8, <3>1 DEF MinerOf, Margin
    <3>3. Checked(m, u)'
      BY <1>13, <3>2
    <3> QED
      BY <3>1, <3>2, <3>3 DEF Checked
  <2> QED
    BY <2>1
<1>16. counts(m)' = 0 /\ opened(m)' = opened(m)
  BY <1>1, <1>6, <1>8, <1>11 DEF counts, opened, Top
<1>17. /\ rig[m].workBlock <= block /\ rig[m].nonce \in Nonces
       /\ r.found <= Hits(q, Oks) /\ r.found <= Hits(log, EventsOf(m))
       /\ Hits(q, Oks) <= Hits(log, EventsOf(m)) + opened(m)
  BY <1>3, <1>9 DEF MinerOf
<1>18. MinerOf(m)'
  <2>1. \A i \in 1 .. Len(sent'[m]) : Checked(m, sent[m][i])' /\ Margin(sent[m][i])'
    BY <1>11, <1>15 DEF Checked, Margin
  <2> QED
    BY <1>1, <1>2, <1>3, <1>8, <1>11, <1>14, <1>16, <1>17, <2>1 DEF MinerOf
<1> QED
  BY <1>2, <1>11, <1>12, <1>18 DEF MinerInv

\* Mining settles one of the miner's transactions.
LEMMA MinerSettles ==
  ASSUME ContractInv, ContractInv', MinerInv, NEW m \in Miners, NEW i \in 1 .. Len(sent[m]),
         NEW o \in {"ok", "claimed", "stale", "poor"}, sent[m][i].status = "pending",
         sent' = [sent EXCEPT ![m][i].status = o, ![m][i].minedAt = block], rig' = rig,
         gov' = gov, log' = log, block' = block, stack = <<>>,
         IF o = "ok" THEN stack' # <<>> /\ Top'.event.work[1] = m ELSE stack' = stack,
         o = "stale" => block - sent[m][i].workBlock > WORK_AGE
  PROVE  MinerInv'
<1>1. /\ Hits(log, EventsOf(m)) \in Nat /\ Hits(sent[m], Oks) \in Nat /\ counts(m) \in {0, 1}
      /\ sent[m] \in Seq(Txs) /\ rig[m] \in Rigs /\ block \in Nat /\ MinerOf(m)
      /\ opened(m) = 0
  BY CountsAre DEF MinerInv, opened
<1>2. PICK u : u = [sent[m][i] EXCEPT !.status = o, !.minedAt = block]
  OBVIOUS
<1>3. PICK t : t = sent[m][i]
  OBVIOUS
<1>4. t \in Txs /\ Checked(m, t) /\ t.status = "pending" /\ t \notin Oks
  BY <1>1, <1>3, ElementOfSeq DEF MinerOf, Oks
<1>5. /\ u \in Txs /\ u.status = o /\ u.minedAt = block /\ u.nonce = t.nonce
      /\ u.workBlock = t.workBlock /\ u.checkedAt = t.checkedAt
  BY <1>1, <1>2, <1>3, <1>4 DEF Txs
<1>6. PICK q : q = [sent[m] EXCEPT ![i] = u]
  OBVIOUS
<1>7. sent' = [sent EXCEPT ![m] = q]
  BY <1>2, <1>6
<1>8. /\ q \in Seq(Txs) /\ Len(q) = Len(sent[m]) /\ q[i] = u
      /\ \A j \in 1 .. Len(q) : j # i => q[j] = sent[m][j]
  BY <1>1, <1>5, <1>6, ExceptSeq
<1>9. /\ sent' \in [Miners -> Seq(Txs)] /\ sent'[m] = q
      /\ \A l \in Miners \ {m} : sent'[l] = sent[l]
  BY <1>7, <1>8 DEF MinerInv
<1>10. Hits(q, Oks) = Hits(sent[m], Oks) + IF o = "ok" THEN 1 ELSE 0
  <2>1. Hits(q, Oks) + (IF sent[m][i] \in Oks THEN 1 ELSE 0)
          = Hits(sent[m], Oks) + IF u \in Oks THEN 1 ELSE 0
    BY <1>1, <1>5, <1>6, HitsReplace
  <2>2. Hits(q, Oks) \in Nat
    <3>1. Hits(q, Oks) \in 0 .. Len(q) /\ Len(q) \in Nat
      BY <1>8, HitsBounds, LenProperties
    <3> QED
      BY <3>1
  <2>3. u \in Oks <=> o = "ok"
    BY <1>5 DEF Oks
  <2> QED
    BY <1>1, <1>3, <1>4, <2>1, <2>2, <2>3
<1>11. opened(m)' = IF o = "ok" THEN 1 ELSE 0
  BY DEF opened
<1>12. ASSUME NEW l \in Miners \ {m} PROVE MinerOf(l)'
  <2>1. opened(l) = 0 /\ opened(l)' \in {0, 1}
    BY DEF opened
  <2>2. Hits(log, EventsOf(l)) \in Nat
    BY CountsAre
  <2>3. ToldOf(l)
    BY <2>1, <2>2 DEF ToldOf
  <2>4. block' >= block
    BY <1>1
  <2> QED
    BY <1>9, <2>3, <2>4, MinerUntouched
<1>13. \A x : Checked(m, x) => Checked(m, x)'
  BY <1>1, StaysChecked
<1>14. Checked(m, rig[m]) => Checked(m, rig[m])'
  <2>1. PICK x : x = rig[m]
    OBVIOUS
  <2>2. Checked(m, x) => Checked(m, x)'
    BY <1>13
  <2> QED
    BY <2>1, <2>2 DEF Checked
<1>15. Checked(m, u) /\ Margin(u)
  <2>1. Checked(m, u)
    BY <1>4, <1>5 DEF Checked
  <2>2. ASSUME o = "stale" PROVE u.minedAt - u.checkedAt > WORK_AGE - WORK_BLOCK_MAX_AGE
    <3>1. block - t.workBlock > WORK_AGE
      BY <1>3, <2>2
    <3>2. /\ t.checkedAt - t.workBlock <= WORK_BLOCK_MAX_AGE
          /\ t.checkedAt \in Nat /\ t.workBlock \in Nat
      BY <1>4 DEF Checked
    <3>3. WORK_AGE \in Nat /\ WORK_BLOCK_MAX_AGE \in Nat
      BY InputAssumption, NetworkAssumption
    <3> QED
      BY <1>1, <1>5, <3>1, <3>2, <3>3
  <2> QED
    BY <1>5, <2>1, <2>2 DEF Margin
<1>16. ASSUME NEW j \in 1 .. Len(q) PROVE Checked(m, q[j])' /\ Margin(q[j])
  <2>1. PICK x : x = q[j]
    OBVIOUS
  <2>2. Checked(m, x) /\ Margin(x)
    BY <1>1, <1>8, <1>15, <2>1 DEF MinerOf
  <2>3. Checked(m, x)'
    BY <1>13, <2>2
  <2> QED
    BY <2>1, <2>2, <2>3 DEF Checked
<1>17. counts(m)' <= counts(m) + IF o = "ok" THEN 1 ELSE 0
  <2>1. CASE i = Len(sent[m])
    <3>1. counts(m)' \in {0, IF o = "ok" THEN 1 ELSE 0}
      BY <1>5, <1>8, <1>9, <2>1 DEF counts
    <3> QED
      BY <1>1, <3>1
  <2>2. CASE i # Len(sent[m])
    <3>1. counts(m)' = counts(m)
      <4>1. CASE rig[m].pc = "wait"
        <5>1. sent[m] # <<>>
          BY <1>1, <4>1 DEF MinerOf
        <5>2. Len(q) \in 1 .. Len(q)
          BY <1>1, <1>8, <5>1, LenProperties, EmptySeq
        <5>3. q[Len(q)] = sent[m][Len(sent[m])]
          BY <1>8, <2>2, <5>2
        <5> QED
          BY <1>9, <5>3 DEF counts
      <4>2. CASE rig[m].pc # "wait"
        BY <4>2 DEF counts
      <4> QED
        BY <4>1, <4>2
    <3> QED
      BY <1>1, <3>1
  <2> QED
    BY <2>1, <2>2
<1>18. counts(m)' \in {0, 1} /\ rig[m].found \in Nat
  BY <1>1 DEF counts, Rigs
<1>19. /\ rig[m].found + counts(m)' <= Hits(q, Oks)
       /\ rig[m].found <= Hits(log, EventsOf(m))
       /\ Hits(q, Oks) <= Hits(log, EventsOf(m)) + opened(m)'
  BY <1>1, <1>10, <1>11, <1>17, <1>18 DEF MinerOf
<1>20. q # <<>>
  BY <1>1, <1>8, EmptySeq
<1>21. MinerOf(m)'
  <2>1. \A j \in 1 .. Len(sent'[m]) : Checked(m, sent[m][j])' /\ Margin(sent[m][j])'
    BY <1>9, <1>16 DEF Checked, Margin
  <2>2. Aged(rig[m]) => Aged(rig[m])'
    BY DEF Aged
  <2> QED
    BY <1>1, <1>9, <1>14, <1>19, <1>20, <2>1, <2>2 DEF MinerOf
<1> QED
  BY <1>9, <1>12, <1>21 DEF MinerInv

LEMMA TakeWorkKeeps ==
  ASSUME ContractInv, MinerInv, NEW m \in Miners, takeWork(m) \/ dropWork(m)
  PROVE  MinerInv'
<1>1. /\ Hits(log, EventsOf(m)) \in Nat /\ Hits(sent[m], Oks) \in Nat /\ counts(m) \in {0, 1}
      /\ rig[m] \in Rigs /\ rig[m].found \in Nat /\ block \in Nat /\ MinerOf(m)
  BY CountsAre DEF MinerInv, Rigs
<1>2. UNCHANGED contract /\ UNCHANGED clock /\ sent' = sent
  BY DEF takeWork, dropWork
<1>3. rig[m].found <= Hits(sent[m], Oks) /\ rig[m].found <= Hits(log, EventsOf(m))
      /\ rig[m].workBlock <= block
  BY <1>1 DEF MinerOf
<1>4. CASE takeWork(m)
  <2>1. PICK r : r = [rig[m] EXCEPT !.pc = "search", !.workBlock = block]
    OBVIOUS
  <2>2. r \in Rigs /\ r.pc = "search" /\ r.workBlock = block /\ r.found = rig[m].found
    BY <1>1, <2>1 DEF Rigs
  <2>3. rig' = [rig EXCEPT ![m] = r]
    BY <1>4, <2>1 DEF takeWork
  <2>4. /\ r.workBlock <= block /\ r.pc # "wait" /\ ~(r.pc \in {"check", "verify", "send"})
        /\ r.pc # "verify" /\ r.pc # "send"
        /\ r.found <= Hits(sent[m], Oks) /\ r.found <= Hits(log, EventsOf(m))
    BY <1>1, <1>3, <2>2
  <2> QED
    BY <1>2, <2>2, <2>3, <2>4, MinerTurns
<1>5. CASE dropWork(m)
  <2>1. PICK r : r = [rig[m] EXCEPT !.pc = "pool"]
    OBVIOUS
  <2>2. r \in Rigs /\ r.pc = "pool" /\ r.workBlock = rig[m].workBlock /\ r.found = rig[m].found
    BY <1>1, <2>1 DEF Rigs
  <2>3. rig' = [rig EXCEPT ![m] = r]
    BY <1>5, <2>1 DEF dropWork
  <2> QED
    BY <1>1, <1>2, <1>3, <2>2, <2>3, MinerTurns
<1> QED
  BY <1>4, <1>5

LEMMA FindNonceKeeps ==
  ASSUME ContractInv, MinerInv, NEW m \in Miners, NEW n \in Nonces, findNonce(m, n)
  PROVE  MinerInv'
<1>1. /\ Hits(log, EventsOf(m)) \in Nat /\ Hits(sent[m], Oks) \in Nat /\ counts(m) \in {0, 1}
      /\ rig[m] \in Rigs /\ rig[m].found \in Nat /\ block \in Nat /\ MinerOf(m)
  BY CountsAre DEF MinerInv, Rigs
<1>2. UNCHANGED contract /\ UNCHANGED clock /\ sent' = sent
  BY DEF findNonce
<1>3. rig[m].found <= Hits(sent[m], Oks) /\ rig[m].found <= Hits(log, EventsOf(m))
      /\ rig[m].workBlock <= block
  BY <1>1 DEF MinerOf
<1>4. PICK r : r = [rig[m] EXCEPT !.pc = "check", !.nonce = n]
  OBVIOUS
<1>5. /\ r \in Rigs /\ r.pc = "check" /\ r.nonce \in Nonces
      /\ r.workBlock = rig[m].workBlock /\ r.found = rig[m].found
  BY <1>1, <1>4 DEF Rigs
<1>6. rig' = [rig EXCEPT ![m] = r]
  BY <1>4 DEF findNonce
<1> QED
  BY <1>1, <1>2, <1>3, <1>5, <1>6, MinerTurns

\* The last look at the age leaves the margin that the rest of the way may use up.
LEMMA CheckAgeKeeps ==
  ASSUME ContractInv, MinerInv, NEW m \in Miners, checkAge(m)
  PROVE  MinerInv'
<1>1. /\ Hits(log, EventsOf(m)) \in Nat /\ Hits(sent[m], Oks) \in Nat /\ counts(m) \in {0, 1}
      /\ rig[m] \in Rigs /\ rig[m].found \in Nat /\ block \in Nat /\ MinerOf(m)
  BY CountsAre DEF MinerInv, Rigs
<1>2. UNCHANGED contract /\ UNCHANGED clock /\ sent' = sent /\ rig[m].pc = "check"
  BY DEF checkAge
<1>3. rig[m].found <= Hits(sent[m], Oks) /\ rig[m].found <= Hits(log, EventsOf(m))
      /\ rig[m].workBlock <= block /\ rig[m].nonce \in Nonces
  BY <1>1, <1>2 DEF MinerOf
<1>4. PICK old \in BOOLEAN : old <=> tooOld(rig[m].workBlock)
  OBVIOUS
<1>5. PICK r : r = [rig[m] EXCEPT !.pc = IF old THEN "pool" ELSE "verify",
                                  !.attempt = 1, !.checkedAt = block]
  OBVIOUS
<1>6. /\ r \in Rigs /\ r.pc = (IF old THEN "pool" ELSE "verify") /\ r.nonce = rig[m].nonce
      /\ r.workBlock = rig[m].workBlock /\ r.found = rig[m].found /\ r.checkedAt = block
  BY <1>1, <1>5 DEF Rigs
<1>7. rig' = [rig EXCEPT ![m] = r]
  BY <1>4, <1>5 DEF checkAge
<1>8. ASSUME ~old PROVE Aged(r)
  <2>1. ~(block - rig[m].workBlock > WORK_BLOCK_MAX_AGE)
    BY <1>4, <1>8 DEF tooOld
  <2>2. rig[m].workBlock \in Nat /\ WORK_BLOCK_MAX_AGE \in Nat
    BY <1>1, NetworkAssumption DEF Rigs
  <2>3. block - rig[m].workBlock <= WORK_BLOCK_MAX_AGE
    BY <1>1, <2>1, <2>2
  <2> QED
    BY <1>1, <1>3, <1>6, <2>2, <2>3 DEF Aged
<1>9. /\ r.workBlock <= block /\ r.pc # "wait" /\ r.pc # "send"
      /\ r.pc \in {"check", "verify", "send"} => r.nonce \in Nonces
      /\ r.pc = "verify" => Aged(r)
      /\ r.found <= Hits(sent[m], Oks) /\ r.found <= Hits(log, EventsOf(m))
  BY <1>3, <1>6, <1>8
<1> QED
  BY <1>2, <1>6, <1>7, <1>9, MinerTurns

LEMMA CheckWorkKeeps ==
  ASSUME ContractInv, MinerInv, NEW m \in Miners, checkWork(m)
  PROVE  MinerInv'
<1>1. /\ Hits(log, EventsOf(m)) \in Nat /\ Hits(sent[m], Oks) \in Nat /\ counts(m) \in {0, 1}
      /\ rig[m] \in Rigs /\ rig[m].found \in Nat /\ block \in Nat /\ MinerOf(m)
  BY CountsAre DEF MinerInv, Rigs
<1>2. UNCHANGED contract /\ UNCHANGED clock /\ sent' = sent /\ rig[m].pc = "verify"
  BY DEF checkWork
<1>3. rig[m].found <= Hits(sent[m], Oks) /\ rig[m].found <= Hits(log, EventsOf(m))
      /\ rig[m].workBlock <= block /\ rig[m].nonce \in Nonces /\ Aged(rig[m])
  BY <1>1, <1>2 DEF MinerOf
<1>4. PICK works \in BOOLEAN : works = verifyWork(m, rig[m].nonce, rig[m].workBlock)
  BY DEF verifyWork
<1>5. PICK r : r = [rig[m] EXCEPT !.pc = IF works THEN "send" ELSE "pool"]
  OBVIOUS
<1>6. /\ r \in Rigs /\ r.pc = (IF works THEN "send" ELSE "pool") /\ r.nonce = rig[m].nonce
      /\ r.workBlock = rig[m].workBlock /\ r.found = rig[m].found
      /\ r.checkedAt = rig[m].checkedAt
  BY <1>1, <1>5 DEF Rigs
<1>7. rig' = [rig EXCEPT ![m] = r]
  BY <1>4, <1>5 DEF checkWork
<1>8. ASSUME works PROVE Checked(m, r)
  <2>1. PowHash(m, rig[m].nonce, rig[m].workBlock) < target
    BY <1>4, <1>8 DEF verifyWork
  <2> QED
    BY <1>3, <1>6, <2>1 DEF Checked, Aged
<1>9. /\ r.workBlock <= block /\ r.pc # "wait" /\ r.pc # "verify"
      /\ r.pc \in {"check", "verify", "send"} => r.nonce \in Nonces
      /\ r.pc = "send" => Checked(m, r)
      /\ r.found <= Hits(sent[m], Oks) /\ r.found <= Hits(log, EventsOf(m))
  BY <1>3, <1>6, <1>8
<1> QED
  BY <1>2, <1>6, <1>7, <1>9, MinerTurns

LEMMA SubmitKeeps ==
  ASSUME ContractInv, MinerInv, NEW m \in Miners, submit(m)
  PROVE  MinerInv'
<1>1. /\ UNCHANGED contract /\ UNCHANGED clock /\ rig[m].pc = "send" /\ broadcast(m)
      /\ rig[m] \in Rigs
  BY DEF submit, MinerInv
<1>2. PICK r : r = [rig[m] EXCEPT !.pc = "wait"]
  OBVIOUS
<1>3. /\ r \in Rigs /\ r.pc = "wait" /\ r.nonce = rig[m].nonce /\ r.workBlock = rig[m].workBlock
      /\ r.checkedAt = rig[m].checkedAt /\ r.found = rig[m].found
  BY <1>1, <1>2 DEF Rigs
<1>4. rig' = [rig EXCEPT ![m] = r]
  BY <1>2 DEF submit
<1> QED
  BY <1>1, <1>3, <1>4, MinerBroadcasts

\* Whatever failed, the retry is for the proof that was checked.
LEMMA SubmitFailsKeeps ==
  ASSUME ContractInv, MinerInv, NEW m \in Miners, submitFails(m)
  PROVE  MinerInv'
<1>1. /\ Hits(log, EventsOf(m)) \in Nat /\ Hits(sent[m], Oks) \in Nat /\ counts(m) \in {0, 1}
      /\ rig[m] \in Rigs /\ rig[m].found \in Nat /\ block \in Nat /\ MinerOf(m)
  BY CountsAre DEF MinerInv, Rigs
<1>2. UNCHANGED contract /\ UNCHANGED clock /\ rig[m].pc \in {"send", "wait"}
  BY DEF submitFails
<1>3. PICK r : r = IF attemptsLeft(m) THEN [rig[m] EXCEPT !.pc = "send", !.attempt = @ + 1]
                   ELSE [rig[m] EXCEPT !.pc = "pool"]
  OBVIOUS
<1>4. /\ r \in Rigs /\ r.pc \in {"send", "pool"} /\ r.nonce = rig[m].nonce
      /\ r.workBlock = rig[m].workBlock /\ r.checkedAt = rig[m].checkedAt
      /\ r.found = rig[m].found
  <2>1. CASE attemptsLeft(m)
    <3>1. PICK a \in Nat : a = rig[m].attempt + 1
      BY <1>1 DEF Rigs
    <3>2. r = [rig[m] EXCEPT !.pc = "send", !.attempt = a]
      BY <1>3, <2>1, <3>1
    <3> QED
      BY <1>1, <3>2 DEF Rigs
  <2>2. CASE ~attemptsLeft(m)
    <3>1. r = [rig[m] EXCEPT !.pc = "pool"]
      BY <1>3, <2>2
    <3> QED
      BY <1>1, <3>1 DEF Rigs
  <2> QED
    BY <2>1, <2>2
<1>5. rig' = [rig EXCEPT ![m] = r]
  <2>1. CASE attemptsLeft(m)
    BY <1>3, <2>1 DEF submitFails
  <2>2. CASE ~attemptsLeft(m)
    BY <1>3, <2>2 DEF submitFails
  <2> QED
    BY <2>1, <2>2
<1>6. CASE sent' = sent
  <2>1. Checked(m, rig[m]) /\ rig[m].found <= Hits(log, EventsOf(m))
        /\ rig[m].found <= Hits(sent[m], Oks) /\ rig[m].workBlock <= block
    BY <1>1, <1>2 DEF MinerOf
  <2>2. Checked(m, r)
    BY <1>4, <2>1 DEF Checked
  <2>3. r.nonce \in Nonces
    BY <2>2 DEF Checked
  <2> QED
    BY <1>2, <1>4, <1>5, <1>6, <2>1, <2>2, <2>3, MinerTurns
<1>7. CASE rig[m].pc = "send" /\ broadcast(m)
  BY <1>2, <1>4, <1>5, <1>7, MinerBroadcasts
<1> QED
  BY <1>6, <1>7 DEF submitFails

\* A receipt is counted when its event is there.
LEMMA ReceiveKeeps ==
  ASSUME ContractInv, MinerInv, NEW m \in Miners, receive(m)
  PROVE  MinerInv'
<1>1. /\ Hits(log, EventsOf(m)) \in Nat /\ Hits(sent[m], Oks) \in Nat /\ counts(m) \in {0, 1}
      /\ rig[m] \in Rigs /\ rig[m].found \in Nat /\ block \in Nat /\ MinerOf(m)
  BY CountsAre DEF MinerInv, Rigs
<1>2. PICK ok \in BOOLEAN : ok = mined(sent[m][Len(sent[m])])
  BY DEF mined
<1>3. /\ UNCHANGED contract /\ UNCHANGED clock /\ sent' = sent /\ rig[m].pc = "wait"
      /\ stack = <<>>
      /\ rig' = [rig EXCEPT ![m].pc = "pool", ![m].found = IF ok THEN @ + 1 ELSE @]
  BY <1>2 DEF receive, atRest
<1>4. counts(m) = (IF ok THEN 1 ELSE 0) /\ opened(m) = 0
  BY <1>2, <1>3 DEF counts, opened, mined
<1>5. PICK r : r = [rig[m] EXCEPT !.pc = "pool", !.found = IF ok THEN @ + 1 ELSE @]
  OBVIOUS
<1>6. /\ r \in Rigs /\ r.pc = "pool" /\ r.workBlock = rig[m].workBlock
      /\ r.found = rig[m].found + counts(m)
  <2>1. PICK f \in Nat : f = IF ok THEN rig[m].found + 1 ELSE rig[m].found
    BY <1>1
  <2>2. r = [rig[m] EXCEPT !.pc = "pool", !.found = f]
    BY <1>5, <2>1
  <2>3. f = rig[m].found + counts(m)
    BY <1>1, <1>4, <2>1
  <2> QED
    BY <1>1, <2>2, <2>3 DEF Rigs
<1>7. rig' = [rig EXCEPT ![m] = r]
  BY <1>3, <1>5
<1>8. r.found <= Hits(sent[m], Oks) /\ r.found <= Hits(log, EventsOf(m)) /\ r.workBlock <= block
  BY <1>1, <1>4, <1>6 DEF MinerOf
<1> QED
  BY <1>3, <1>6, <1>7, <1>8, MinerTurns

-----------------------------------------------------------------------------
(* The chain                                                                 *)

LEMMA MineTxKeeps ==
  ASSUME ContractInv, MinerInv, NEW m \in Miners, mineTx(m)
  PROVE  /\ ContractInv' /\ MinerInv'
         /\ money.pool \in Nat /\ money'.pool \in Nat /\ money'.pool <= money.pool
<1>1. /\ sent[m] \in Seq(Txs) /\ block \in Nat /\ MinerOf(m) /\ opened(m) = 0 /\ stack = <<>>
  BY CountsAre DEF MinerInv, opened, mineTx, atRest
<1>2. PICK N \in Nat : N = Len(sent[m])
  BY <1>1, LenProperties
<1>3. PICK i : i = FirstPending(sent[m])
  OBVIOUS
<1>4. i \in 1 .. Len(sent[m]) /\ sent[m][i].status = "pending"
  <2> DEFINE P == {j \in 1 .. N : sent[m][j].status = "pending"}
  <2>1. PICK k \in 1 .. N : k \in P
    BY <1>2 DEF mineTx, SomePending
  <2>2. PICK j \in 1 .. N : j \in P /\ \A l \in 1 .. j - 1 : l \notin P
    <3> HIDE DEF P
    <3> QED
      BY <2>1, FirstPlace
  <2>3. \A l \in 1 .. j - 1 : sent[m][l].status # "pending"
    BY <2>2
  <2> QED
    BY <1>2, <1>3, <2>2, <2>3 DEF FirstPending
<1>5. PICK tx : tx = sent[m][i]
  OBVIOUS
<1>6. tx \in Txs /\ Checked(m, tx)
  BY <1>1, <1>4, <1>5, ElementOfSeq DEF MinerOf
<1>7. PICK o : o = outcome(m, tx)
  OBVIOUS
<1>8. o \in {"ok", "claimed", "stale", "poor"}
      /\ (o = "stale" => ~verifyWork(m, tx.nonce, tx.workBlock))
  BY <1>7 DEF outcome
<1>9. o = "stale" => block - tx.workBlock > WORK_AGE
  <2>1. /\ tx.workBlock \in Nat /\ tx.workBlock <= block
        /\ PowHash(m, tx.nonce, tx.workBlock) < target /\ WORK_AGE \in Nat
    BY <1>1, <1>6, InputAssumption DEF Checked
  <2> QED
    BY <1>1, <1>8, <2>1 DEF verifyWork
<1>10. /\ sent' = [sent EXCEPT ![m][i].status = o, ![m][i].minedAt = block] /\ rig' = rig
       /\ IF o = "ok" THEN mine(m, tx.nonce, tx.workBlock)
          ELSE UNCHANGED contract /\ UNCHANGED clock
  BY <1>3, <1>5, <1>7 DEF mineTx
<1>11. money.pool \in Nat
  BY GoodParts DEF ContractInv, IInv, GoodMoney, MoneyType
<1>12. CASE o = "ok"
  <2>1. tx.nonce \in Nonces /\ tx.workBlock \in Nat /\ mine(m, tx.nonce, tx.workBlock)
    BY <1>6, <1>10, <1>12 DEF Checked
  <2>2. /\ ContractInv'
        /\ money.pool \in Nat /\ money'.pool \in Nat /\ money'.pool <= money.pool
        /\ gov' = gov /\ log' = log /\ block' = block
        /\ stack' # <<>> /\ Top'.event.work = <<m, tx.nonce, tx.workBlock>>
    BY <1>1, <2>1, MineTakes
  <2>3. Top'.event.work[1] = m
    BY <2>2
  <2>4. MinerInv'
    BY <1>1, <1>4, <1>8, <1>10, <1>12, <2>2, <2>3, MinerSettles
  <2> QED
    BY <2>2, <2>4
<1>13. CASE o # "ok"
  <2>1. UNCHANGED contract /\ UNCHANGED clock
    BY <1>10, <1>13
  <2>2. /\ ContractInv' /\ gov' = gov /\ log' = log /\ stack' = stack /\ money' = money
        /\ block' = block
    BY <2>1, SameContract
  <2>3. MinerInv'
    BY <1>1, <1>4, <1>5, <1>8, <1>9, <1>10, <1>13, <2>2, MinerSettles
  <2> QED
    BY <1>11, <2>2, <2>3
<1> QED
  BY <1>12, <1>13

\* Nothing of a miner's own changes.
LEMMA MinersStay ==
  ASSUME ContractInv, ContractInv', MinerInv, UNCHANGED minerVars, gov' = gov, block' >= block,
         \A m \in Miners : ToldOf(m)
  PROVE  MinerInv'
<1>1. rig' = rig /\ sent' = sent
  BY DEF minerVars
<1>2. \A m \in Miners : MinerOf(m)'
  BY <1>1, MinerUntouched
<1> QED
  BY <1>1, <1>2 DEF MinerInv

LEMMA MineReturnedKeeps ==
  ASSUME ContractInv, MinerInv, mineReturned
  PROVE  ContractInv' /\ MinerInv' /\ money' = money
<1>1. /\ ContractInv' /\ stack # <<>> /\ stack' = <<>>
      /\ money' = money /\ gov' = gov /\ block' = block
      /\ Top.event.work \in Works
  BY MineReturnsTakes DEF mineReturned
<1>2. PICK e : log' = Append(log, e) /\ e.work = Top.event.work
  BY MineReturnsTakes DEF mineReturned
<1>3. ASSUME NEW m \in Miners PROVE ToldOf(m)
  <2>1. log \in Seq(Events) /\ log' \in Seq(Events) /\ Hits(log, EventsOf(m)) \in Nat
    BY <1>1, CountsAre, LogNext
  <2>2. e \in Events
    <3>1. PICK n \in Nat : n = Len(log)
      BY <2>1, LenProperties
    <3>2. Len(log') = n + 1 /\ log'[n + 1] = e
      BY <1>2, <2>1, <3>1
    <3> QED
      BY <2>1, <3>2, ElementOfSeq
  <2>3. Hits(Append(log, e), EventsOf(m))
          = Hits(log, EventsOf(m)) + IF e \in EventsOf(m) THEN 1 ELSE 0
    BY <2>1, <2>2, HitsAppend
  <2>4. e \in EventsOf(m) <=> Top.event.work[1] = m
    BY <1>2, <2>2 DEF EventsOf
  <2>5. opened(m)' = 0 /\ opened(m) = IF Top.event.work[1] = m THEN 1 ELSE 0
    BY <1>1 DEF opened
  <2> QED
    BY <1>2, <2>1, <2>3, <2>4, <2>5 DEF ToldOf
<1>4. block \in Nat /\ UNCHANGED minerVars
  BY DEF ContractInv, IInv, mineReturned
<1> QED
  BY <1>1, <1>3, <1>4, MinersStay

-----------------------------------------------------------------------------
(* The watchdog                                                              *)

Refills == [amount: Nat, status: {"pending", "ok"}]
Dogs == [pc: {"check", "funds", "send", "wait"}, amount: 0 .. REFILL_UST]

\* The refill that is sent and not mined yet.
lastPending == refills # <<>> /\ refills[Len(refills)].status = "pending"
onItsWay == IF lastPending THEN refills[Len(refills)].amount ELSE 0

\* One refill at most is on its way, and it is covered.
DogInv ==
  /\ dog \in Dogs /\ refills \in Seq(Refills) /\ wallet \in Nat
  /\ \A i \in 1 .. Len(refills) : refills[i].status = "pending" => i = Len(refills)
  /\ onItsWay <= REFILL_UST /\ onItsWay <= wallet
  /\ dog.pc = "wait" => refills # <<>>

\* A refill is decided on below the threshold, with one other at most on its way.
PoolInv ==
  /\ money.pool + onItsWay < MIN_UST + 2 * REFILL_UST
  /\ dog.pc \in {"funds", "send"} => money.pool + onItsWay < MIN_UST + REFILL_UST

\* Until the watchdog gives up on a refill, it decides on the balance it pays from.
ReserveInv ==
  ~gaveUp => /\ wallet >= GAS_RESERVE + onItsWay
             /\ dog.pc # "wait" => onItsWay = 0
             /\ dog.pc = "send" => wallet >= GAS_RESERVE + dog.amount

LEMMA DogFacts ==
  ASSUME DogInv
  PROVE  /\ onItsWay \in Nat /\ dog.amount \in Nat /\ dog.amount <= REFILL_UST
         /\ REFILL_UST \in Nat /\ MIN_UST \in Nat /\ GAS_RESERVE \in Nat /\ wallet \in Nat
         /\ dog.pc \in {"check", "funds", "send", "wait"}
         /\ nonceFree => onItsWay = 0
<1>1. PICK n \in Nat : n = Len(refills)
  BY LenProperties DEF DogInv
<1>2. REFILL_UST \in Nat /\ MIN_UST \in Nat /\ GAS_RESERVE \in Nat
  BY NetworkAssumption
<1>3. dog.amount \in Nat /\ dog.amount <= REFILL_UST /\ wallet \in Nat
      /\ dog.pc \in {"check", "funds", "send", "wait"}
  BY <1>2 DEF DogInv, Dogs
<1>4. refills # <<>> => n \in 1 .. n
  BY <1>1, EmptySeq DEF DogInv
<1>5. refills # <<>> => refills[n] \in Refills
  BY <1>1, <1>4, ElementOfSeq DEF DogInv
<1>6. onItsWay \in Nat
  BY <1>1, <1>5 DEF onItsWay, lastPending, Refills
<1>7. nonceFree => onItsWay = 0
  BY <1>1, <1>4 DEF nonceFree, onItsWay, lastPending
<1> QED
  BY <1>2, <1>3, <1>6, <1>7

\* A step that leaves the refills alone.
LEMMA DogTurns ==
  ASSUME DogInv, dog' \in Dogs, dog'.pc = "wait" => dog.pc = "wait", refills' = refills,
         wallet' = wallet
  PROVE  DogInv' /\ onItsWay' = onItsWay
<1>1. onItsWay' = onItsWay
  BY DEF onItsWay, lastPending
<1> QED
  BY <1>1 DEF DogInv

\* A refill is sent when none is on its way, and with the funds for it.
LEMMA DogSends ==
  ASSUME DogInv, sendRefill
  PROVE  DogInv' /\ onItsWay' = dog.amount /\ onItsWay = 0 /\ dog'.pc = "wait"
<1>1. PICK t : t = [amount |-> dog.amount, status |-> "pending"]
  OBVIOUS
<1>2. PICK n \in Nat : n = Len(refills)
  BY LenProperties DEF DogInv
<1>3. /\ t \in Refills /\ nonceFree /\ wallet >= dog.amount /\ refills' = Append(refills, t)
      /\ dog' = [dog EXCEPT !.pc = "wait"] /\ wallet' = wallet
      /\ onItsWay = 0 /\ dog.amount \in Nat /\ dog.amount <= REFILL_UST
  BY <1>1, DogFacts DEF sendRefill, Refills
<1>4. /\ refills' \in Seq(Refills) /\ Len(refills') = n + 1 /\ refills'[n + 1] = t
      /\ \A i \in 1 .. n : refills'[i] = refills[i]
  BY <1>2, <1>3, AppendProperties DEF DogInv
<1>5. refills' # <<>>
  BY <1>4
<1>6. onItsWay' = dog.amount
  BY <1>1, <1>4, <1>5 DEF onItsWay, lastPending
<1>7. dog' \in Dogs /\ dog'.pc = "wait"
  BY <1>3 DEF DogInv, Dogs
<1>8. ASSUME NEW i \in 1 .. Len(refills'), refills'[i].status = "pending"
      PROVE  i = Len(refills')
  BY <1>2, <1>3, <1>4, <1>8 DEF nonceFree
<1> QED
  BY <1>3, <1>4, <1>5, <1>6, <1>7, <1>8 DEF DogInv

\* It takes the place of the one on its way, and then the watchdog had given up on that.
LEMMA DogOutbids ==
  ASSUME DogInv, outbidRefill
  PROVE  /\ DogInv' /\ onItsWay' = dog.amount /\ dog'.pc = "wait"
         /\ wallet' = wallet /\ gaveUp' = gaveUp /\ dog.pc = "send"
<1>1. PICK n \in Nat : n = Len(refills)
  BY LenProperties DEF DogInv
<1>2. /\ dog' = [dog EXCEPT !.pc = "wait"] /\ wallet' = wallet /\ gaveUp' = gaveUp
      /\ dog.pc = "send" /\ ~nonceFree /\ wallet >= dog.amount
      /\ refills' = [refills EXCEPT ![n].amount = dog.amount]
  BY <1>1 DEF outbidRefill
<1>3. dog.amount \in Nat /\ dog.amount <= REFILL_UST
  BY DogFacts
<1>4. PICK i \in 1 .. n : refills[i].status = "pending"
  BY <1>1, <1>2 DEF nonceFree
<1>5. n \in 1 .. n /\ refills[n].status = "pending" /\ refills \in Seq(Refills)
  BY <1>1, <1>4 DEF DogInv
<1>6. PICK t : t = [refills[n] EXCEPT !.amount = dog.amount]
  OBVIOUS
<1>7. t \in Refills /\ t.amount = dog.amount /\ t.status = "pending"
  <2>1. refills[n] \in Refills
    BY <1>1, <1>5, ElementOfSeq
  <2> QED
    BY <1>3, <1>5, <1>6, <2>1 DEF Refills
<1>8. PICK q : q = [refills EXCEPT ![n] = t]
  OBVIOUS
<1>9. /\ q \in Seq(Refills) /\ Len(q) = n /\ q[n] = t
      /\ \A j \in 1 .. n : j # n => q[j] = refills[j]
  BY <1>1, <1>5, <1>7, <1>8, ExceptSeq
<1>10. refills' = q /\ q # <<>>
  BY <1>2, <1>4, <1>6, <1>8, <1>9
<1>11. onItsWay' = dog.amount
  BY <1>7, <1>9, <1>10 DEF onItsWay, lastPending
<1>12. dog' \in Dogs /\ dog'.pc = "wait"
  BY <1>2 DEF DogInv, Dogs
<1>13. ASSUME NEW j \in 1 .. Len(q), q[j].status = "pending" PROVE j = Len(q)
  BY <1>1, <1>9, <1>13 DEF DogInv
<1> QED
  BY <1>2, <1>3, <1>9, <1>10, <1>11, <1>12, <1>13 DEF DogInv

\* The refill that is mined is the one on its way.
LEMMA DogIsMined ==
  ASSUME DogInv, refillTx
  PROVE  /\ DogInv' /\ onItsWay' = 0 /\ fund(Deployer, onItsWay) /\ dog' = dog
         /\ wallet' = wallet - onItsWay
<1>1. PICK n \in Nat : n = Len(refills)
  BY LenProperties DEF DogInv
<1>2. PICK i : i = FirstPending(refills)
  OBVIOUS
<1>3. PICK j \in 1 .. n : refills[j].status = "pending" /\ j = n
  BY <1>1 DEF refillTx, SomePending, DogInv
<1>4. \A l \in 1 .. n - 1 : refills[l].status # "pending"
  BY <1>1 DEF DogInv
<1>5. i = n /\ refills[n].status = "pending" /\ n \in 1 .. n
  BY <1>1, <1>2, <1>3, <1>4 DEF FirstPending
<1>6. refills # <<>>
  BY <1>1, <1>5
<1>7. onItsWay = refills[n].amount
  BY <1>1, <1>5, <1>6 DEF onItsWay, lastPending
<1>8. /\ refills' = [refills EXCEPT ![n].status = "ok"] /\ fund(Deployer, onItsWay)
      /\ wallet' = wallet - onItsWay /\ dog' = dog
  BY <1>2, <1>5, <1>7 DEF refillTx
<1>9. PICK u : u = [refills[n] EXCEPT !.status = "ok"]
  OBVIOUS
<1>10. u \in Refills /\ u.status = "ok"
  <2>1. refills[n] \in Refills
    BY <1>1, <1>5, ElementOfSeq DEF DogInv
  <2> QED
    BY <1>9, <2>1 DEF Refills
<1>11. refills' = [refills EXCEPT ![n] = u]
  BY <1>8, <1>9
<1>12. /\ refills' \in Seq(Refills) /\ Len(refills') = n /\ refills'[n] = u
       /\ \A l \in 1 .. n : l # n => refills'[l] = refills[l]
  BY <1>1, <1>5, <1>10, <1>11, ExceptSeq DEF DogInv
<1>13. onItsWay' = 0
  BY <1>10, <1>12 DEF onItsWay, lastPending
<1>14. refills' # <<>>
  BY <1>5, <1>12
<1>15. wallet' \in Nat /\ onItsWay <= wallet /\ REFILL_UST \in Nat
  BY <1>8, DogFacts DEF DogInv
<1>16. \A l \in 1 .. n : refills'[l].status # "pending"
  <2>1. ASSUME NEW l \in 1 .. n PROVE refills'[l].status # "pending"
    <3>1. CASE l = n
      BY <1>10, <1>12, <3>1
    <3>2. CASE l # n
      BY <1>1, <1>12, <3>2 DEF DogInv
    <3> QED
      BY <3>1, <3>2
  <2> QED
    BY <2>1
<1> QED
  BY <1>8, <1>12, <1>13, <1>14, <1>15, <1>16 DEF DogInv

-----------------------------------------------------------------------------
(* The steps                                                                 *)

\* The contract, the clock and the miners are as they were.
LEMMA OthersStay ==
  ASSUME ContractInv, MinerInv, UNCHANGED contract, UNCHANGED clock, UNCHANGED minerVars
  PROVE  ContractInv' /\ MinerInv' /\ money' = money
<1>1. /\ ContractInv' /\ gov' = gov /\ log' = log /\ stack' = stack /\ money' = money
      /\ block' = block
  BY SameContract
<1>2. block \in Nat /\ \A m \in Miners : ToldOf(m)
  BY <1>1, SameTold DEF ContractInv, IInv
<1> QED
  BY <1>1, <1>2, MinersStay

LEMMA MinersMove ==
  ASSUME ContractInv, MinerInv, NEW m \in Miners, Mine(m) \/ submitFails(m)
  PROVE  ContractInv' /\ MinerInv' /\ money' = money /\ UNCHANGED dogVars
<1>1. UNCHANGED contract /\ UNCHANGED clock /\ UNCHANGED dogVars
  BY DEF Mine, takeWork, dropWork, checkAge, checkWork, submit, receive, findNonce, submitFails
<1>2. MinerInv'
  BY TakeWorkKeeps, CheckAgeKeeps, CheckWorkKeeps, SubmitKeeps, SubmitFailsKeeps, ReceiveKeeps,
     FindNonceKeeps
  DEF Mine
<1> QED
  BY <1>1, <1>2, SameContract

\* Only the refill that is mined fills the pool.
LEMMA Moves ==
  ASSUME ContractInv, MinerInv, DogInv, [NetNext]_netVars
  PROVE  /\ ContractInv' /\ MinerInv' /\ money.pool \in Nat /\ money'.pool \in Nat
         /\ \/ /\ refillTx /\ money'.pool = money.pool + onItsWay
            \/ /\ money'.pool <= money.pool
               /\ \/ UNCHANGED dogVars \/ Watch \/ watchFails \/ refillTimesOut
<1>1. money.pool \in Nat
  BY GoodParts DEF ContractInv, IInv, GoodMoney, MoneyType
<1>2. ASSUME NEW m \in Miners, Mine(m) \/ submitFails(m)
      PROVE  ContractInv' /\ MinerInv' /\ money' = money /\ UNCHANGED dogVars
  BY <1>2, MinersMove
<1>3. ASSUME Watch \/ watchFails \/ refillTimesOut
      PROVE  ContractInv' /\ MinerInv' /\ money' = money
  <2>1. UNCHANGED contract /\ UNCHANGED clock /\ UNCHANGED minerVars
    BY <1>3
    DEF Watch, readPool, decideRefill, sendRefill, outbidRefill, refillRefused, refillDone,
        watchFails, refillTimesOut
  <2> QED
    BY <2>1, OthersStay
<1>4. ASSUME refillTx
      PROVE  ContractInv' /\ MinerInv' /\ money'.pool = money.pool + onItsWay
  <2>1. onItsWay \in Nat /\ fund(Deployer, onItsWay)
    BY <1>4, DogFacts, DogIsMined
  <2>2. /\ ContractInv' /\ money'.pool = money.pool + onItsWay
        /\ gov' = gov /\ log' = log /\ stack' = stack /\ block' = block
    BY <2>1, FundTakes
  <2>3. block \in Nat /\ UNCHANGED minerVars /\ \A m \in Miners : ToldOf(m)
    BY <1>4, <2>2, SameTold DEF ContractInv, IInv, refillTx
  <2> QED
    BY <2>2, <2>3, MinersStay
<1>5. ASSUME nextBlock
      PROVE  ContractInv' /\ MinerInv' /\ money' = money /\ UNCHANGED dogVars
  <2>1. PICK dt \in TimeSteps : newBlock(dt)
    BY <1>5 DEF nextBlock
  <2>2. /\ ContractInv' /\ block' = block + 1 /\ block \in Nat
        /\ gov' = gov /\ log' = log /\ stack' = stack /\ money' = money
    BY <2>1, BlockTakes
  <2>3. UNCHANGED minerVars /\ UNCHANGED dogVars /\ \A m \in Miners : ToldOf(m)
    BY <1>5, <2>2, SameTold DEF nextBlock
  <2> QED
    BY <2>2, <2>3, MinersStay
<1>6. ASSUME mineReturned
      PROVE  ContractInv' /\ MinerInv' /\ money' = money /\ UNCHANGED dogVars
  <2>1. UNCHANGED dogVars
    BY <1>6 DEF mineReturned
  <2> QED
    BY <1>6, <2>1, MineReturnedKeeps
<1>7. ASSUME NEW m \in Miners, mineTx(m)
      PROVE  /\ ContractInv' /\ MinerInv' /\ money'.pool \in Nat /\ money'.pool <= money.pool
             /\ UNCHANGED dogVars
  <2>1. UNCHANGED dogVars
    BY <1>7 DEF mineTx
  <2> QED
    BY <1>7, <2>1, MineTxKeeps
<1>8. ASSUME UNCHANGED netVars
      PROVE  ContractInv' /\ MinerInv' /\ money' = money /\ UNCHANGED dogVars
  <2>1. /\ UNCHANGED contract /\ UNCHANGED clock /\ UNCHANGED minerVars /\ UNCHANGED dogVars
    BY <1>8 DEF netVars, contract, clock, minerVars, dogVars
  <2> QED
    BY <2>1, OthersStay
<1> DEFINE Watching == \/ UNCHANGED dogVars \/ Watch \/ watchFails \/ refillTimesOut
<1>9. CASE refillTx
  <2>1. onItsWay \in Nat
    BY DogFacts
  <2> QED
    BY <1>1, <1>4, <1>9, <2>1
<1>10. ASSUME ~refillTx
       PROVE  ContractInv' /\ MinerInv' /\ money'.pool \in Nat /\ money'.pool <= money.pool /\ Watching
  <2>1. ASSUME money' = money PROVE money'.pool \in Nat /\ money'.pool <= money.pool
    BY <1>1, <2>1
  <2>2. \/ \E m \in Miners : Mine(m) \/ submitFails(m)
        \/ Watch \/ watchFails \/ refillTimesOut \/ nextBlock \/ mineReturned
        \/ (\E m \in Miners : mineTx(m)) \/ UNCHANGED netVars
    BY <1>10 DEF NetNext, Chain
  <2>3. CASE \E m \in Miners : Mine(m) \/ submitFails(m)
    BY <1>2, <2>1, <2>3
  <2>4. CASE Watch \/ watchFails \/ refillTimesOut
    BY <1>3, <2>1, <2>4
  <2>5. CASE nextBlock \/ mineReturned \/ UNCHANGED netVars
    BY <1>5, <1>6, <1>8, <2>1, <2>5
  <2>6. CASE \E m \in Miners : mineTx(m)
    BY <1>7, <2>6
  <2> QED
    BY <2>2, <2>3, <2>4, <2>5, <2>6
<1> QED
  BY <1>1, <1>9, <1>10

\* What the watchdog's own steps do to its invariant and to what is on its way.
LEMMA DogStep ==
  ASSUME DogInv, \/ UNCHANGED dogVars \/ Watch \/ watchFails \/ refillTimesOut \/ refillTx
  PROVE  DogInv'
<1>1. CASE UNCHANGED dogVars
  BY <1>1, DogTurns DEF dogVars, DogInv
<1>2. ASSUME dog' = [dog EXCEPT !.pc = "check"] \/ dog' = [dog EXCEPT !.pc = "funds"],
             refills' = refills, wallet' = wallet
      PROVE  DogInv'
  <2>1. dog' \in Dogs /\ dog'.pc # "wait"
    BY <1>2 DEF DogInv, Dogs
  <2> QED
    BY <1>2, <2>1, DogTurns
<1>3. CASE readPool \/ refillRefused \/ refillDone \/ watchFails \/ refillTimesOut
  BY <1>2, <1>3 DEF readPool, refillRefused, refillDone, watchFails, refillTimesOut
<1>4. CASE decideRefill
  <2>1. CASE fundsAbove > 0
    <3>1. PICK a : a = MinOf(REFILL_UST, fundsAbove)
      OBVIOUS
    <3>2. a \in 0 .. REFILL_UST
      BY <2>1, <3>1, DogFacts DEF MinOf, fundsAbove
    <3>3. dog' = [pc |-> "send", amount |-> a] /\ refills' = refills /\ wallet' = wallet
      BY <1>4, <2>1, <3>1 DEF decideRefill
    <3>4. dog' \in Dogs /\ dog'.pc # "wait"
      BY <3>2, <3>3 DEF Dogs
    <3> QED
      BY <3>3, <3>4, DogTurns
  <2>2. CASE ~(fundsAbove > 0)
    BY <1>2, <1>4, <2>2 DEF decideRefill
  <2> QED
    BY <2>1, <2>2
<1>5. CASE sendRefill \/ outbidRefill
  BY <1>5, DogSends, DogOutbids
<1>6. CASE refillTx
  BY <1>6, DogIsMined
<1> QED
  BY <1>1, <1>3, <1>4, <1>5, <1>6 DEF Watch

LEMMA PoolStep ==
  ASSUME ContractInv, MinerInv, DogInv, PoolInv, [NetNext]_netVars
  PROVE  PoolInv'
<1>1. /\ money.pool \in Nat /\ money'.pool \in Nat
      /\ onItsWay \in Nat /\ onItsWay <= REFILL_UST /\ dog.amount \in Nat
      /\ dog.amount <= REFILL_UST /\ REFILL_UST \in Nat /\ MIN_UST \in Nat
  BY Moves, DogFacts DEF DogInv
<1>2. CASE refillTx
  <2>1. money'.pool = money.pool + onItsWay
    <3>1. money' = [money EXCEPT !.pool = @ + onItsWay, !.funded = @ + onItsWay]
      BY <1>2, DogIsMined DEF fund
    <3>2. money \in MoneyType
      BY GoodParts DEF ContractInv, IInv, GoodMoney
    <3> QED
      BY <3>1, <3>2 DEF MoneyType
  <2>2. onItsWay' = 0 /\ dog' = dog
    BY <1>2, DogIsMined
  <2> QED
    BY <1>1, <2>1, <2>2 DEF PoolInv
<1>3. ASSUME money'.pool <= money.pool, onItsWay' = onItsWay,
             dog'.pc \in {"funds", "send"} =>
               \/ dog.pc \in {"funds", "send"} \/ money.pool < MIN_UST
      PROVE  PoolInv'
  BY <1>1, <1>3 DEF PoolInv
<1>4. CASE /\ money'.pool <= money.pool
           /\ \/ UNCHANGED dogVars \/ Watch \/ watchFails \/ refillTimesOut
  <2>1. CASE sendRefill
    <3>1. onItsWay' = dog.amount /\ onItsWay = 0 /\ dog'.pc = "wait" /\ dog.pc = "send"
      BY <2>1, DogSends DEF sendRefill
    <3> QED
      BY <1>1, <1>4, <3>1 DEF PoolInv
  <2>3. CASE outbidRefill
    <3>1. onItsWay' = dog.amount /\ dog'.pc = "wait" /\ dog.pc = "send"
      BY <2>3, DogOutbids
    <3> QED
      BY <1>1, <1>4, <3>1 DEF PoolInv
  <2>2. CASE ~sendRefill /\ ~outbidRefill
    <3>1. refills' = refills
      BY <1>4, <2>2
      DEF Watch, readPool, decideRefill, refillRefused, refillDone, watchFails, refillTimesOut,
          dogVars
    <3>2. onItsWay' = onItsWay
      BY <3>1 DEF onItsWay, lastPending
    <3>3. CASE UNCHANGED dogVars
      BY <1>3, <1>4, <3>2, <3>3 DEF dogVars
    <3>4. CASE readPool
      BY <1>3, <1>4, <3>2, <3>4 DEF readPool
    <3>5. CASE decideRefill
      BY <1>3, <1>4, <3>2, <3>5 DEF decideRefill
    <3>6. CASE refillRefused \/ refillDone \/ watchFails \/ refillTimesOut
      <4>1. dog' = [dog EXCEPT !.pc = "check"] /\ dog \in Dogs
        BY <3>6 DEF refillRefused, refillDone, watchFails, refillTimesOut, DogInv
      <4>2. dog'.pc = "check"
        BY <4>1 DEF Dogs
      <4> QED
        BY <1>3, <1>4, <3>2, <4>2
    <3> QED
      BY <1>4, <2>2, <3>3, <3>4, <3>5, <3>6 DEF Watch
  <2> QED
    BY <2>1, <2>2, <2>3
<1> QED
  BY <1>2, <1>4, Moves

LEMMA ReserveStep ==
  ASSUME DogInv, ReserveInv,
         \/ UNCHANGED dogVars \/ Watch \/ watchFails \/ refillTimesOut \/ refillTx
  PROVE  ReserveInv'
<1>1. /\ onItsWay \in Nat /\ dog.amount \in Nat /\ GAS_RESERVE \in Nat /\ wallet \in Nat
      /\ onItsWay <= wallet /\ REFILL_UST \in Nat
      /\ dog \in Dogs
  BY DogFacts DEF DogInv
<1>2. SUFFICES ASSUME ~gaveUp' PROVE ReserveInv'
  BY DEF ReserveInv
<1>3. ~gaveUp
  BY <1>2
  DEF Watch, readPool, decideRefill, sendRefill, outbidRefill, refillRefused, refillDone,
      watchFails, refillTimesOut, refillTx, dogVars
<1>4. /\ wallet >= GAS_RESERVE + onItsWay
      /\ dog.pc # "wait" => onItsWay = 0
      /\ dog.pc = "send" => wallet >= GAS_RESERVE + dog.amount
  BY <1>3 DEF ReserveInv
<1>5. CASE UNCHANGED dogVars
  <2>1. onItsWay' = onItsWay /\ wallet' = wallet /\ dog' = dog
    BY <1>5 DEF dogVars, onItsWay, lastPending
  <2> QED
    BY <1>4, <2>1 DEF ReserveInv
<1>6. CASE sendRefill
  <2>1. onItsWay' = dog.amount /\ dog'.pc = "wait" /\ wallet' = wallet /\ dog.pc = "send"
    BY <1>6, DogSends DEF sendRefill
  <2> QED
    BY <1>4, <2>1 DEF ReserveInv
<1>7. CASE refillTx
  <2>1. onItsWay' = 0 /\ wallet' = wallet - onItsWay /\ dog' = dog
    BY <1>7, DogIsMined
  <2>2. wallet' >= GAS_RESERVE + onItsWay'
    BY <1>1, <1>4, <2>1
  <2>3. ASSUME dog.pc = "send" PROVE wallet' >= GAS_RESERVE + dog.amount
    BY <1>1, <1>4, <2>1, <2>3
  <2> QED
    BY <2>1, <2>2, <2>3 DEF ReserveInv
<1>8. ASSUME refills' = refills, wallet' = wallet, dog'.pc \in {"check", "funds"},
             dog.pc = "wait" => ~lastPending
      PROVE  ReserveInv'
  <2>1. onItsWay' = onItsWay /\ onItsWay = 0
    BY <1>4, <1>8 DEF onItsWay, lastPending
  <2> QED
    BY <1>4, <1>8, <2>1 DEF ReserveInv
<1>9. CASE readPool \/ refillRefused \/ watchFails
  <2>1. refills' = refills /\ wallet' = wallet /\ dog'.pc \in {"check", "funds"} /\ dog.pc # "wait"
    BY <1>1, <1>9 DEF readPool, refillRefused, watchFails, Dogs
  <2> QED
    BY <1>8, <2>1
<1>10. CASE refillDone
  <2>1. refills' = refills /\ wallet' = wallet /\ dog'.pc = "check" /\ ~lastPending
    BY <1>1, <1>10 DEF refillDone, Dogs, lastPending
  <2> QED
    BY <1>8, <2>1
<1>11. CASE decideRefill
  <2>1. refills' = refills /\ wallet' = wallet /\ dog.pc = "funds"
    BY <1>11 DEF decideRefill
  <2>2. CASE fundsAbove > 0
    <3>1. PICK a : a = MinOf(REFILL_UST, fundsAbove)
      OBVIOUS
    <3>2. a \in Nat /\ a <= wallet - GAS_RESERVE
      BY <1>1, <2>2, <3>1 DEF MinOf, fundsAbove
    <3>3. dog'.pc = "send" /\ dog'.amount = a
      BY <1>11, <2>2, <3>1 DEF decideRefill
    <3>4. onItsWay' = 0 /\ onItsWay = 0
      BY <1>4, <2>1 DEF onItsWay, lastPending
    <3>5. wallet >= GAS_RESERVE + a
      BY <1>1, <3>2
    <3> QED
      BY <1>4, <2>1, <3>3, <3>4, <3>5 DEF ReserveInv
  <2>3. CASE ~(fundsAbove > 0)
    <3>1. dog'.pc = "check"
      BY <1>1, <1>11, <2>3 DEF decideRefill, Dogs
    <3> QED
      BY <1>8, <2>1, <3>1
  <2> QED
    BY <2>2, <2>3
<1>12. CASE refillTimesOut
  BY <1>2, <1>12 DEF refillTimesOut
<1>13. CASE outbidRefill
  <2>1. onItsWay' = dog.amount /\ dog'.pc = "wait" /\ wallet' = wallet /\ dog.pc = "send"
    BY <1>13, DogOutbids
  <2> QED
    BY <1>4, <2>1 DEF ReserveInv
<1> QED
  BY <1>5, <1>6, <1>7, <1>9, <1>10, <1>11, <1>12, <1>13 DEF Watch

-----------------------------------------------------------------------------
(* What the runs check, for every network *)

LEMMA NetStarts ==
  ASSUME NetInit
  PROVE  ContractInv /\ MinerInv /\ DogInv
<1>1. ContractInv
  BY InitGood DEF NetInit, Init, ContractInv, FrameInv
<1>2. PICK r : r = [pc |-> "pool", workBlock |-> 0, nonce |-> 0, attempt |-> 0,
                    checkedAt |-> 0, found |-> 0]
  OBVIOUS
<1>3. r \in Rigs /\ r.pc = "pool" /\ r.workBlock = 0 /\ r.found = 0
  BY <1>2 DEF Rigs
<1>4. /\ rig = [m \in Miners |-> r] /\ sent = [m \in Miners |-> <<>>]
      /\ log = <<>> /\ stack = <<>> /\ block \in Nat
  BY <1>1, <1>2 DEF NetInit, Init, ContractInv, IInv
<1>5. ASSUME NEW m \in Miners PROVE MinerOf(m)
  <2>1. Hits(sent[m], Oks) = 0 /\ Hits(log, EventsOf(m)) = 0
    BY <1>4, HitsEmpty
  <2>2. counts(m) = 0 /\ opened(m) = 0 /\ rig[m] = r /\ sent[m] = <<>>
    BY <1>3, <1>4 DEF counts, opened
  <2>3. Len(sent[m]) = 0
    BY <2>2
  <2> QED
    BY <1>3, <1>4, <2>1, <2>2, <2>3 DEF MinerOf
<1>6. MinerInv
  BY <1>3, <1>4, <1>5 DEF MinerInv
<1>7. /\ dog = [pc |-> "check", amount |-> 0] /\ refills = <<>> /\ wallet = DeployerFunds
      /\ DeployerFunds \in Nat /\ REFILL_UST \in Nat
  BY NetworkAssumption DEF NetInit
<1>8. onItsWay = 0 /\ dog \in Dogs /\ dog.pc = "check"
  BY <1>7 DEF onItsWay, lastPending, Dogs
<1>9. DogInv
  BY <1>7, <1>8 DEF DogInv
<1> QED
  BY <1>1, <1>6, <1>9

LEMMA NetSteps ==
  ASSUME ContractInv, MinerInv, DogInv, [NetNext]_netVars
  PROVE  ContractInv' /\ MinerInv' /\ DogInv'
  BY Moves, DogStep

\* The invariant of the whole: the contract among its programs, each miner's
\* transactions against the contract's log, and the watchdog's against its account.
THEOREM NetInductive == NetSpec => [](ContractInv /\ MinerInv /\ DogInv)
<1>1. NetInit => ContractInv /\ MinerInv /\ DogInv
  BY NetStarts
<1>2. (ContractInv /\ MinerInv /\ DogInv) /\ [NetNext]_netVars
        => (ContractInv /\ MinerInv /\ DogInv)'
  BY NetSteps
<1> QED
  BY <1>1, <1>2, PTL DEF NetSpec

\* blocks_found is never ahead of what the contract paid the miner, for any number
\* of miners, retries and transactions mined late (miner/usst_miner.py:211-238, 388-391).
THEOREM FoundAreMined == NetSpec => []FoundIsMined
<1>1. ContractInv /\ MinerInv => FoundIsMined
  <2> SUFFICES ASSUME ContractInv, MinerInv, NEW m \in Miners
               PROVE  rig[m].found <= Cardinality(MinedBy(m))
    BY DEF FoundIsMined
  <2>1. log \in Seq(Events) /\ rig[m].found <= Hits(log, EventsOf(m))
    BY CountsAre DEF MinerInv, MinerOf
  <2>2. \A i \in 1 .. Len(log) : log[i] \in EventsOf(m) <=> log[i].work[1] = m
    BY <2>1, ElementOfSeq DEF EventsOf
  <2>3. MinedBy(m) = Places(log, EventsOf(m), Len(log))
    BY <2>2 DEF MinedBy, Places
  <2> QED
    BY <2>1, <2>3 DEF Hits
<1> QED
  BY <1>1, NetInductive, PTL

\* A proof that passed the last checks goes stale on its way only if the way took
\* more blocks than WORK_AGE - WORK_BLOCK_MAX_AGE, through whatever retries
\* (miner/usst_miner.py:90-91, 187-226; contracts/USSTMine.sol:149).
THEOREM MarginKept == NetSpec => []MarginIsEnough
<1>1. MinerInv => MarginIsEnough
  BY DEF MinerInv, MinerOf, Margin, MarginIsEnough
<1> QED
  BY <1>1, NetInductive, PTL

\* A pool that starts below the bound, as deploy.py's 10000 UST do below the
\* watchdog's 1000 + 2 * 5000, stays below it: the watchdog overshoots by one refill
\* at most, however many it gave up on (scripts/deploy.py:24;
\* scripts/pool-watchdog.py:71-72, 110-162).
THEOREM PoolStaysBounded ==
  ASSUME InitialFund < MIN_UST + 2 * REFILL_UST
  PROVE  NetSpec => []PoolBounded
<1>1. NetInit => PoolInv
  <2> SUFFICES ASSUME NetInit PROVE PoolInv
    OBVIOUS
  <2>1. money.pool = InitialFund /\ dog.pc = "check" /\ refills = <<>>
    BY DEF NetInit, Init
  <2>2. onItsWay = 0 /\ InitialFund \in Nat
    BY <2>1, InputAssumption DEF onItsWay, lastPending
  <2> QED
    BY <2>1, <2>2 DEF PoolInv
<1>2. (ContractInv /\ MinerInv /\ DogInv) /\ PoolInv /\ [NetNext]_netVars => PoolInv'
  BY PoolStep
<1>3. (ContractInv /\ MinerInv /\ DogInv) /\ PoolInv => PoolBounded
  <2> SUFFICES ASSUME ContractInv, DogInv, PoolInv PROVE PoolBounded
    OBVIOUS
  <2>1. money.pool \in Nat /\ onItsWay \in Nat /\ MIN_UST \in Nat /\ REFILL_UST \in Nat
    BY GoodParts, DogFacts DEF ContractInv, IInv, GoodMoney, MoneyType
  <2> QED
    BY <2>1 DEF PoolInv, PoolBounded
<1> QED
  BY <1>1, <1>2, <1>3, NetInductive, PTL DEF NetSpec

\* An account that starts with the gas reserve keeps it until the watchdog gives up
\* on a refill that is still to be mined (scripts/pool-watchdog.py:110-123, 132, 141-149).
THEOREM ReserveStays ==
  ASSUME DeployerFunds >= GAS_RESERVE
  PROVE  NetSpec => []ReserveKept
<1>1. NetInit => ReserveInv
  <2> SUFFICES ASSUME NetInit PROVE ReserveInv
    OBVIOUS
  <2>1. wallet = DeployerFunds /\ dog.pc = "check" /\ refills = <<>>
    BY DEF NetInit
  <2>2. onItsWay = 0 /\ DeployerFunds \in Nat /\ GAS_RESERVE \in Nat
    BY <2>1, NetworkAssumption DEF onItsWay, lastPending
  <2> QED
    BY <2>1, <2>2 DEF ReserveInv
<1>2. (ContractInv /\ MinerInv /\ DogInv) /\ ReserveInv /\ [NetNext]_netVars => ReserveInv'
  <2> SUFFICES ASSUME ContractInv, MinerInv, DogInv, ReserveInv, [NetNext]_netVars
               PROVE  ReserveInv'
    OBVIOUS
  <2> QED
    BY Moves, ReserveStep
<1>3. (ContractInv /\ MinerInv /\ DogInv) /\ ReserveInv => ReserveKept
  <2> SUFFICES ASSUME DogInv, ReserveInv, ~gaveUp PROVE wallet >= GAS_RESERVE
    BY DEF ReserveKept
  <2>1. onItsWay \in Nat /\ GAS_RESERVE \in Nat /\ wallet \in Nat
    BY DogFacts
  <2> QED
    BY <2>1 DEF ReserveInv
<1> QED
  BY <1>1, <1>2, <1>3, NetInductive, PTL DEF NetSpec

\* The balance of the contract's books survives among its programs, late and
\* repeated transactions included (contracts/USSTMine.sol:143-233).
THEOREM NetConserves == NetSpec => []Conservation
<1>1. ContractInv => Conservation
  BY DEF ContractInv, IInv, Good, Conservation
<1> QED
  BY <1>1, NetInductive, PTL
=============================================================================
