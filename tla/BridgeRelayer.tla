---------------------------- MODULE BridgeRelayer ----------------------------
(***************************************************************************)
(* scripts/bridge-relayer.py between the two chains it serves.             *)
(*                                                                         *)
(* The relayer is a process: `pc' says where main() is, `mem' is what it   *)
(* holds in memory and `disk' the two files a restart finds.  Chain 778889 *)
(* is BridgedUSDT, reached through a mempool; Ethereum is the blocks with  *)
(* USDT transfers to the treasury and the payouts from it.  The process    *)
(* may stop between any two steps, and an RPC call may fail.  The clock is *)
(* the head of Ethereum: an hour is HOUR of its blocks.                    *)
(***************************************************************************)
EXTENDS BridgedUSDT, Sequences, FiniteSets

CONSTANTS
  MIN_USDT, MAX_USDT, RATE_LIMIT, HOUR,          \* 3600 seconds, in blocks of Ethereum
  DEPOSIT_WINDOW, WITHDRAW_WINDOW, PEBBLE_SKIP,  \* 100, 500 and 50 blocks
  NoState,             \* load_json's default: no usable state file
  TornWrites,          \* whether save_json may be cut off half way
  MaxEthBlock, MaxUstBlock, MaxCrashes, MaxFaults  \* bounds of the model

ASSUME RelayerAssumption ==
  /\ MIN_USDT \in Nat /\ MAX_USDT \in Nat /\ RATE_LIMIT \in Nat /\ HOUR \in Nat
  /\ DEPOSIT_WINDOW \in Nat /\ WITHDRAW_WINDOW \in Nat /\ PEBBLE_SKIP \in Nat
  /\ TornWrites \in BOOLEAN
  /\ MaxEthBlock \in Nat /\ MaxUstBlock \in Nat
  /\ MaxCrashes \in Nat /\ MaxFaults \in Nat
\* All the USDT that is ever deposited, at most MAX_USDT a time, fits a uint256.
ASSUME SupplyFits == MaxEthBlock * MAX_USDT <= MAX_UINT

VARIABLES
  eth,       \* head block, USDT deposits in order, balance of the treasury
  ust,       \* head block, BridgeWithdraw events in order
  mempool,   \* bridgeMint transactions broadcast and not yet mined, by hash
  payouts,   \* per burn: payments broadcast, and payments made
  pc, todo,  \* where main() is, and what is left of the scanned events
  mem, disk,
  seen,      \* observed: deposits and burns the relayer has looked at; its cursor at
             \* its last stop, the lowest it saved, and the blocks it jumped over
             \* each time it began without a usable state file
  broadcast, \* observed: the mints broadcast, each with its sender and its time
  crashes, faults

chains == <<eth, ust, mempool, payouts>>
process == <<pc, todo, mem>>
observed == <<seen, broadcast>>
budget == <<crashes, faults>>
vars == <<tokenVars, eth, ust, mempool, payouts, pc, todo, mem, disk, seen,
          broadcast, crashes, faults>>

Users == Holders \ {FirstOperator}
MinOf(a, b) == IF a <= b THEN a ELSE b

\* The events of blocks from .. to, in the order eth_getLogs returns them.
Logs(events, from, to) ==
  LET upTo[i \in 0 .. Len(events)] ==
        IF i = 0 THEN <<>>
        ELSE IF events[i].block >= from /\ events[i].block <= to
          THEN Append(upTo[i - 1], events[i])
          ELSE upTo[i - 1]
  IN upTo[Len(events)]

-----------------------------------------------------------------------------
(* The chains and their users *)

\* A block of Ethereum: empty, or with one USDT transfer to the treasury.
ethBlock ==
  /\ eth.head < MaxEthBlock
  /\ eth' = [eth EXCEPT !.head = @ + 1]
  /\ UNCHANGED <<tokenVars, ust, mempool, payouts, process, disk, observed, budget>>

depositUSDT(user, tx, amount) ==
  /\ eth.head < MaxEthBlock
  /\ \A i \in 1 .. Len(eth.deposits) : eth.deposits[i].tx # tx
  /\ eth' = [head |-> eth.head + 1, treasury |-> eth.treasury + amount,
             deposits |-> Append(eth.deposits, [tx |-> tx, from |-> user,
                                 amount |-> amount, block |-> eth.head + 1])]
  /\ UNCHANGED <<tokenVars, ust, mempool, payouts, process, disk, observed, budget>>

\* A block of chain 778889 with a burn; "valid" is a well-formed ethAddress.
burnUSDT(user, amount, valid) ==
  /\ ust.head < MaxUstBlock
  /\ bridgeBurn(user, amount)
  /\ ust' = [head |-> ust.head + 1,
             burns |-> Append(ust.burns, [id |-> Len(ust.burns) + 1,
                              amount |-> amount, valid |-> valid,
                              block |-> ust.head + 1])]
  /\ UNCHANGED <<eth, mempool, payouts, process, disk, observed, budget>>

\* A mint is mined: executed by BridgedUSDT, or reverted when it is a duplicate.
mineMint(tx) ==
  /\ mempool[tx] > 0
  /\ mempool' = [mempool EXCEPT ![tx] = @ - 1]
  /\ \E i \in 1 .. Len(eth.deposits) :
       LET d == eth.deposits[i] IN
       /\ d.tx = tx
       /\ IF mintable(FirstOperator, d.from, d.amount, tx)
            THEN bridgeMint(FirstOperator, d.from, d.amount, tx)
            ELSE UNCHANGED tokenVars
  /\ UNCHANGED <<eth, ust, payouts, process, disk, observed, budget>>

\* A payout is mined on Ethereum; it fails if the treasury no longer covers it.
minePayout(id) ==
  LET b == ust.burns[id] IN
  /\ id <= Len(ust.burns) /\ payouts.sent[id] > payouts.mined[id]
  /\ IF eth.treasury >= b.amount
       THEN /\ eth' = [eth EXCEPT !.treasury = @ - b.amount]
            /\ payouts' = [payouts EXCEPT !.mined[id] = @ + 1, !.paid[id] = @ + 1]
       ELSE /\ payouts' = [payouts EXCEPT !.mined[id] = @ + 1]
            /\ UNCHANGED eth
  /\ UNCHANGED <<tokenVars, ust, mempool, process, disk, observed, budget>>

-----------------------------------------------------------------------------
(* The relayer.  A definition whose name ends in _bug is a plausible mistake *)
(* in the one that follows it, used by no action.                            *)

\* Lines 240-250: resume from the files, or start at the heads of the chains.
start ==
  /\ pc = "down"
  /\ pc' = "poll" /\ todo' = <<>>
  /\ LET s == IF disk.state # NoState THEN disk.state
              ELSE [eth |-> eth.head, ust |-> ust.head]
     IN mem' = [ethLast |-> s.eth, ustLast |-> s.ust, ethTo |-> s.eth,
                ustHead |-> s.ust, processed |-> disk.processed, window |-> {}]
  /\ seen' = IF disk.state # NoState THEN seen
             ELSE [seen EXCEPT !.jumped = @ \cup (seen.stopped + 1) .. eth.head,
                               !.ustFrom = ust.head]
  /\ UNCHANGED <<tokenVars, chains, disk, broadcast, budget>>

depositsUpTo_bug == eth.head
depositsUpTo == MinOf(eth.head, mem.ethLast + 1 + DEPOSIT_WINDOW)

\* Lines 254-261: both heads are read once, at the beginning of the iteration.
poll ==
  /\ pc = "poll"
  /\ mem' = [mem EXCEPT !.ethTo = IF eth.head > mem.ethLast THEN depositsUpTo
                                  ELSE mem.ethLast,
                        !.ustHead = ust.head]
  /\ todo' = Logs(eth.deposits, mem.ethLast + 1,
                  MinOf(eth.head, mem.ethLast + 1 + DEPOSIT_WINDOW))
  /\ pc' = "deposits"
  /\ UNCHANGED <<tokenVars, chains, disk, observed, budget>>

withinLimits(d) == d.amount >= MIN_USDT /\ d.amount <= MAX_USDT
\* check_rate_limit looks at the sender's own entries of the last hour.
windowOf(d) == {e \in mem.window : e.from = d.from /\ eth.head - e.at < HOUR}
rateAllows_bug(d) == Cardinality(windowOf(d)) <= RATE_LIMIT
rateAllows(d) == Cardinality(windowOf(d)) < RATE_LIMIT

lookedAt(d) == seen' = [seen EXCEPT !.deposits = @ \cup {d.tx}]

\* Lines 266-282: skipped, for good, since eth_last will pass it.
skipDeposit ==
  /\ pc = "deposits" /\ todo # <<>>
  /\ LET d == Head(todo) IN
     /\ d.tx \in mem.processed \/ ~withinLimits(d) \/ ~rateAllows(d)
     /\ lookedAt(d)
  /\ todo' = Tail(todo)
  /\ UNCHANGED <<tokenVars, chains, pc, mem, disk, broadcast, budget>>

\* The cache as mint_bridged is called: the hash is not in it yet.
cacheAtSend_bug(d) == mem.processed \cup {d.tx}
cacheAtSend(d) == mem.processed

\* Line 286, the whole of send_tx.  "sent": eth_estimateGas accepts the mint and it
\* is broadcast; "rejected": the contract would revert it; "unanswered": broadcast,
\* but the answer is lost; "failed": some earlier call fails.  All but the first
\* raise, and the deposit is not tried again (290-291).
mintDeposit(outcome) ==
  /\ pc = "deposits" /\ todo # <<>>
  /\ LET d == Head(todo)
         entry == [tx |-> d.tx, from |-> d.from, at |-> eth.head]
     IN
     /\ d.tx \notin mem.processed /\ withinLimits(d) /\ rateAllows(d)
     /\ mem' = [mem EXCEPT !.window = @ \cup {entry}, !.processed = cacheAtSend(d)]
     /\ mintable(FirstOperator, d.from, d.amount, d.tx) <=> outcome # "rejected"
     /\ IF outcome \in {"sent", "unanswered"}
          THEN /\ mempool' = [mempool EXCEPT ![d.tx] = @ + 1]
               /\ broadcast' = broadcast \cup {entry}
          ELSE UNCHANGED <<mempool, broadcast>>
     /\ lookedAt(d)
  /\ IF outcome = "sent" THEN pc' = "record" /\ UNCHANGED todo
     ELSE pc' = pc /\ todo' = Tail(todo)
  /\ IF outcome \in {"sent", "rejected"} THEN UNCHANGED faults
     ELSE faults < MaxFaults /\ faults' = faults + 1
  /\ UNCHANGED <<tokenVars, eth, ust, payouts, disk, crashes>>

\* Lines 287-288: the mint was broadcast; the hash goes to the cache file.
recordDeposit ==
  /\ pc = "record"
  /\ mem' = [mem EXCEPT !.processed = @ \cup {Head(todo).tx}]
  /\ disk' = [disk EXCEPT !.processed = mem'.processed]
  /\ todo' = Tail(todo) /\ pc' = "deposits"
  /\ UNCHANGED <<tokenVars, chains, observed, budget>>

\* Line 293.
depositsDone ==
  /\ pc = "deposits" /\ todo = <<>>
  /\ mem' = [mem EXCEPT !.ethLast = mem.ethTo]
  /\ pc' = "scan"
  /\ UNCHANGED <<tokenVars, chains, todo, disk, observed, budget>>

\* Lines 296-299.
scanWithdrawals ==
  /\ pc = "scan"
  /\ IF mem.ustHead > mem.ustLast
       THEN /\ todo' = Logs(ust.burns, mem.ustLast + 1,
                            MinOf(mem.ustHead, mem.ustLast + 1 + WITHDRAW_WINDOW))
            /\ pc' = "withdrawals"
       ELSE pc' = "save" /\ UNCHANGED todo
  /\ UNCHANGED <<tokenVars, chains, mem, disk, observed, budget>>

\* The scan fails: the iteration ends unsaved; or, on a node that lost old blocks,
\* the cursor skips ahead and is saved as at line 332 (334-343).
scanFails(pebble) ==
  /\ pc = "scan" /\ mem.ustHead > mem.ustLast
  /\ faults < MaxFaults /\ faults' = faults + 1
  /\ IF pebble THEN mem' = [mem EXCEPT !.ustLast = @ + PEBBLE_SKIP] /\ pc' = "save"
     ELSE UNCHANGED mem /\ pc' = "poll"
  /\ UNCHANGED <<tokenVars, chains, todo, disk, observed, crashes>>

handled(b) ==
  /\ seen' = [seen EXCEPT !.burns = @ \cup {b.id}]
  /\ todo' = Tail(todo)

\* Lines 305-322: a bad address, no gas (a fault), or a treasury that is too low.
skipWithdrawal ==
  /\ pc = "withdrawals" /\ todo # <<>>
  /\ LET b == Head(todo) IN
     /\ handled(b)
     /\ IF ~b.valid \/ eth.treasury < b.amount THEN UNCHANGED faults
        ELSE faults < MaxFaults /\ faults' = faults + 1
  /\ UNCHANGED <<tokenVars, chains, pc, mem, disk, broadcast, crashes>>

\* Line 325: the payout is broadcast.
payWithdrawal ==
  /\ pc = "withdrawals" /\ todo # <<>>
  /\ LET b == Head(todo) IN
     /\ b.valid /\ eth.treasury >= b.amount
     /\ payouts' = [payouts EXCEPT !.sent[b.id] = @ + 1]
     /\ handled(b)
  /\ UNCHANGED <<tokenVars, eth, ust, mempool, pc, mem, disk, broadcast, budget>>

\* Line 330: the cursor goes to the head read at line 255, not to to_blk.
burnsUpTo_bug == mem.ustLast
burnsUpTo == mem.ustHead

withdrawalsDone ==
  /\ pc = "withdrawals" /\ todo = <<>>
  /\ mem' = [mem EXCEPT !.ustLast = burnsUpTo]
  /\ pc' = "save"
  /\ UNCHANGED <<tokenVars, chains, todo, disk, observed, budget>>

\* Line 332, or 343 after a skip.
save ==
  /\ pc = "save"
  /\ disk' = [disk EXCEPT !.state = [eth |-> mem.ethLast, ust |-> mem.ustLast]]
  /\ seen' = [seen EXCEPT !.saved = MinOf(@, mem.ethLast)]
  /\ pc' = "poll"
  /\ UNCHANGED <<tokenVars, chains, todo, mem, broadcast, budget>>

NoMemory == [ethLast |-> 0, ustLast |-> 0, ethTo |-> 0, ustHead |-> 0,
             processed |-> {}, window |-> {}]

\* The process stops; write_text may have emptied the file it was writing.
crash ==
  /\ pc # "down" /\ crashes < MaxCrashes
  /\ crashes' = crashes + 1
  /\ pc' = "down" /\ todo' = <<>> /\ mem' = NoMemory
  /\ seen' = [seen EXCEPT !.stopped = mem.ethLast]
  /\ \/ UNCHANGED disk
     \/ TornWrites /\ pc = "save" /\ disk' = [disk EXCEPT !.state = NoState]
     \/ TornWrites /\ pc = "record" /\ disk' = [disk EXCEPT !.processed = {}]
  /\ UNCHANGED <<tokenVars, chains, broadcast, faults>>

-----------------------------------------------------------------------------
MaxBurns == MaxUstBlock

Init ==
  /\ TokenInit
  /\ eth = [head |-> 0, deposits |-> <<>>, treasury |-> 0]
  /\ ust = [head |-> 0, burns |-> <<>>]
  /\ mempool = [t \in EthTxs |-> 0]
  /\ payouts = [sent |-> [i \in 1 .. MaxBurns |-> 0],
                mined |-> [i \in 1 .. MaxBurns |-> 0],
                paid |-> [i \in 1 .. MaxBurns |-> 0]]
  /\ pc = "down" /\ todo = <<>>
  /\ mem = NoMemory
  /\ disk = [state |-> NoState, processed |-> {}]
  /\ seen = [deposits |-> {}, burns |-> {}, stopped |-> 0, saved |-> MaxEthBlock,
             jumped |-> {}, ustFrom |-> 0]
  /\ broadcast = {}
  /\ crashes = 0 /\ faults = 0

Environment ==
  \/ ethBlock
  \/ \E u \in Users, v \in Values :
       \/ \E t \in EthTxs : depositUSDT(u, t, v)
       \/ \E valid \in BOOLEAN : burnUSDT(u, v, valid)
  \/ \E id \in 1 .. MaxBurns : minePayout(id)

Relayer ==
  \/ start \/ poll
  \/ skipDeposit \/ mintDeposit("sent") \/ mintDeposit("rejected")
  \/ recordDeposit \/ depositsDone
  \/ scanWithdrawals \/ skipWithdrawal \/ payWithdrawal \/ withdrawalsDone
  \/ save

Faults ==
  \/ mintDeposit("failed") \/ mintDeposit("unanswered")
  \/ scanFails(TRUE) \/ scanFails(FALSE)
  \/ crash

Next == Environment \/ (\E t \in EthTxs : mineMint(t)) \/ Relayer \/ Faults

Spec == Init /\ [][Next]_vars

\* The container restarts the process, which loops; validators mine what is
\* broadcast.  Users, faults and crashes owe nothing.
FairSpec == Spec /\ WF_vars(Relayer) /\ \A t \in EthTxs : WF_vars(mineMint(t))

-----------------------------------------------------------------------------
(* Properties *)

\* Below the cursor of the deposits, in memory or in the state file.
ethScanned(b) == b <= mem.ethLast \/ (disk.state # NoState /\ b <= disk.state.eth)

\* Scans pass no deposit over: whatever lies below the cursor was looked at, however
\* many blocks a scan was limited to and wherever the process stopped (258-263, 293,
\* 332), but for the blocks a start without a usable state file jumps over: those
\* above the cursor the process had when it stopped, up to the head (240-247).
NoDepositPassedOver ==
  \A i \in 1 .. Len(eth.deposits) :
    LET d == eth.deposits[i] IN
    ethScanned(d.block) /\ d.block \notin seen.jumped => d.tx \in seen.deposits

\* "deposits are processed automatically by the relayer" (bridge.html:121): once the
\* relayer has saved its state, each deposit above that cursor is looked at before
\* the cursor goes past it (95, 240-247).
DepositsProcessed ==
  \A i \in 1 .. Len(eth.deposits) :
    LET d == eth.deposits[i] IN
    ethScanned(d.block) /\ d.block > seen.saved => d.tx \in seen.deposits

\* The same of burns (296-299, 330).
NoBurnPassedOver ==
  \A i \in 1 .. Len(ust.burns) :
    LET b == ust.burns[i] IN
    /\ b.block > seen.ustFrom
    /\ \/ b.block <= mem.ustLast
       \/ disk.state # NoState /\ b.block <= disk.state.ust
    => b.id \in seen.burns

\* The cache names only deposits whose mint was broadcast; one it named too early
\* would be skipped for ever after a restart (267, 286-288).
CacheIsBacked ==
  \A t \in mem.processed \cup disk.processed :
    mempool[t] > 0 \/ t \in processedDeposits

\* The mints of a user broadcast in the hour that ends with block b.
mintedInHour(u, b) == {e \in broadcast : e.from = u /\ b - HOUR < e.at /\ e.at <= b}

\* The window is lost with the process: in any hour of the clock an address is minted
\* RATE_LIMIT times and, for each stop, at most RATE_LIMIT times more, whichever
\* calls fail or go unanswered in between (98-107).
RateLimitKept ==
  \A u \in Users, b \in 0 .. eth.head :
    Cardinality(mintedInHour(u, b)) <= RATE_LIMIT * (1 + crashes)

\* Scans never pay for a burn twice: only a stop can make one come up again, and
\* each stop at most once (255, 296-332).
RepaidOnlyAfterStop ==
  \A i \in 1 .. MaxBurns : payouts.sent[i] <= 1 + crashes

\* One burn, one payment.
PaidOnce == \A i \in 1 .. MaxBurns : payouts.sent[i] <= 1

\* The USDT in the treasury covers the tokens in circulation, but for what was paid
\* again after a stop: what is minted was deposited, and what is paid first was
\* burned before (BridgedUSDT.sol:4-9).
paidAgain ==
  [i \in 1 .. Len(ust.burns) |->
     IF payouts.paid[i] <= 1 THEN 0 ELSE (payouts.paid[i] - 1) * ust.burns[i].amount]
BridgeSolvent == totalSupply <= eth.treasury + SumFunction(paidAgain)

\* A deposit above the saved cursor, within the limits and not yet looked at, is
\* minted in the end, although the process may stop and start again at any point,
\* unless RATE_LIMIT others of the same address come before it in an hour.
Owed(i) ==
  /\ disk.state # NoState /\ eth.deposits[i].block > disk.state.eth
  /\ withinLimits(eth.deposits[i]) /\ eth.deposits[i].tx \notin seen.deposits
OthersFillWindow(i) ==
  Cardinality({e \in windowOf(eth.deposits[i]) : e.tx # eth.deposits[i].tx}) >= RATE_LIMIT
DepositsMinted ==
  \A t \in EthTxs :
    (\E i \in 1 .. Len(eth.deposits) : eth.deposits[i].tx = t /\ Owed(i))
    ~> \/ t \in processedDeposits
       \/ \E i \in 1 .. Len(eth.deposits) :
            eth.deposits[i].tx = t /\ OthersFillWindow(i)

-----------------------------------------------------------------------------
(* What the bridge promises its depositors, in the terms of BridgeLedger. *)

lockedAmount ==
  [t \in EthTxs |->
     IF \E i \in 1 .. Len(eth.deposits) : eth.deposits[i].tx = t
       THEN eth.deposits[CHOOSE i \in 1 .. Len(eth.deposits) :
                           eth.deposits[i].tx = t].amount
       ELSE 0]

Ledger == INSTANCE BridgeLedger WITH
            Deposits <- EthTxs, Lowest <- MIN_USDT, Highest <- MAX_USDT,
            locked <- lockedAmount, issued <- processedDeposits,
            circulating <- totalSupply

\* Every step of the relayer, the chains and their users is a step of the ledger
\* the bridge stands for: a deposit is issued once, in its own amount and within
\* the limits, whatever is retried, repeated or cut short.
KeepsLedger == Ledger!Spec
=============================================================================
