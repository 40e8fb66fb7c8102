----------------------------- MODULE BridgedUSDT -----------------------------
(***************************************************************************)
(* contracts/BridgedUSDT.sol: the token that stands on chain 778889 for    *)
(* the USDT held on Ethereum.  A call is one action; one that reverts      *)
(* changes nothing, so its conditions are guards.                          *)
(***************************************************************************)
EXTENDS Integers, FiniteSets, Functions

CONSTANTS
  Holders,       \* addresses that hold or move tokens
  NoAddress,     \* address(0)
  FirstOperator, \* the constructor's argument
  EthTxs,        \* Ethereum transaction hashes
  MAX_UINT,      \* type(uint256).max: an unlimited allowance, and where += reverts
  Values         \* amounts given to transfer, approve, mint and burn

ASSUME TokenAssumption ==
  /\ FirstOperator \in Holders /\ NoAddress \notin Holders
  /\ MAX_UINT \in Nat /\ Values \subseteq 0 .. MAX_UINT
  /\ IsFiniteSet(Holders) /\ IsFiniteSet(EthTxs)   \* words of 160 and of 256 bits

VARIABLES totalSupply, operator, pendingOperator, balanceOf, allowance,
          processedDeposits,
          ledger  \* what the events tell: mints by hash, burns, and what each
                  \* spender moved under its owner's last approval

supply == <<totalSupply, balanceOf>>
roles == <<operator, pendingOperator>>
tokenVars == <<totalSupply, operator, pendingOperator, balanceOf, allowance,
               processedDeposits, ledger>>

-----------------------------------------------------------------------------
(* A definition whose name ends in _bug is a plausible mistake in the one    *)
(* that follows it, used by no action.                                       *)

\* balanceOf[to] computed from the balance read before the debit.
Move_bug(b, from, to, amount) ==
  [b EXCEPT ![from] = b[from] - amount, ![to] = b[to] + amount]
Move(b, from, to, amount) ==
  [[b EXCEPT ![from] = @ - amount] EXCEPT ![to] = @ + amount]

_transfer(from, to, amount) ==
  /\ to # NoAddress
  /\ balanceOf[from] >= amount
  /\ balanceOf' = Move(balanceOf, from, to, amount)

transfer(sender, to, amount) ==
  /\ _transfer(sender, to, amount)
  /\ UNCHANGED <<totalSupply, roles, allowance, processedDeposits, ledger>>

approve(sender, spender, amount) ==
  /\ allowance' = [allowance EXCEPT ![sender][spender] = amount]
  /\ ledger' = [ledger EXCEPT !.approved[sender][spender] = amount,
                              !.spent[sender][spender] = 0]
  /\ UNCHANGED <<supply, roles, processedDeposits>>

spendChecked_bug(from, spender, amount) ==
  /\ allowance[from][spender] >= amount
  /\ UNCHANGED allowance
spendAllowance(from, spender, amount) ==
  IF allowance[from][spender] = MAX_UINT THEN UNCHANGED allowance
  ELSE /\ allowance[from][spender] >= amount
       /\ allowance' = [allowance EXCEPT ![from][spender] = @ - amount]

transferFrom(sender, from, to, amount) ==
  /\ spendAllowance(from, sender, amount)
  /\ _transfer(from, to, amount)
  /\ ledger' = IF allowance[from][sender] = MAX_UINT THEN ledger
               ELSE [ledger EXCEPT !.spent[from][sender] = @ + amount]
  /\ UNCHANGED <<totalSupply, roles, processedDeposits>>

notProcessed_bug(ethTxHash) == TRUE
notProcessed(ethTxHash) == ethTxHash \notin processedDeposits

\* Whether a mint would be accepted now: eth_estimateGas answers this too.
mintable(sender, to, amount, ethTxHash) ==
  /\ sender = operator
  /\ to # NoAddress
  /\ amount # 0
  /\ notProcessed(ethTxHash)
  /\ totalSupply + amount <= MAX_UINT

bridgeMint(sender, to, amount, ethTxHash) ==
  /\ mintable(sender, to, amount, ethTxHash)
  /\ processedDeposits' = processedDeposits \cup {ethTxHash}
  /\ totalSupply' = totalSupply + amount
  /\ balanceOf' = [balanceOf EXCEPT ![to] = @ + amount]
  /\ ledger' = [ledger EXCEPT !.minted[ethTxHash] = amount]
  /\ UNCHANGED <<roles, allowance>>

bridgeBurn(sender, amount) ==
  /\ amount # 0
  /\ balanceOf[sender] >= amount
  /\ balanceOf' = [balanceOf EXCEPT ![sender] = @ - amount]
  /\ totalSupply' = totalSupply - amount
  /\ ledger' = [ledger EXCEPT !.burned = @ + amount]
  /\ UNCHANGED <<roles, allowance, processedDeposits>>

transferOperator(sender, newOperator) ==
  /\ sender = operator
  /\ newOperator # NoAddress
  /\ pendingOperator' = newOperator
  /\ UNCHANGED <<supply, operator, allowance, processedDeposits, ledger>>

isPending_bug(sender) == TRUE
isPending(sender) == sender = pendingOperator

acceptOperator(sender) ==
  /\ isPending(sender)
  /\ operator' = pendingOperator
  /\ pendingOperator' = NoAddress
  /\ UNCHANGED <<supply, allowance, processedDeposits, ledger>>

-----------------------------------------------------------------------------
TokenInit ==
  /\ totalSupply = 0
  /\ operator = FirstOperator /\ pendingOperator = NoAddress
  /\ balanceOf = [h \in Holders |-> 0]
  /\ allowance = [h \in Holders |-> [s \in Holders |-> 0]]
  /\ processedDeposits = {}
  /\ ledger = [minted |-> [t \in EthTxs |-> 0], burned |-> 0,
               approved |-> [h \in Holders |-> [s \in Holders |-> 0]],
               spent |-> [h \in Holders |-> [s \in Holders |-> 0]]]

TokenCall(h) ==
  \/ \E to \in Holders, v \in Values :
       \/ transfer(h, to, v)
       \/ approve(h, to, v)
       \/ \E from \in Holders : transferFrom(h, from, to, v)
       \/ \E t \in EthTxs : bridgeMint(h, to, v, t)
  \/ \E v \in Values : bridgeBurn(h, v)
  \/ \E o \in Holders : transferOperator(h, o)
  \/ acceptOperator(h)

TokenNext == \E h \in Holders : TokenCall(h)

TokenSpec == TokenInit /\ [][TokenNext]_tokenVars

-----------------------------------------------------------------------------
(* Properties *)

\* Balances and allowances are unsigned: no call takes one below zero or, since
\* totalSupply bounds every balance, past MAX_UINT (51-110); and the minting
\* right never falls to address(0), where it would be lost (114-126).
TokenTypeOK ==
  /\ totalSupply \in 0 .. MAX_UINT
  /\ operator \in Holders /\ pendingOperator \in Holders \cup {NoAddress}
  /\ balanceOf \in [Holders -> 0 .. MAX_UINT]
  /\ allowance \in [Holders -> [Holders -> 0 .. MAX_UINT]]
  /\ processedDeposits \subseteq EthTxs

\* Every token is somebody's: transfers, self-transfers included, neither create
\* nor lose any (72-78, 92-93, 106-107).
SupplyIsHeld == totalSupply = SumFunction(balanceOf)

\* The supply is what the mints of distinct Ethereum transactions brought in,
\* less what was burned: a hash is worth its deposit once (86-96, 103-110).
SupplyIsBacked == totalSupply = SumFunction(ledger.minted) - ledger.burned

\* Under a finite approval a spender moves, in all its transferFrom calls
\* together, no more than the owner's last approve() allowed (56-70).
SpendingApproved ==
  \A h, s \in Holders :
    ledger.approved[h][s] # MAX_UINT =>
      ledger.spent[h][s] + allowance[h][s] = ledger.approved[h][s]
=============================================================================
