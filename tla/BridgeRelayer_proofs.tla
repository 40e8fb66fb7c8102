------------------------- MODULE BridgeRelayer_proofs -------------------------
(***************************************************************************)
(* What holds of BridgedUSDT, and of BridgeRelayer, which is a module with *)
(* the token in it, for every value of their constants; and that the       *)
(* relayer implements BridgeLedger.                                        *)
(***************************************************************************)
EXTENDS BridgeRelayer, Collections_proofs

-----------------------------------------------------------------------------
(* The token: approvals                                                      *)

\* Allowances, and what the ledger remembers of them, are amounts for each owner
\* and spender.
Approvals == [Holders -> [Holders -> Int]]
SpendingInv ==
  /\ allowance \in Approvals
  /\ DOMAIN ledger = {"minted", "burned", "approved", "spent"}
  /\ ledger.approved \in Approvals /\ ledger.spent \in Approvals
  /\ SpendingApproved

LEMMA SpendingInit == TokenInit => SpendingInv
  BY DEF TokenInit, SpendingInv, Approvals, SpendingApproved

LEMMA SpendingKept ==
  ASSUME SpendingInv, UNCHANGED <<allowance, ledger>>
  PROVE  SpendingInv'
  BY DEF SpendingInv, Approvals, SpendingApproved

\* approve() starts a new account of what its spender moves.
LEMMA ApproveKeeps ==
  ASSUME TokenAssumption, SpendingInv, NEW h \in Holders, NEW s \in Holders,
         NEW v \in Values, approve(h, s, v)
  PROVE  SpendingInv'
<1>1. v \in Int
  BY DEF TokenAssumption
<1>2. /\ allowance' = [allowance EXCEPT ![h][s] = v]
      /\ ledger'.approved = [ledger.approved EXCEPT ![h][s] = v]
      /\ ledger'.spent = [ledger.spent EXCEPT ![h][s] = 0]
      /\ DOMAIN ledger' = DOMAIN ledger
  BY DEF approve, SpendingInv
<1>3. allowance' \in Approvals /\ ledger'.approved \in Approvals /\ ledger'.spent \in Approvals
  BY <1>1, <1>2 DEF SpendingInv, Approvals
<1>4. SpendingApproved'
  BY <1>1, <1>2 DEF SpendingInv, Approvals, SpendingApproved
<1> QED
  BY <1>2, <1>3, <1>4 DEF SpendingInv

\* transferFrom() moves what it takes off the allowance, unless that is unlimited.
LEMMA TransferFromKeeps ==
  ASSUME TokenAssumption, SpendingInv, NEW h \in Holders, NEW from \in Holders,
         NEW to \in Holders, NEW v \in Values, transferFrom(h, from, to, v)
  PROVE  SpendingInv'
<1>1. v \in Int
  BY DEF TokenAssumption
<1>2. CASE allowance[from][h] = MAX_UINT
  <2>1. UNCHANGED <<allowance, ledger>>
    BY <1>2 DEF transferFrom, spendAllowance
  <2> QED
    BY <2>1, SpendingKept
<1>3. CASE allowance[from][h] # MAX_UINT
  <2>1. /\ allowance' = [allowance EXCEPT ![from][h] = @ - v]
        /\ ledger'.approved = ledger.approved
        /\ ledger'.spent = [ledger.spent EXCEPT ![from][h] = @ + v]
        /\ DOMAIN ledger' = DOMAIN ledger
    BY <1>3 DEF transferFrom, spendAllowance, SpendingInv
  <2>2. allowance' \in Approvals /\ ledger'.spent \in Approvals
    BY <1>1, <2>1 DEF SpendingInv, Approvals
  <2>3. SpendingApproved'
    BY <1>1, <2>1 DEF SpendingInv, Approvals, SpendingApproved
  <2> QED
    BY <2>1, <2>2, <2>3 DEF SpendingInv
<1> QED
  BY <1>2, <1>3

\* Minting and burning write other entries of the ledger.
LEMMA SupplyKeeps ==
  ASSUME SpendingInv, NEW h \in Holders,
         \/ \E to \in Holders, v \in Values, t \in EthTxs : bridgeMint(h, to, v, t)
         \/ \E v \in Values : bridgeBurn(h, v)
  PROVE  SpendingInv'
<1>1. /\ allowance' = allowance /\ DOMAIN ledger' = DOMAIN ledger
      /\ ledger'.approved = ledger.approved /\ ledger'.spent = ledger.spent
  BY DEF bridgeMint, bridgeBurn, SpendingInv
<1> QED
  BY <1>1 DEF SpendingInv, Approvals, SpendingApproved

LEMMA SpendingNext ==
  ASSUME TokenAssumption, SpendingInv, [TokenNext]_tokenVars
  PROVE  SpendingInv'
<1>1. CASE UNCHANGED tokenVars
  BY <1>1, SpendingKept DEF tokenVars
<1>2. ASSUME NEW h \in Holders, TokenCall(h) PROVE SpendingInv'
  <2>1. ASSUME NEW to \in Holders, NEW v \in Values, transfer(h, to, v)
        PROVE  SpendingInv'
    BY <2>1, SpendingKept DEF transfer
  <2>2. CASE \E o \in Holders : transferOperator(h, o)
    BY <2>2, SpendingKept DEF transferOperator
  <2>3. CASE acceptOperator(h)
    BY <2>3, SpendingKept DEF acceptOperator
  <2> QED
    BY <1>2, <2>1, <2>2, <2>3, ApproveKeeps, TransferFromKeeps, SupplyKeeps DEF TokenCall
<1> QED
  BY <1>1, <1>2 DEF TokenNext

\* However many transferFrom calls a spender makes, and whatever else happens in
\* between, what it moves and what it may still move add up to the owner's last
\* finite approve() (56-70).
THEOREM SpendingBounded == TokenSpec => []SpendingApproved
<1>1. SpendingInv => SpendingApproved
  BY DEF SpendingInv
<1> QED
  BY <1>1, SpendingInit, SpendingNext, TokenAssumption, PTL DEF TokenSpec

-----------------------------------------------------------------------------
(* The supply: stated of amounts, whatever set they are drawn from, so that   *)
(* the calls the relayer makes are covered too                                *)

HeldInv ==
  /\ totalSupply \in 0 .. MAX_UINT
  /\ balanceOf \in [Holders -> Nat]
  /\ SupplyIsHeld

LEMMA HeldInit == TokenAssumption /\ TokenInit => HeldInv
<1> SUFFICES ASSUME TokenAssumption, TokenInit PROVE HeldInv
  OBVIOUS
<1>1. balanceOf \in [Holders -> Int] /\ \A h \in Holders : balanceOf[h] = 0
  BY DEF TokenInit
<1>2. SumFunction(balanceOf) = 0
  BY <1>1, SumZero DEF TokenAssumption
<1> QED
  BY <1>2 DEF TokenAssumption, TokenInit, HeldInv, SupplyIsHeld

\* Moving an amount, to oneself too, leaves the sum as it was.
LEMMA MoveSum ==
  ASSUME TokenAssumption, NEW b \in [Holders -> Nat], NEW from \in Holders,
         NEW to \in Holders, NEW v \in Nat, b[from] >= v
  PROVE  /\ Move(b, from, to, v) \in [Holders -> Nat]
         /\ SumFunction(Move(b, from, to, v)) = SumFunction(b)
<1>1. PICK c : c = [b EXCEPT ![from] = @ - v]
  OBVIOUS
<1>2. PICK d : d = [c EXCEPT ![to] = @ + v]
  OBVIOUS
<1>3. /\ c \in [Holders -> Nat] /\ c[from] = b[from] - v
      /\ \A h \in Holders \ {from} : c[h] = b[h]
  BY <1>1
<1>4. /\ d \in [Holders -> Nat] /\ d[to] = c[to] + v
      /\ \A h \in Holders \ {to} : d[h] = c[h]
  BY <1>2, <1>3
<1>5. /\ b \in [Holders -> Int] /\ c \in [Holders -> Int] /\ d \in [Holders -> Int]
      /\ b[from] \in Int /\ c[to] \in Int
  BY <1>3, <1>4
<1>6. IsFiniteSet(Holders)
  BY DEF TokenAssumption
<1>7. /\ SumFunction(b) \in Int /\ SumFunction(c) \in Int
      /\ SumFunction(c) = SumFunction(b) + c[from] - b[from]
  BY <1>3, <1>5, <1>6, SumChange
<1>8. /\ SumFunction(d) \in Int
      /\ SumFunction(d) = SumFunction(c) + d[to] - c[to]
  BY <1>4, <1>5, <1>6, SumChange
<1>9. SumFunction(d) = SumFunction(b)
  BY <1>3, <1>4, <1>5, <1>7, <1>8
<1>10. d = Move(b, from, to, v)
  BY <1>1, <1>2 DEF Move
<1> QED
  BY <1>4, <1>9, <1>10

LEMMA HeldKept ==
  ASSUME HeldInv, UNCHANGED supply
  PROVE  HeldInv'
  BY DEF HeldInv, SupplyIsHeld, supply

LEMMA MovesKeepHeld ==
  ASSUME TokenAssumption, HeldInv, NEW from \in Holders, NEW to \in Holders,
         NEW v \in Nat, _transfer(from, to, v), UNCHANGED totalSupply
  PROVE  HeldInv'
<1>1. balanceOf' = Move(balanceOf, from, to, v) /\ balanceOf[from] >= v
  BY DEF _transfer
<1>2. balanceOf \in [Holders -> Nat]
  BY DEF HeldInv
<1>3. balanceOf' \in [Holders -> Nat] /\ SumFunction(balanceOf') = SumFunction(balanceOf)
  BY <1>1, <1>2, MoveSum
<1> QED
  BY <1>3 DEF HeldInv, SupplyIsHeld

LEMMA MintKeepsHeld ==
  ASSUME TokenAssumption, HeldInv, NEW h, NEW to \in Holders, NEW v \in Nat,
         NEW t \in EthTxs, bridgeMint(h, to, v, t)
  PROVE  HeldInv'
<1>1. /\ balanceOf' = [balanceOf EXCEPT ![to] = @ + v]
      /\ totalSupply' = totalSupply + v /\ totalSupply + v <= MAX_UINT
  BY DEF bridgeMint, mintable
<1>2. balanceOf \in [Holders -> Nat] /\ balanceOf' \in [Holders -> Nat]
  BY <1>1 DEF HeldInv
<1>3. /\ balanceOf \in [Holders -> Int] /\ balanceOf' \in [Holders -> Int]
      /\ balanceOf'[to] = balanceOf[to] + v
      /\ \A y \in Holders \ {to} : balanceOf'[y] = balanceOf[y]
  BY <1>1, <1>2
<1>4. /\ SumFunction(balanceOf) \in Int
      /\ SumFunction(balanceOf') = SumFunction(balanceOf) + balanceOf'[to] - balanceOf[to]
  BY <1>3, SumChange DEF TokenAssumption
<1>5. balanceOf[to] \in Int
  BY <1>3
<1> QED
  BY <1>1, <1>2, <1>3, <1>4, <1>5 DEF HeldInv, SupplyIsHeld, TokenAssumption

\* What is burned was somebody's, so that the supply covers it.
LEMMA BurnKeepsHeld ==
  ASSUME TokenAssumption, HeldInv, NEW h \in Holders, NEW v \in Nat, bridgeBurn(h, v)
  PROVE  HeldInv' /\ v \in Nat \ {0} /\ v <= totalSupply
<1>1. /\ balanceOf' = [balanceOf EXCEPT ![h] = @ - v]
      /\ totalSupply' = totalSupply - v /\ balanceOf[h] >= v /\ v # 0
  BY DEF bridgeBurn
<1>2. balanceOf \in [Holders -> Nat] /\ balanceOf' \in [Holders -> Nat]
  BY <1>1 DEF HeldInv
<1>3. /\ balanceOf \in [Holders -> Int] /\ balanceOf' \in [Holders -> Int]
      /\ balanceOf'[h] = balanceOf[h] - v /\ balanceOf[h] \in Nat
      /\ \A y \in Holders \ {h} : balanceOf'[y] = balanceOf[y]
  BY <1>1, <1>2
<1>4. SumFunction(balanceOf') = SumFunction(balanceOf) + balanceOf'[h] - balanceOf[h]
  BY <1>3, SumChange DEF TokenAssumption
<1>5. SumFunction(balanceOf) \in Nat /\ balanceOf[h] <= SumFunction(balanceOf)
  BY <1>2, SumBounds DEF TokenAssumption
<1> QED
  BY <1>1, <1>2, <1>3, <1>4, <1>5 DEF HeldInv, SupplyIsHeld, TokenAssumption

LEMMA HeldNext ==
  ASSUME TokenAssumption, HeldInv, [TokenNext]_tokenVars
  PROVE  HeldInv'
<1>1. CASE UNCHANGED tokenVars
  BY <1>1, HeldKept DEF tokenVars, supply
<1>2. ASSUME NEW h \in Holders, TokenCall(h) PROVE HeldInv'
  <2> USE TokenAssumption
  <2>1. Values \subseteq Nat
    BY DEF TokenAssumption
  <2>2. ASSUME NEW to \in Holders, NEW v \in Values, transfer(h, to, v)
        PROVE  HeldInv'
    BY <2>1, <2>2, MovesKeepHeld DEF transfer
  <2>3. ASSUME NEW from \in Holders, NEW to \in Holders, NEW v \in Values,
               transferFrom(h, from, to, v)
        PROVE  HeldInv'
    BY <2>1, <2>3, MovesKeepHeld DEF transferFrom
  <2>4. ASSUME NEW to \in Holders, NEW v \in Values, approve(h, to, v)
        PROVE  HeldInv'
    BY <2>4, HeldKept DEF approve
  <2>5. ASSUME NEW to \in Holders, NEW v \in Values, NEW t \in EthTxs,
               bridgeMint(h, to, v, t)
        PROVE  HeldInv'
    BY <2>1, <2>5, MintKeepsHeld
  <2>6. ASSUME NEW v \in Values, bridgeBurn(h, v) PROVE HeldInv'
    BY <2>1, <2>6, BurnKeepsHeld
  <2>7. CASE \/ \E o \in Holders : transferOperator(h, o)
             \/ acceptOperator(h)
    BY <2>7, HeldKept DEF transferOperator, acceptOperator, supply
  <2> QED
    BY <1>2, <2>2, <2>3, <2>4, <2>5, <2>6, <2>7 DEF TokenCall
<1> QED
  BY <1>1, <1>2 DEF TokenNext

\* totalSupply and the balances never part, whatever is transferred, minted or
\* burned by whom, transfers to oneself included (72-78, 92-93, 106-107).
THEOREM SupplyHeld == TokenSpec => []SupplyIsHeld
<1>1. HeldInv => SupplyIsHeld
  BY DEF HeldInv
<1> QED
  BY <1>1, HeldInit, HeldNext, TokenAssumption, PTL DEF TokenSpec

\* The ledger of mints has an entry for the transactions that were processed only.
BackedInv ==
  /\ totalSupply \in Nat
  /\ DOMAIN ledger = {"minted", "burned", "approved", "spent"}
  /\ ledger.minted \in [EthTxs -> Nat] /\ ledger.burned \in Nat
  /\ \A t \in EthTxs \ processedDeposits : ledger.minted[t] = 0
  /\ SupplyIsBacked

LEMMA BackedInit == TokenAssumption /\ TokenInit => BackedInv
<1> SUFFICES ASSUME TokenAssumption, TokenInit PROVE BackedInv
  OBVIOUS
<1>1. /\ ledger.minted \in [EthTxs -> Nat] /\ \A t \in EthTxs : ledger.minted[t] = 0
      /\ ledger.burned = 0 /\ totalSupply = 0
      /\ DOMAIN ledger = {"minted", "burned", "approved", "spent"}
  BY DEF TokenInit
<1>2. ledger.minted \in [EthTxs -> Int]
  BY <1>1
<1>3. SumFunction(ledger.minted) = 0
  BY <1>1, <1>2, SumZero DEF TokenAssumption
<1> QED
  BY <1>1, <1>3 DEF BackedInv, SupplyIsBacked

LEMMA BackedKept ==
  ASSUME BackedInv, UNCHANGED <<totalSupply, processedDeposits>>,
         DOMAIN ledger' = DOMAIN ledger,
         ledger'.minted = ledger.minted, ledger'.burned = ledger.burned
  PROVE  BackedInv'
  BY DEF BackedInv, SupplyIsBacked

\* A mint fills an entry that was empty: the hash is new.
LEMMA MintKeepsBacked ==
  ASSUME TokenAssumption, BackedInv, NEW h, NEW to \in Holders, NEW v \in Nat,
         NEW t \in EthTxs, bridgeMint(h, to, v, t)
  PROVE  BackedInv'
<1>1. PICK m, n : m = ledger.minted /\ n = ledger'.minted
  OBVIOUS
<1>2. /\ m \in [EthTxs -> Nat] /\ m[t] = 0 /\ n = [m EXCEPT ![t] = v]
      /\ DOMAIN ledger' = DOMAIN ledger
      /\ ledger'.burned = ledger.burned /\ totalSupply' = totalSupply + v
      /\ processedDeposits' = processedDeposits \cup {t}
  BY <1>1 DEF BackedInv, bridgeMint, mintable, notProcessed
<1>3. /\ n \in [EthTxs -> Nat] /\ n[t] = v
      /\ \A y \in EthTxs \ {t} : n[y] = m[y]
  BY <1>2
<1>4. m \in [EthTxs -> Int] /\ n \in [EthTxs -> Int]
  BY <1>2, <1>3
<1>5. SumFunction(m) \in Int /\ SumFunction(n) = SumFunction(m) + n[t] - m[t]
  BY <1>3, <1>4, SumChange DEF TokenAssumption
<1>6. SumFunction(n) = SumFunction(m) + v
  BY <1>2, <1>3, <1>5
<1>7. totalSupply = SumFunction(m) - ledger.burned /\ ledger.burned \in Nat /\ totalSupply \in Nat
  BY <1>1 DEF BackedInv, SupplyIsBacked
<1>8. totalSupply' = SumFunction(n) - ledger'.burned
  BY <1>2, <1>5, <1>6, <1>7
<1>9. \A y \in EthTxs \ processedDeposits' : n[y] = 0
  BY <1>1, <1>2, <1>3 DEF BackedInv
<1> QED
  BY <1>1, <1>2, <1>3, <1>7, <1>8, <1>9 DEF BackedInv, SupplyIsBacked

LEMMA BurnKeepsBacked ==
  ASSUME TokenAssumption, BackedInv, HeldInv, NEW h \in Holders, NEW v \in Nat,
         bridgeBurn(h, v)
  PROVE  BackedInv'
<1>1. v <= totalSupply
  BY BurnKeepsHeld
<1>2. /\ totalSupply' = totalSupply - v /\ ledger'.burned = ledger.burned + v
      /\ ledger'.minted = ledger.minted /\ processedDeposits' = processedDeposits
      /\ DOMAIN ledger' = DOMAIN ledger
  BY DEF bridgeBurn, BackedInv
<1>3. SumFunction(ledger.minted) \in Nat
  BY SumBounds DEF BackedInv, TokenAssumption
<1> QED
  BY <1>1, <1>2, <1>3 DEF BackedInv, SupplyIsBacked

LEMMA BackedNext ==
  ASSUME TokenAssumption, BackedInv, HeldInv, [TokenNext]_tokenVars
  PROVE  BackedInv'
<1>1. CASE UNCHANGED tokenVars
  BY <1>1, BackedKept DEF tokenVars
<1>2. ASSUME NEW h \in Holders, TokenCall(h) PROVE BackedInv'
  <2> USE TokenAssumption
  <2>1. Values \subseteq Nat
    BY DEF TokenAssumption
  <2>2. ASSUME NEW to \in Holders, NEW v \in Values,
               \/ transfer(h, to, v) \/ approve(h, to, v)
               \/ \E from \in Holders : transferFrom(h, from, to, v)
        PROVE  BackedInv'
    <3>1. /\ UNCHANGED <<totalSupply, processedDeposits>>
          /\ DOMAIN ledger' = DOMAIN ledger
          /\ ledger'.minted = ledger.minted /\ ledger'.burned = ledger.burned
      BY <2>2 DEF transfer, approve, transferFrom, supply, BackedInv
    <3> QED
      BY <3>1, BackedKept
  <2>3. ASSUME NEW to \in Holders, NEW v \in Values, NEW t \in EthTxs,
               bridgeMint(h, to, v, t)
        PROVE  BackedInv'
    BY <2>1, <2>3, MintKeepsBacked
  <2>4. ASSUME NEW v \in Values, bridgeBurn(h, v) PROVE BackedInv'
    BY <2>1, <2>4, BurnKeepsBacked
  <2>5. CASE \/ \E o \in Holders : transferOperator(h, o)
             \/ acceptOperator(h)
    BY <2>5, BackedKept DEF transferOperator, acceptOperator, supply
  <2> QED
    BY <1>2, <2>2, <2>3, <2>4, <2>5 DEF TokenCall
<1> QED
  BY <1>1, <1>2 DEF TokenNext

\* The supply is what the mints of distinct Ethereum transactions brought in less
\* what was burned, however often a mint is repeated (86-96, 103-110).
THEOREM SupplyBacked == TokenSpec => []SupplyIsBacked
<1>1. BackedInv => SupplyIsBacked
  BY DEF BackedInv
<1> QED
  BY <1>1, HeldInit, HeldNext, BackedInit, BackedNext, TokenAssumption, PTL DEF TokenSpec

-----------------------------------------------------------------------------
(* Types: no balance passes MAX_UINT since together they make the supply      *)

LEMMA BalanceBounded ==
  ASSUME TokenAssumption, HeldInv
  PROVE  balanceOf \in [Holders -> 0 .. MAX_UINT]
<1>1. balanceOf \in [Holders -> Nat] /\ SumFunction(balanceOf) \in 0 .. MAX_UINT
  BY DEF HeldInv, SupplyIsHeld
<1>2. \A h \in Holders : balanceOf[h] <= SumFunction(balanceOf)
  BY <1>1, SumBounds DEF TokenAssumption
<1> QED
  BY <1>1, <1>2 DEF TokenAssumption

RolesInv ==
  /\ operator \in Holders /\ pendingOperator \in Holders \cup {NoAddress}
  /\ allowance \in [Holders -> [Holders -> 0 .. MAX_UINT]]
  /\ processedDeposits \subseteq EthTxs

LEMMA RolesNext ==
  ASSUME TokenAssumption, RolesInv, [TokenNext]_tokenVars
  PROVE  RolesInv'
<1>1. CASE UNCHANGED tokenVars
  BY <1>1 DEF tokenVars, RolesInv
<1>2. ASSUME NEW h \in Holders, TokenCall(h) PROVE RolesInv'
  <2>1. ASSUME NEW to \in Holders, NEW v \in Values, transfer(h, to, v)
        PROVE  RolesInv'
    BY <2>1 DEF transfer, roles, RolesInv
  <2>2. ASSUME NEW to \in Holders, NEW v \in Values, approve(h, to, v)
        PROVE  RolesInv'
    BY <2>2 DEF approve, roles, RolesInv, TokenAssumption
  <2>3. ASSUME NEW from \in Holders, NEW to \in Holders, NEW v \in Values,
               transferFrom(h, from, to, v)
        PROVE  RolesInv'
    <3>1. v \in 0 .. MAX_UINT /\ MAX_UINT \in Nat
      BY DEF TokenAssumption
    <3>2. allowance' \in [Holders -> [Holders -> 0 .. MAX_UINT]]
      <4>1. CASE allowance[from][h] = MAX_UINT
        BY <2>3, <4>1 DEF transferFrom, spendAllowance, RolesInv
      <4>2. CASE allowance[from][h] # MAX_UINT
        <5>1. PICK r : r = [allowance[from] EXCEPT ![h] = @ - v]
          OBVIOUS
        <5>2. /\ allowance[from] \in [Holders -> 0 .. MAX_UINT]
              /\ allowance[from][h] \in 0 .. MAX_UINT /\ allowance[from][h] >= v
          BY <2>3, <4>2 DEF transferFrom, spendAllowance, RolesInv
        <5>3. r \in [Holders -> 0 .. MAX_UINT]
          BY <3>1, <5>1, <5>2
        <5>4. allowance' = [allowance EXCEPT ![from] = r]
          BY <2>3, <4>2, <5>1 DEF transferFrom, spendAllowance, RolesInv
        <5> QED
          BY <5>3, <5>4 DEF RolesInv
      <4> QED
        BY <4>1, <4>2
    <3> QED
      BY <2>3, <3>2 DEF transferFrom, roles, RolesInv
  <2>4. ASSUME NEW to \in Holders, NEW v \in Values, NEW t \in EthTxs,
               bridgeMint(h, to, v, t)
        PROVE  RolesInv'
    BY <2>4 DEF bridgeMint, roles, RolesInv
  <2>5. ASSUME NEW v \in Values, bridgeBurn(h, v) PROVE RolesInv'
    BY <2>5 DEF bridgeBurn, roles, RolesInv
  <2>6. ASSUME NEW o \in Holders, transferOperator(h, o) PROVE RolesInv'
    BY <2>6 DEF transferOperator, RolesInv
  <2>7. CASE acceptOperator(h)
    BY <2>7 DEF acceptOperator, isPending, RolesInv
  <2> QED
    BY <1>2, <2>1, <2>2, <2>3, <2>4, <2>5, <2>6, <2>7 DEF TokenCall
<1> QED
  BY <1>1, <1>2 DEF TokenNext

\* No balance or allowance falls below zero or passes MAX_UINT, and the minting right
\* never falls to address(0) (51-126).
THEOREM TokenTypes == TokenSpec => []TokenTypeOK
<1>1. TokenAssumption /\ TokenInit => RolesInv
  BY DEF TokenAssumption, TokenInit, RolesInv
<1>2. TokenAssumption /\ HeldInv /\ RolesInv => TokenTypeOK
  BY BalanceBounded DEF HeldInv, RolesInv, TokenTypeOK
<1> QED
  BY <1>1, <1>2, HeldInit, HeldNext, RolesNext, TokenAssumption, PTL DEF TokenSpec

-----------------------------------------------------------------------------
(* What eth_getLogs returns *)

\* The function by which Logs goes through the events.
Scans(g, events, from, to, n) ==
  g = [i \in 0 .. n |->
         IF i = 0 THEN <<>>
         ELSE IF events[i].block >= from /\ events[i].block <= to
           THEN Append(g[i - 1], events[i])
           ELSE g[i - 1]]

LEMMA ScanExists ==
  ASSUME NEW events, NEW from, NEW to, NEW N \in Nat
  PROVE  \E g : Scans(g, events, from, to, N)
<1> DEFINE K == {i \in 0 .. N : events[i].block >= from /\ events[i].block <= to}
<1>1. PICK g : Filters(g, events, K, N)
  BY FilterExists
<1>2. Scans(g, events, from, to, N)
  BY <1>1 DEF Filters, Scans
<1> QED
  BY <1>2

\* Logs returns the events of its range: all of them, nothing else, in order.
LEMMA LogsReport ==
  ASSUME NEW D, NEW events \in Seq(D), NEW from, NEW to
  PROVE  /\ Logs(events, from, to) \in Seq(D)
         /\ Reports(Logs(events, from, to), events,
                    {e \in D : e.block >= from /\ e.block <= to}, Len(events))
<1>1. PICK N \in Nat : N = Len(events)
  BY LenProperties
<1>2. PICK g : Scans(g, events, from, to, N) /\ Logs(events, from, to) = g[N]
  <2>1. PICK g : g = CHOOSE h : Scans(h, events, from, to, N)
    OBVIOUS
  <2>2. Scans(g, events, from, to, N)
    BY <2>1, ScanExists
  <2>3. Logs(events, from, to) = g[N]
    BY <1>1, <2>1 DEF Logs, Scans
  <2> QED
    BY <2>2, <2>3
<1>3. PICK R : R = {e \in D : e.block >= from /\ e.block <= to}
  OBVIOUS
<1>4. g[0] = <<>>
  BY <1>2 DEF Scans
<1>5. ASSUME NEW n \in 0 .. N - 1
      PROVE  g[n + 1] = IF events[n + 1] \in R THEN Append(g[n], events[n + 1]) ELSE g[n]
  <2>1. n + 1 \in 0 .. N /\ n + 1 # 0 /\ (n + 1) - 1 = n
    OBVIOUS
  <2>2. g[n + 1] = IF events[n + 1].block >= from /\ events[n + 1].block <= to
                     THEN Append(g[n], events[n + 1]) ELSE g[n]
    BY <1>2, <2>1 DEF Scans
  <2>3. events[n + 1] \in D
    BY <1>1, <2>1, ElementOfSeq
  <2> QED
    BY <1>3, <2>2, <2>3
<1> DEFINE Good == {n \in 0 .. N : g[n] \in Seq(D) /\ Reports(g[n], events, R, n)}
<1>6. 0 \in Good
  <2>1. g[0] \in Seq(D) /\ Len(g[0]) = 0
    BY <1>4, EmptySeq
  <2>2. Reports(g[0], events, R, 0)
    <3>1. \A j \in 1 .. 0 : FALSE
      OBVIOUS
    <3> QED
      BY <2>1, <3>1 DEF Reports
  <2>3. 0 \in 0 .. N
    OBVIOUS
  <2> QED
    BY <2>1, <2>2, <2>3, Zenon
<1>7. ASSUME NEW n \in 0 .. N - 1, n \in Good PROVE n + 1 \in Good
  <2>1. n \in Nat /\ n < Len(events) /\ n + 1 \in 0 .. N
    BY <1>1
  <2>2. g[n] \in Seq(D) /\ Reports(g[n], events, R, n)
    BY <1>7, Zenon
  <2>3. g[n + 1] \in Seq(D) /\ Reports(g[n + 1], events, R, n + 1)
    BY <1>5, <2>1, <2>2, ReportsOneMore
  <2> QED
    BY <2>1, <2>3, Zenon
<1> HIDE DEF Good
<1>8. N \in Good
  <2>1. \A n \in 0 .. N : n \in Good
    BY <1>6, <1>7, CountInduction
  <2>2. N \in 0 .. N
    OBVIOUS
  <2> QED
    BY <2>1, <2>2, Zenon
<1>9. g[N] \in Seq(D) /\ Reports(g[N], events, R, N)
  BY <1>8, Zenon DEF Good
<1> QED
  BY <1>1, <1>2, <1>3, <1>9, Zenon

-----------------------------------------------------------------------------
(* The chains: what they record only grows *)

EthDeposit == [tx : EthTxs, from : Users, amount : Nat, block : Nat]
EthInv ==
  /\ eth \in [head : Nat, deposits : Seq(EthDeposit), treasury : Int]
  /\ eth.head <= MaxEthBlock
  /\ \A i, j \in 1 .. Len(eth.deposits) : eth.deposits[i].tx = eth.deposits[j].tx => i = j
  /\ \A i \in 1 .. Len(eth.deposits) : eth.deposits[i].block \in 1 .. eth.head

Burn == [id : Nat, amount : Nat, valid : BOOLEAN, block : Nat]
UstInv ==
  /\ ust \in [head : Nat, burns : Seq(Burn)]
  /\ Len(ust.burns) = ust.head /\ ust.head <= MaxUstBlock
  /\ \A i \in 1 .. Len(ust.burns) : ust.burns[i].id = i /\ ust.burns[i].block <= ust.head

\* The process touches the chains by what it broadcasts only.
LEMMA ProcessLeaves ==
  ASSUME Relayer \/ Faults
  PROVE  /\ UNCHANGED <<tokenVars, eth, ust>>
         /\ UNCHANGED mempool \/ \E o : mintDeposit(o)
         /\ UNCHANGED payouts \/ payWithdrawal
<1>1. CASE start \/ poll
  BY <1>1 DEF start, poll, chains
<1>2. ASSUME NEW o, mintDeposit(o)
      PROVE  UNCHANGED <<tokenVars, eth, ust, payouts>>
  BY <1>2 DEF mintDeposit
<1>3. CASE skipDeposit \/ recordDeposit \/ depositsDone
  BY <1>3 DEF skipDeposit, recordDeposit, depositsDone, chains
<1>4. CASE scanWithdrawals \/ skipWithdrawal \/ withdrawalsDone \/ save
  BY <1>4 DEF scanWithdrawals, skipWithdrawal, withdrawalsDone, save, chains
<1>5. CASE payWithdrawal
  BY <1>5 DEF payWithdrawal
<1>6. CASE scanFails(TRUE) \/ scanFails(FALSE) \/ crash
  BY <1>6 DEF scanFails, crash, chains
<1> QED
  BY <1>1, <1>2, <1>3, <1>4, <1>5, <1>6 DEF Relayer, Faults

LEMMA Amounts == TokenAssumption => Values \subseteq Nat
  BY DEF TokenAssumption

\* What a deposit adds to the record of Ethereum, which had n of them.
DepositAdded(n, u, t, v) ==
  /\ n = Len(eth.deposits) /\ Len(eth'.deposits) = n + 1
  /\ \A i \in 1 .. n : eth'.deposits[i] = eth.deposits[i] /\ eth.deposits[i].tx # t
  /\ eth'.deposits[n + 1] = [tx |-> t, from |-> u, amount |-> v,
                             block |-> eth.head + 1]
  /\ eth'.deposits \in Seq(EthDeposit)
  /\ eth'.head = eth.head + 1 /\ eth'.treasury = eth.treasury + v
  /\ eth' \in [head : Nat, deposits : Seq(EthDeposit), treasury : Int]
  /\ eth'.head <= MaxEthBlock

LEMMA DepositAppends ==
  ASSUME EthInv, NEW u \in Users, NEW t \in EthTxs, NEW v \in Nat, depositUSDT(u, t, v)
  PROVE  \E n \in Nat : DepositAdded(n, u, t, v)
<1>1. PICK D, d : D = eth.deposits /\ d = [tx |-> t, from |-> u, amount |-> v,
                                           block |-> eth.head + 1]
  OBVIOUS
<1>2. D \in Seq(EthDeposit) /\ eth.head \in Nat /\ eth.treasury \in Int
  BY <1>1 DEF EthInv
<1>3. d \in EthDeposit
  BY <1>1, <1>2 DEF EthDeposit
<1>4. PICK n \in Nat : n = Len(D)
  BY <1>2, LenProperties
<1>5. /\ eth' = [head |-> eth.head + 1, treasury |-> eth.treasury + v,
                 deposits |-> Append(D, d)]
      /\ eth.head < MaxEthBlock /\ \A i \in 1 .. Len(D) : D[i].tx # t
  BY <1>1 DEF depositUSDT
<1>6. PICK E : E = Append(D, d)
  OBVIOUS
<1>7. /\ E \in Seq(EthDeposit) /\ Len(E) = n + 1 /\ E[n + 1] = d
      /\ \A i \in 1 .. n : E[i] = D[i]
  BY <1>2, <1>3, <1>4, <1>6, AppendProperties
<1>8. /\ eth'.head = eth.head + 1 /\ eth'.treasury = eth.treasury + v /\ eth'.deposits = E
      /\ eth' \in [head : Nat, deposits : Seq(EthDeposit), treasury : Int]
  BY <1>2, <1>5, <1>6, <1>7
<1>9. eth.head + 1 <= MaxEthBlock
  BY <1>2, <1>5, RelayerAssumption DEF RelayerAssumption
<1> QED
  BY <1>1, <1>4, <1>5, <1>7, <1>8, <1>9 DEF DepositAdded

LEMMA DepositKeepsEth ==
  ASSUME EthInv, NEW u \in Users, NEW t \in EthTxs, NEW v \in Nat, depositUSDT(u, t, v)
  PROVE  EthInv'
<1>0. PICK n \in Nat : DepositAdded(n, u, t, v)
  BY DepositAppends
<1>1.   /\ n = Len(eth.deposits) /\ Len(eth'.deposits) = n + 1
        /\ \A i \in 1 .. n : eth'.deposits[i] = eth.deposits[i] /\ eth.deposits[i].tx # t
        /\ eth'.deposits[n + 1] = [tx |-> t, from |-> u, amount |-> v,
                                   block |-> eth.head + 1]
        /\ eth'.deposits \in Seq(EthDeposit)
        /\ eth'.head = eth.head + 1 /\ eth'.treasury = eth.treasury + v
        /\ eth' \in [head : Nat, deposits : Seq(EthDeposit), treasury : Int]
        /\ eth'.head <= MaxEthBlock
  BY <1>0 DEF DepositAdded
<1>2. /\ eth.head \in Nat
      /\ eth'.deposits[n + 1].tx = t /\ eth'.deposits[n + 1].block = eth.head + 1
  BY <1>1 DEF EthInv
<1>3. ASSUME NEW i \in 1 .. n + 1, NEW j \in 1 .. n + 1,
             eth'.deposits[i].tx = eth'.deposits[j].tx
      PROVE  i = j
  <2>1. CASE i \in 1 .. n /\ j \in 1 .. n
    BY <1>1, <1>3, <2>1 DEF EthInv
  <2>2. CASE i = n + 1 /\ j \in 1 .. n
    BY <1>1, <1>2, <1>3, <2>2
  <2>3. CASE j = n + 1 /\ i \in 1 .. n
    BY <1>1, <1>2, <1>3, <2>3
  <2> QED
    BY <2>1, <2>2, <2>3
<1>4. ASSUME NEW i \in 1 .. n + 1 PROVE eth'.deposits[i].block \in 1 .. eth'.head
  <2>1. CASE i \in 1 .. n
    <3>1. eth.deposits[i].block \in 1 .. eth.head
      BY <1>1, <2>1 DEF EthInv
    <3> QED
      BY <1>1, <1>2, <2>1, <3>1
  <2>2. CASE i = n + 1
    BY <1>1, <1>2, <2>2
  <2> QED
    BY <2>1, <2>2
<1> QED
  BY <1>1, <1>3, <1>4 DEF EthInv

\* What a burn adds to the record of chain 778889, which had n of them.
BurnAdded(n, v, valid) ==
  /\ n = Len(ust.burns) /\ Len(ust'.burns) = n + 1
  /\ \A i \in 1 .. n : ust'.burns[i] = ust.burns[i]
  /\ ust'.burns[n + 1] = [id |-> n + 1, amount |-> v, valid |-> valid,
                          block |-> ust.head + 1]
  /\ ust'.head = ust.head + 1 /\ ust'.head <= MaxUstBlock
  /\ ust' \in [head : Nat, burns : Seq(Burn)]

LEMMA BurnAppends ==
  ASSUME UstInv, NEW u \in Users, NEW v \in Nat, NEW valid \in BOOLEAN, burnUSDT(u, v, valid)
  PROVE  \E n \in Nat : BurnAdded(n, v, valid)
<1>1. PICK B : B = ust.burns
  OBVIOUS
<1>2. B \in Seq(Burn) /\ ust.head \in Nat
  BY <1>1 DEF UstInv
<1>3. PICK n \in Nat : n = Len(B)
  BY <1>2, LenProperties
<1>4. PICK b : b = [id |-> n + 1, amount |-> v, valid |-> valid, block |-> ust.head + 1]
  OBVIOUS
<1>5. b \in Burn
  BY <1>2, <1>4 DEF Burn
<1>6. ust' = [head |-> ust.head + 1, burns |-> Append(B, b)] /\ ust.head < MaxUstBlock
  BY <1>1, <1>3, <1>4 DEF burnUSDT
<1>7. PICK E : E = Append(B, b)
  OBVIOUS
<1>8. /\ E \in Seq(Burn) /\ Len(E) = n + 1 /\ E[n + 1] = b
      /\ \A i \in 1 .. n : E[i] = B[i]
  BY <1>2, <1>3, <1>5, <1>7, AppendProperties
<1>9. /\ ust'.head = ust.head + 1 /\ ust'.burns = E
      /\ ust' \in [head : Nat, burns : Seq(Burn)]
  BY <1>2, <1>6, <1>7, <1>8
<1>10. ust.head + 1 <= MaxUstBlock
  BY <1>2, <1>6, RelayerAssumption DEF RelayerAssumption
<1> QED
  BY <1>1, <1>3, <1>4, <1>8, <1>9, <1>10 DEF BurnAdded

LEMMA BurnKeepsUst ==
  ASSUME UstInv, NEW u \in Users, NEW v \in Nat, NEW valid \in BOOLEAN, burnUSDT(u, v, valid)
  PROVE  UstInv'
<1>0. PICK n \in Nat : BurnAdded(n, v, valid)
  BY BurnAppends
<1>1.   /\ n = Len(ust.burns) /\ Len(ust'.burns) = n + 1
        /\ \A i \in 1 .. n : ust'.burns[i] = ust.burns[i]
        /\ ust'.burns[n + 1] = [id |-> n + 1, amount |-> v, valid |-> valid,
                                block |-> ust.head + 1]
        /\ ust'.head = ust.head + 1 /\ ust'.head <= MaxUstBlock
        /\ ust' \in [head : Nat, burns : Seq(Burn)]
  BY <1>0 DEF BurnAdded
<1>2. /\ ust.head \in Nat /\ n = ust.head
      /\ ust'.burns[n + 1].id = n + 1 /\ ust'.burns[n + 1].block = ust.head + 1
  BY <1>1 DEF UstInv
<1>3. ASSUME NEW i \in 1 .. n + 1
      PROVE  ust'.burns[i].id = i /\ ust'.burns[i].block <= ust'.head
  <2>1. CASE i \in 1 .. n
    <3>1. ust.burns[i].id = i /\ ust.burns[i].block <= ust.head /\ ust.burns[i].block \in Nat
      <4>1. ust.burns[i] \in Burn
        BY <1>1, <2>1, ElementOfSeq DEF UstInv
      <4> QED
        BY <1>1, <2>1, <4>1 DEF UstInv, Burn
    <3> QED
      BY <1>1, <1>2, <2>1, <3>1
  <2>2. CASE i = n + 1
    BY <1>1, <1>2, <2>2
  <2> QED
    BY <2>1, <2>2
<1> QED
  BY <1>1, <1>2, <1>3 DEF UstInv

LEMMA PayoutKeepsEth ==
  ASSUME EthInv, UstInv, NEW id \in 1 .. MaxBurns, minePayout(id)
  PROVE  /\ EthInv' /\ eth'.deposits = eth.deposits /\ eth'.head = eth.head
<1>1. PICK b : b = ust.burns[id]
  OBVIOUS
<1>2. id <= Len(ust.burns) /\ (eth' = eth \/ eth' = [eth EXCEPT !.treasury = @ - b.amount])
  BY <1>1 DEF minePayout
<1>3. b.amount \in Nat
  <2>1. id \in 1 .. Len(ust.burns) /\ ust.burns \in Seq(Burn)
    BY <1>2, LenProperties DEF UstInv
  <2>2. b \in Burn
    BY <1>1, <2>1, ElementOfSeq
  <2> QED
    BY <2>2 DEF Burn
<1>4. /\ eth'.deposits = eth.deposits /\ eth'.head = eth.head
      /\ eth' \in [head : Nat, deposits : Seq(EthDeposit), treasury : Int]
  BY <1>2, <1>3 DEF EthInv
<1> QED
  BY <1>4 DEF EthInv

LEMMA ChainsInit == Init => EthInv /\ UstInv
<1>1. <<>> \in Seq(EthDeposit) /\ <<>> \in Seq(Burn) /\ Len(<<>>) = 0
  BY EmptySeq
<1>2. \A i \in 1 .. 0 : FALSE
  OBVIOUS
<1> QED
  BY <1>1, <1>2, RelayerAssumption DEF Init, EthInv, UstInv, RelayerAssumption

LEMMA ChainsNext ==
  ASSUME EthInv, UstInv, [Next]_vars
  PROVE  EthInv' /\ UstInv'
<1>1. CASE UNCHANGED <<eth, ust>>
  BY <1>1 DEF EthInv, UstInv
<1>2. CASE ethBlock
  <2>1. eth' = [eth EXCEPT !.head = @ + 1] /\ eth.head < MaxEthBlock /\ ust' = ust
    BY <1>2 DEF ethBlock
  <2>2. /\ eth'.deposits = eth.deposits /\ eth'.head = eth.head + 1 /\ eth.head \in Nat
        /\ eth' \in [head : Nat, deposits : Seq(EthDeposit), treasury : Int]
    BY <2>1 DEF EthInv
  <2>3. eth'.head <= MaxEthBlock
    BY <2>1, <2>2, RelayerAssumption DEF RelayerAssumption
  <2>4. \A i \in 1 .. Len(eth.deposits) : eth'.deposits[i].block \in 1 .. eth'.head
    <3> SUFFICES ASSUME NEW i \in 1 .. Len(eth.deposits)
                 PROVE  eth'.deposits[i].block \in 1 .. eth'.head
      OBVIOUS
    <3>1. eth.deposits[i].block \in 1 .. eth.head
      BY DEF EthInv
    <3> QED
      BY <2>2, <3>1
  <2>5. EthInv'
    BY <2>2, <2>3, <2>4 DEF EthInv
  <2> QED
    BY <2>1, <2>5 DEF UstInv
<1>3. ASSUME NEW u \in Users, NEW t \in EthTxs, NEW v \in Values, depositUSDT(u, t, v)
      PROVE  EthInv' /\ UstInv'
  <2>1. EthInv'
    BY <1>3, Amounts, TokenAssumption, DepositKeepsEth
  <2> QED
    BY <1>3, <2>1 DEF depositUSDT, UstInv
<1>4. ASSUME NEW u \in Users, NEW v \in Values, NEW valid \in BOOLEAN, burnUSDT(u, v, valid)
      PROVE  EthInv' /\ UstInv'
  <2>1. UstInv'
    BY <1>4, Amounts, TokenAssumption, BurnKeepsUst
  <2> QED
    BY <1>4, <2>1 DEF burnUSDT, EthInv
<1>5. ASSUME NEW id \in 1 .. MaxBurns, minePayout(id) PROVE EthInv' /\ UstInv'
  BY <1>5, PayoutKeepsEth DEF minePayout, UstInv
<1>6. ASSUME NEW t \in EthTxs, mineMint(t) PROVE UNCHANGED <<eth, ust>>
  BY <1>6 DEF mineMint
<1> QED
  BY <1>1, <1>2, <1>3, <1>4, <1>5, <1>6, ProcessLeaves DEF Next, Environment, vars

LEMMA LogsRange ==
  ASSUME NEW D, NEW events \in Seq(D), NEW from, NEW to
  PROVE  /\ Logs(events, from, to) \in Seq(Range(events))
         /\ Range(Logs(events, from, to)) =
              {e \in Range(events) : e.block >= from /\ e.block <= to}
<1>1. PICK R : R = Range(events)
  OBVIOUS
<1>2. PICK L : L = Logs(events, from, to)
  OBVIOUS
<1>3. PICK H : H = {e \in R : e.block >= from /\ e.block <= to}
  OBVIOUS
<1>4. events \in Seq(R) /\ \A e \in R : \E i \in 1 .. Len(events) : e = events[i]
  BY <1>1, SeqRange
<1>5. L \in Seq(R) /\ Reports(L, events, H, Len(events))
  BY <1>2, <1>3, <1>4, LogsReport
<1>6. /\ \A j \in 1 .. Len(L) : L[j] \in Range(L)
      /\ \A x \in Range(L) : \E j \in 1 .. Len(L) : x = L[j]
  BY <1>5, SeqRange
<1>7. Range(L) \subseteq H
  BY <1>5, <1>6, Zenon DEF Reports
<1>8. ASSUME NEW e \in H PROVE e \in Range(L)
  <2>1. PICK i \in 1 .. Len(events) : e = events[i]
    BY <1>3, <1>4
  <2>2. \E j \in 1 .. Len(L) : L[j] = events[i]
    BY <1>5, <2>1, Zenon DEF Reports
  <2> QED
    BY <1>6, <2>1, <2>2
<1> QED
  BY <1>1, <1>2, <1>3, <1>5, <1>7, <1>8

\* The deposits and the burns, as sets.
Recorded == Range(eth.deposits)
Burned == Range(ust.burns)

LEMMA RecordedAre ==
  ASSUME EthInv
  PROVE  /\ \A i \in 1 .. Len(eth.deposits) : eth.deposits[i] \in Recorded
         /\ \A d \in Recorded : \E i \in 1 .. Len(eth.deposits) : d = eth.deposits[i]
         /\ Recorded \subseteq EthDeposit /\ eth.deposits \in Seq(Recorded)
         /\ \A d, e \in Recorded : d.tx = e.tx => d = e
         /\ \A d \in Recorded : d.block \in 1 .. eth.head
<1>1. eth.deposits \in Seq(EthDeposit)
  BY DEF EthInv
<1>2. /\ \A i \in 1 .. Len(eth.deposits) : eth.deposits[i] \in Recorded
      /\ \A d \in Recorded : \E i \in 1 .. Len(eth.deposits) : d = eth.deposits[i]
      /\ Recorded \subseteq EthDeposit /\ eth.deposits \in Seq(Recorded)
  BY <1>1, SeqRange DEF Recorded
<1>3. \A d, e \in Recorded : d.tx = e.tx => d = e
  <2> TAKE d, e \in Recorded
  <2> HAVE d.tx = e.tx
  <2>1. PICK i, j \in 1 .. Len(eth.deposits) : d = eth.deposits[i] /\ e = eth.deposits[j]
    BY <1>2
  <2>2. i = j
    BY <2>1 DEF EthInv
  <2> QED
    BY <2>1, <2>2
<1>4. \A d \in Recorded : d.block \in 1 .. eth.head
  BY <1>2 DEF EthInv
<1> QED
  BY <1>2, <1>3, <1>4

LEMMA BurnedAre ==
  ASSUME UstInv
  PROVE  /\ \A i \in 1 .. Len(ust.burns) : ust.burns[i] \in Burned
         /\ Burned \subseteq Burn /\ ust.burns \in Seq(Burned)
         /\ \A b \in Burned : /\ b.id \in 1 .. Len(ust.burns) /\ b = ust.burns[b.id]
                              /\ b.block <= ust.head
<1>1. ust.burns \in Seq(Burn)
  BY DEF UstInv
<1>2. /\ \A i \in 1 .. Len(ust.burns) : ust.burns[i] \in Burned
      /\ \A b \in Burned : \E i \in 1 .. Len(ust.burns) : b = ust.burns[i]
      /\ Burned \subseteq Burn /\ ust.burns \in Seq(Burned)
  BY <1>1, SeqRange DEF Burned
<1> QED
  BY <1>2 DEF UstInv

LEMMA DepositRecorded ==
  ASSUME EthInv, NEW u \in Users, NEW t \in EthTxs, NEW v \in Nat, depositUSDT(u, t, v)
  PROVE  /\ [tx |-> t, from |-> u, amount |-> v, block |-> eth.head + 1] \in EthDeposit
         /\ Recorded' = Recorded \cup {[tx |-> t, from |-> u, amount |-> v,
                                        block |-> eth.head + 1]}
         /\ \A d \in Recorded : d.tx # t
         /\ eth'.head = eth.head + 1 /\ eth'.treasury = eth.treasury + v
<1>1. PICK d : d = [tx |-> t, from |-> u, amount |-> v, block |-> eth.head + 1]
  OBVIOUS
<1>2. eth.deposits \in Seq(EthDeposit) /\ eth.head \in Nat
  BY DEF EthInv
<1>3. d \in EthDeposit
  BY <1>1, <1>2 DEF EthDeposit
<1>4. /\ eth'.deposits = Append(eth.deposits, d) /\ eth'.head = eth.head + 1
      /\ eth'.treasury = eth.treasury + v
      /\ \A i \in 1 .. Len(eth.deposits) : eth.deposits[i].tx # t
  BY <1>1 DEF depositUSDT
<1>5. Recorded' = Recorded \cup {d}
  BY <1>2, <1>3, <1>4, AppendRange DEF Recorded
<1> QED
  BY <1>1, <1>3, <1>4, <1>5, RecordedAre

LEMMA BurnRecorded ==
  ASSUME UstInv, NEW u \in Users, NEW v \in Nat, NEW valid \in BOOLEAN, burnUSDT(u, v, valid)
  PROVE  \E b \in Burn :
           /\ Burned' = Burned \cup {b}
           /\ b.id = Len(ust.burns) + 1 /\ b.amount = v /\ b.block = ust.head + 1
           /\ ust'.head = ust.head + 1
<1>1. PICK n \in Nat : n = Len(ust.burns)
  BY LenProperties DEF UstInv
<1>2. PICK b : b = [id |-> n + 1, amount |-> v, valid |-> valid, block |-> ust.head + 1]
  OBVIOUS
<1>3. ust.burns \in Seq(Burn) /\ ust.head \in Nat
  BY DEF UstInv
<1>4. b \in Burn
  BY <1>2, <1>3 DEF Burn
<1>5. ust'.burns = Append(ust.burns, b) /\ ust'.head = ust.head + 1
  BY <1>1, <1>2 DEF burnUSDT
<1>6. Burned' = Burned \cup {b}
  BY <1>3, <1>4, <1>5, AppendRange DEF Burned
<1> QED
  BY <1>1, <1>2, <1>4, <1>5, <1>6

LEMMA RecordGrows ==
  ASSUME EthInv, UstInv, [Next]_vars
  PROVE  /\ Recorded \subseteq Recorded' /\ Burned \subseteq Burned'
         /\ \/ UNCHANGED eth \/ ethBlock
            \/ \E u \in Users, t \in EthTxs, v \in Nat : depositUSDT(u, t, v)
            \/ \E id \in 1 .. MaxBurns : minePayout(id)
         /\ UNCHANGED ust \/ \E u \in Users, v \in Nat, valid \in BOOLEAN : burnUSDT(u, v, valid)
<1>1. CASE UNCHANGED <<eth, ust>>
  BY <1>1 DEF Recorded, Burned
<1>2. CASE ethBlock
  BY <1>2 DEF ethBlock, Recorded, Burned
<1>3. ASSUME NEW u \in Users, NEW t \in EthTxs, NEW v \in Nat, depositUSDT(u, t, v)
      PROVE  Recorded \subseteq Recorded' /\ UNCHANGED <<ust, Burned>>
  BY <1>3, DepositRecorded DEF depositUSDT, Burned
<1>4. ASSUME NEW u \in Users, NEW v \in Nat, NEW valid \in BOOLEAN, burnUSDT(u, v, valid)
      PROVE  Burned \subseteq Burned' /\ UNCHANGED <<eth, Recorded>>
  BY <1>4, BurnRecorded DEF burnUSDT, Recorded
<1>5. ASSUME NEW id \in 1 .. MaxBurns, minePayout(id)
      PROVE  UNCHANGED <<ust, Recorded, Burned>>
  BY <1>5, PayoutKeepsEth DEF minePayout, Recorded, Burned
<1>6. ASSUME NEW t \in EthTxs, mineMint(t) PROVE UNCHANGED <<eth, ust>>
  BY <1>6 DEF mineMint
<1>7. Relayer \/ Faults \/ UNCHANGED vars => UNCHANGED <<eth, ust>>
  BY ProcessLeaves DEF vars
<1>8. \/ UNCHANGED <<eth, ust>> \/ ethBlock
      \/ \E u \in Users, t \in EthTxs, v \in Nat : depositUSDT(u, t, v)
      \/ \E u \in Users, v \in Nat, valid \in BOOLEAN : burnUSDT(u, v, valid)
      \/ \E id \in 1 .. MaxBurns : minePayout(id)
  <2>1. Values \subseteq Nat
    BY Amounts, TokenAssumption
  <2>2. Environment \/ (\E t \in EthTxs : mineMint(t)) \/ UNCHANGED <<eth, ust>>
    BY <1>7 DEF Next
  <2> QED
    BY <1>6, <2>1, <2>2 DEF Environment
<1>9. ASSUME ethBlock PROVE UNCHANGED ust
  BY <1>9 DEF ethBlock
<1>10. Recorded \subseteq Recorded' /\ Burned \subseteq Burned'
  BY <1>1, <1>2, <1>3, <1>4, <1>5, <1>8
<1>11. \/ UNCHANGED eth \/ ethBlock
       \/ \E u \in Users, t \in EthTxs, v \in Nat : depositUSDT(u, t, v)
       \/ \E id \in 1 .. MaxBurns : minePayout(id)
  BY <1>4, <1>8
<1>12. UNCHANGED ust \/ \E u \in Users, v \in Nat, valid \in BOOLEAN : burnUSDT(u, v, valid)
  BY <1>3, <1>5, <1>8, <1>9
<1> QED
  BY <1>10, <1>11, <1>12

-----------------------------------------------------------------------------
(* Types of what the process holds and of what is broadcast *)

Cursors == [eth : Nat, ust : Nat]
Entries == [tx : EthTxs, from : Users, at : Nat]
MemTypes == [ethLast : Nat, ustLast : Nat, ethTo : Nat, ustHead : Nat,
             processed : SUBSET EthTxs, window : SUBSET Entries]
SeenTypes == [deposits : SUBSET EthTxs, burns : SUBSET Nat, stopped : Nat, saved : Nat,
              jumped : SUBSET Int, ustFrom : Nat]
PerBurn == [1 .. MaxBurns -> Nat]

ProcInv ==
  /\ mem \in MemTypes /\ seen \in SeenTypes
  /\ disk \in [state : {NoState} \cup Cursors, processed : SUBSET EthTxs]
  /\ broadcast \subseteq Entries /\ crashes \in Nat
  /\ mempool \in [EthTxs -> Nat]
  /\ payouts \in [sent : PerBurn, mined : PerBurn, paid : PerBurn]
  /\ pc \in {"deposits", "record"} => todo \in Seq(Recorded)
  /\ pc = "record" => todo # <<>>
  /\ pc = "withdrawals" => todo \in Seq(Burned)

\* The chains and their users reach nothing of the process.
LEMMA WorldLeaves ==
  ASSUME Environment \/ \E t \in EthTxs : mineMint(t)
  PROVE  /\ UNCHANGED <<pc, todo, mem, disk, seen, broadcast, crashes>>
         /\ UNCHANGED mempool \/ \E t \in EthTxs : mineMint(t)
         /\ UNCHANGED payouts \/ \E id \in 1 .. MaxBurns : minePayout(id)
<1>1. CASE ethBlock
  BY <1>1 DEF ethBlock, process, observed, budget
<1>2. ASSUME NEW u, NEW t, NEW v, depositUSDT(u, t, v)
      PROVE  UNCHANGED <<pc, todo, mem, disk, seen, broadcast, crashes, mempool, payouts>>
  BY <1>2 DEF depositUSDT, process, observed, budget
<1>3. ASSUME NEW u, NEW v, NEW valid, burnUSDT(u, v, valid)
      PROVE  UNCHANGED <<pc, todo, mem, disk, seen, broadcast, crashes, mempool, payouts>>
  BY <1>3 DEF burnUSDT, process, observed, budget
<1>4. ASSUME NEW id \in 1 .. MaxBurns, minePayout(id)
      PROVE  UNCHANGED <<pc, todo, mem, disk, seen, broadcast, crashes, mempool>>
  BY <1>4 DEF minePayout, process, observed, budget
<1>5. ASSUME NEW t \in EthTxs, mineMint(t)
      PROVE  UNCHANGED <<pc, todo, mem, disk, seen, broadcast, crashes, payouts>>
  BY <1>5 DEF mineMint, process, observed, budget
<1> QED
  BY <1>1, <1>2, <1>3, <1>4, <1>5 DEF Environment

LEMMA QueueGrows ==
  ASSUME ProcInv, Recorded \subseteq Recorded', Burned \subseteq Burned',
         UNCHANGED <<pc, todo>>
  PROVE  /\ pc' \in {"deposits", "record"} => todo' \in Seq(Recorded')
         /\ pc' = "record" => todo' # <<>>
         /\ pc' = "withdrawals" => todo' \in Seq(Burned')
  BY SeqMonotonic DEF ProcInv

LEMMA MinIsOne ==
  ASSUME NEW a \in Nat, NEW b \in Nat
  PROVE  MinOf(a, b) \in Nat /\ MinOf(a, b) <= a /\ MinOf(a, b) <= b
  BY DEF MinOf

LEMMA CountsOneMore ==
  ASSUME NEW f \in PerBurn, NEW i
  PROVE  [f EXCEPT ![i] = @ + 1] \in PerBurn
<1>1. PICK B : B = 1 .. MaxBurns
  OBVIOUS
<1>2. f \in [B -> Nat]
  BY <1>1 DEF PerBurn
<1>3. ASSUME NEW x \in B PROVE [f EXCEPT ![i] = @ + 1][x] \in Nat
  BY <1>2
<1>4. [f EXCEPT ![i] = @ + 1] \in [B -> Nat]
  BY <1>2, <1>3
<1> QED
  BY <1>1, <1>4 DEF PerBurn

LEMMA ProcInit == Init => ProcInv
  BY RelayerAssumption DEF Init, ProcInv, MemTypes, SeenTypes, PerBurn, NoMemory, MaxBurns, RelayerAssumption

LEMMA WorldKeepsProc ==
  ASSUME EthInv, UstInv, ProcInv, Next, Environment \/ \E t \in EthTxs : mineMint(t)
  PROVE  ProcInv'
<1>1. Recorded \subseteq Recorded' /\ Burned \subseteq Burned'
  BY RecordGrows
<1>2. UNCHANGED <<pc, todo, disk, seen, crashes>>
  BY WorldLeaves
<1>3. mem' \in MemTypes /\ broadcast' \subseteq Entries
  BY WorldLeaves DEF ProcInv
<1>4. mempool' \in [EthTxs -> Nat]
  <2>1. ASSUME NEW t \in EthTxs, mineMint(t) PROVE mempool' \in [EthTxs -> Nat]
    BY <2>1 DEF mineMint, ProcInv
  <2> QED
    BY <2>1, WorldLeaves DEF ProcInv
<1>5. payouts' \in [sent : PerBurn, mined : PerBurn, paid : PerBurn]
  <2>1. ASSUME NEW id \in 1 .. MaxBurns, minePayout(id)
        PROVE  payouts' \in [sent : PerBurn, mined : PerBurn, paid : PerBurn]
    <3>1. \/ payouts' = [payouts EXCEPT !.mined[id] = @ + 1, !.paid[id] = @ + 1]
          \/ payouts' = [payouts EXCEPT !.mined[id] = @ + 1]
      BY <2>1 DEF minePayout
    <3>2. PICK m, p : /\ m = [payouts.mined EXCEPT ![id] = @ + 1]
                      /\ p = [payouts.paid EXCEPT ![id] = @ + 1]
      OBVIOUS
    <3>3. m \in PerBurn /\ p \in PerBurn
      <4>1. payouts.mined \in PerBurn /\ payouts.paid \in PerBurn
        BY DEF ProcInv
      <4> QED
        BY <3>2, <4>1, CountsOneMore
    <3>4. \/ payouts' = [payouts EXCEPT !.mined = m, !.paid = p]
          \/ payouts' = [payouts EXCEPT !.mined = m]
      BY <3>1, <3>2 DEF ProcInv
    <3> QED
      BY <3>3, <3>4 DEF ProcInv
  <2> QED
    BY <2>1, WorldLeaves DEF ProcInv
<1> QED
  BY <1>1, <1>2, <1>3, <1>4, <1>5, QueueGrows DEF ProcInv

\* The scans put what they find in the queue, the handlers take it off.
LEMMA ScanQueues ==
  ASSUME EthInv, UstInv, NEW a, NEW b
  PROVE  /\ Logs(eth.deposits, a, b) \in Seq(Recorded)
         /\ Logs(ust.burns, a, b) \in Seq(Burned)
  BY LogsRange DEF EthInv, UstInv, Recorded, Burned

LEMMA DepositQueue ==
  ASSUME EthInv, ProcInv, pc \in {"deposits", "record"}, todo # <<>>
  PROVE  /\ Head(todo) \in Recorded /\ Head(todo).tx \in EthTxs
         /\ Head(todo).from \in Users /\ Head(todo).amount \in Nat
         /\ Tail(todo) \in Seq(Recorded)
         /\ Range(todo) = Range(Tail(todo)) \cup {Head(todo)}
<1>1. todo \in Seq(Recorded)
  BY DEF ProcInv
<1>2. /\ Head(todo) \in Recorded /\ Tail(todo) \in Seq(Recorded)
      /\ Range(todo) = Range(Tail(todo)) \cup {Head(todo)}
  BY <1>1, TailRange
<1>3. Head(todo) \in EthDeposit
  BY <1>2, RecordedAre
<1> QED
  BY <1>2, <1>3 DEF EthDeposit

LEMMA BurnQueue ==
  ASSUME UstInv, ProcInv, pc = "withdrawals", todo # <<>>
  PROVE  /\ Head(todo) \in Burned /\ Head(todo).id \in Nat /\ Head(todo).amount \in Nat
         /\ Tail(todo) \in Seq(Burned)
         /\ Range(todo) = Range(Tail(todo)) \cup {Head(todo)}
<1>1. todo \in Seq(Burned)
  BY DEF ProcInv
<1>2. /\ Head(todo) \in Burned /\ Tail(todo) \in Seq(Burned)
      /\ Range(todo) = Range(Tail(todo)) \cup {Head(todo)}
  BY <1>1, TailRange
<1>3. Head(todo) \in Burn
  BY <1>2, BurnedAre
<1> QED
  BY <1>2, <1>3 DEF Burn

\* What a handler leaves as it was.
LEMMA StepKeepsProc ==
  ASSUME ProcInv, UNCHANGED <<eth, ust>>, mem' \in MemTypes, seen' \in SeenTypes,
         disk' \in [state : {NoState} \cup Cursors, processed : SUBSET EthTxs],
         broadcast' \subseteq Entries, crashes' \in Nat,
         mempool' \in [EthTxs -> Nat],
         payouts' \in [sent : PerBurn, mined : PerBurn, paid : PerBurn],
         \/ pc' \in {"down", "poll", "scan", "save"}
         \/ pc' = "deposits" /\ todo' \in Seq(Recorded)
         \/ pc' = "record" /\ todo' \in Seq(Recorded) /\ todo' # <<>>
         \/ pc' = "withdrawals" /\ todo' \in Seq(Burned)
  PROVE  ProcInv'
<1>1. Recorded' = Recorded /\ Burned' = Burned
  BY DEF Recorded, Burned
<1> QED
  BY <1>1 DEF ProcInv

LEMMA StartKeepsProc == ASSUME EthInv, UstInv, ProcInv, start PROVE ProcInv'
<1>1. PICK s : s = IF disk.state # NoState THEN disk.state
                   ELSE [eth |-> eth.head, ust |-> ust.head]
  OBVIOUS
<1>2. s.eth \in Nat /\ s.ust \in Nat /\ eth.head \in Nat /\ ust.head \in Nat
  BY <1>1 DEF EthInv, UstInv, ProcInv, Cursors
<1>3. /\ mem' = [ethLast |-> s.eth, ustLast |-> s.ust, ethTo |-> s.eth,
                 ustHead |-> s.ust, processed |-> disk.processed, window |-> {}]
      /\ seen' = IF disk.state # NoState THEN seen
                 ELSE [seen EXCEPT !.jumped = @ \cup (seen.stopped + 1) .. eth.head,
                                   !.ustFrom = ust.head]
      /\ pc' = "poll"
      /\ UNCHANGED <<eth, ust, mempool, payouts, disk, broadcast, crashes>>
  BY <1>1 DEF start, chains, budget
<1>4. mem' \in MemTypes
  BY <1>2, <1>3 DEF ProcInv, MemTypes
<1>5. seen' \in SeenTypes
  <2>1. PICK J : J = seen.jumped \cup (seen.stopped + 1) .. eth.head
    OBVIOUS
  <2>2. J \subseteq Int
    BY <1>2, <2>1 DEF ProcInv, SeenTypes
  <2>3. seen' = seen \/ seen' = [seen EXCEPT !.jumped = J, !.ustFrom = ust.head]
    BY <1>3, <2>1 DEF ProcInv, SeenTypes
  <2> QED
    BY <1>2, <2>2, <2>3 DEF ProcInv, SeenTypes
<1> QED
  BY <1>3, <1>4, <1>5, StepKeepsProc DEF ProcInv

LEMMA PollKeepsProc == ASSUME EthInv, UstInv, ProcInv, poll PROVE ProcInv'
<1>1. PICK n : n = IF eth.head > mem.ethLast THEN depositsUpTo ELSE mem.ethLast
  OBVIOUS
<1>2. /\ eth.head \in Nat /\ ust.head \in Nat /\ mem.ethLast \in Nat
      /\ mem.ethLast + 1 + DEPOSIT_WINDOW \in Nat
  BY RelayerAssumption DEF EthInv, UstInv, ProcInv, MemTypes, RelayerAssumption
<1>3. n \in Nat
  BY <1>1, <1>2, MinIsOne DEF depositsUpTo
<1>4. /\ mem' = [mem EXCEPT !.ethTo = n, !.ustHead = ust.head]
      /\ todo' \in Seq(Recorded) /\ pc' = "deposits"
      /\ UNCHANGED <<eth, ust, mempool, payouts, disk, seen, broadcast, crashes>>
  BY <1>1, ScanQueues DEF poll, chains, observed, budget
<1>5. mem' \in MemTypes
  BY <1>2, <1>3, <1>4 DEF ProcInv, MemTypes
<1> QED
  BY <1>4, <1>5, StepKeepsProc DEF ProcInv

LEMMA SkipDepositKeepsProc == ASSUME EthInv, UstInv, ProcInv, skipDeposit PROVE ProcInv'
<1>1. /\ pc = "deposits" /\ todo # <<>> /\ todo' = Tail(todo) /\ pc' = pc
      /\ seen' = [seen EXCEPT !.deposits = @ \cup {Head(todo).tx}]
      /\ UNCHANGED <<eth, ust, mempool, payouts, mem, disk, broadcast, crashes>>
  BY DEF skipDeposit, lookedAt, chains, budget
<1>2. seen' \in SeenTypes /\ todo' \in Seq(Recorded)
  BY <1>1, DepositQueue DEF ProcInv, SeenTypes
<1> QED
  BY <1>1, <1>2, StepKeepsProc DEF ProcInv

LEMMA MintDepositKeepsProc ==
  ASSUME EthInv, UstInv, ProcInv, NEW o, mintDeposit(o) PROVE ProcInv'
<1>1. PICK d, e : d = Head(todo) /\ e = [tx |-> d.tx, from |-> d.from, at |-> eth.head]
  OBVIOUS
<1>2. /\ pc = "deposits" /\ todo # <<>>
      /\ mem' = [mem EXCEPT !.window = @ \cup {e}, !.processed = mem.processed]
      /\ \/ mempool' = [mempool EXCEPT ![d.tx] = @ + 1] /\ broadcast' = broadcast \cup {e}
         \/ UNCHANGED <<mempool, broadcast>>
      /\ seen' = [seen EXCEPT !.deposits = @ \cup {d.tx}]
      /\ \/ pc' = "record" /\ UNCHANGED todo
         \/ pc' = pc /\ todo' = Tail(todo)
      /\ UNCHANGED <<eth, ust, payouts, disk, crashes>>
  BY <1>1 DEF mintDeposit, cacheAtSend, lookedAt
<1>3. d.tx \in EthTxs /\ todo \in Seq(Recorded) /\ Tail(todo) \in Seq(Recorded)
      /\ e \in Entries
  BY <1>1, <1>2, DepositQueue DEF ProcInv, EthInv, Entries
<1>4. mem' \in MemTypes /\ seen' \in SeenTypes
  BY <1>2, <1>3 DEF ProcInv, MemTypes, SeenTypes
<1>5. mempool' \in [EthTxs -> Nat] /\ broadcast' \subseteq Entries
  <2>1. mempool \in [EthTxs -> Nat] /\ broadcast \subseteq Entries
    BY DEF ProcInv
  <2>2. \/ mempool' = [mempool EXCEPT ![d.tx] = @ + 1] /\ broadcast' = broadcast \cup {e}
        \/ mempool' = mempool /\ broadcast' = broadcast
    BY <1>2
  <2>3. PICK t \in EthTxs : t = d.tx
    BY <1>3
  <2>4. [mempool EXCEPT ![t] = @ + 1] \in [EthTxs -> Nat] /\ broadcast \cup {e} \subseteq Entries
    BY <1>3, <2>1
  <2> QED
    BY <2>1, <2>2, <2>3, <2>4
<1>6. \/ pc' = "deposits" /\ todo' \in Seq(Recorded)
      \/ pc' = "record" /\ todo' \in Seq(Recorded) /\ todo' # <<>>
  <2>1. CASE pc' = "record" /\ UNCHANGED todo
    <3>1. todo' = todo /\ todo # <<>>
      BY <1>2, <2>1
    <3> QED
      BY <1>3, <2>1, <3>1
  <2>2. CASE pc' = pc /\ todo' = Tail(todo)
    BY <1>2, <1>3, <2>2
  <2> QED
    BY <1>2, <2>1, <2>2
<1>7. /\ disk' \in [state : {NoState} \cup Cursors, processed : SUBSET EthTxs]
      /\ payouts' \in [sent : PerBurn, mined : PerBurn, paid : PerBurn] /\ crashes' \in Nat
  BY <1>2 DEF ProcInv
<1>8. UNCHANGED <<eth, ust>>
  BY <1>2
<1> QED
  BY <1>4, <1>5, <1>6, <1>7, <1>8, StepKeepsProc

LEMMA RecordKeepsProc == ASSUME EthInv, UstInv, ProcInv, recordDeposit PROVE ProcInv'
<1>1. /\ pc = "record" /\ todo # <<>> /\ todo' = Tail(todo) /\ pc' = "deposits"
      /\ mem' = [mem EXCEPT !.processed = @ \cup {Head(todo).tx}]
      /\ disk' = [disk EXCEPT !.processed = mem'.processed]
      /\ UNCHANGED <<eth, ust, mempool, payouts, seen, broadcast, crashes>>
  BY DEF recordDeposit, chains, observed, budget, ProcInv
<1>2. mem' \in MemTypes /\ todo' \in Seq(Recorded)
  BY <1>1, DepositQueue DEF ProcInv, MemTypes
<1>3. disk' \in [state : {NoState} \cup Cursors, processed : SUBSET EthTxs]
  BY <1>1, <1>2 DEF ProcInv, MemTypes
<1> QED
  BY <1>1, <1>2, <1>3, StepKeepsProc DEF ProcInv

LEMMA HandleBurnKeepsProc ==
  ASSUME EthInv, UstInv, ProcInv, skipWithdrawal \/ payWithdrawal PROVE ProcInv'
<1>1. PICK b : b = Head(todo)
  OBVIOUS
<1>2. /\ pc = "withdrawals" /\ todo # <<>> /\ todo' = Tail(todo) /\ pc' = pc
      /\ seen' = [seen EXCEPT !.burns = @ \cup {b.id}]
      /\ \/ UNCHANGED payouts \/ payouts' = [payouts EXCEPT !.sent[b.id] = @ + 1]
      /\ UNCHANGED <<eth, ust, mempool, mem, disk, broadcast, crashes>>
  BY <1>1 DEF skipWithdrawal, payWithdrawal, handled, chains, budget
<1>3. seen' \in SeenTypes /\ todo' \in Seq(Burned)
  BY <1>1, <1>2, BurnQueue DEF ProcInv, SeenTypes
<1>4. payouts' \in [sent : PerBurn, mined : PerBurn, paid : PerBurn]
  <2>1. PICK s : s = [payouts.sent EXCEPT ![b.id] = @ + 1]
    OBVIOUS
  <2>2. s \in PerBurn
    <3>1. payouts.sent \in PerBurn
      BY DEF ProcInv
    <3> QED
      BY <2>1, <3>1, CountsOneMore
  <2>3. UNCHANGED payouts \/ payouts' = [payouts EXCEPT !.sent = s]
    BY <1>2, <2>1 DEF ProcInv
  <2> QED
    BY <2>2, <2>3 DEF ProcInv
<1> QED
  BY <1>2, <1>3, <1>4, StepKeepsProc DEF ProcInv

\* The steps that only move the cursors and save them.
LEMMA CursorsKeepProc ==
  ASSUME EthInv, UstInv, ProcInv,
         \/ depositsDone \/ scanWithdrawals \/ withdrawalsDone \/ save
         \/ \E pebble : scanFails(pebble)
  PROVE  ProcInv'
<1> USE DEF observed, budget, chains
<1>1. CASE depositsDone
  <2>1. mem' = [mem EXCEPT !.ethLast = mem.ethTo]
    BY <1>1 DEF depositsDone
  <2>2. mem' \in MemTypes
    BY <2>1 DEF ProcInv, MemTypes
  <2> QED
    BY <1>1, <2>2, StepKeepsProc DEF depositsDone, ProcInv
<1>2. CASE scanWithdrawals
  <2>1. \/ pc' = "withdrawals" /\ todo' \in Seq(Burned)
        \/ pc' = "save"
    BY <1>2, ScanQueues DEF scanWithdrawals
  <2> QED
    BY <1>2, <2>1, StepKeepsProc DEF scanWithdrawals, ProcInv
<1>3. CASE withdrawalsDone
  <2>1. mem' = [mem EXCEPT !.ustLast = mem.ustHead]
    BY <1>3 DEF withdrawalsDone, burnsUpTo
  <2>2. mem' \in MemTypes
    BY <2>1 DEF ProcInv, MemTypes
  <2> QED
    BY <1>3, <2>2, StepKeepsProc DEF withdrawalsDone, ProcInv
<1>4. CASE save
  <2>1. disk' = [disk EXCEPT !.state = [eth |-> mem.ethLast, ust |-> mem.ustLast]]
    BY <1>4 DEF save
  <2>2. disk' \in [state : {NoState} \cup Cursors, processed : SUBSET EthTxs]
    BY <2>1 DEF ProcInv, MemTypes, Cursors
  <2>3. seen' \in SeenTypes
    <3>1. MinOf(seen.saved, mem.ethLast) \in Nat
      BY MinIsOne DEF ProcInv, SeenTypes, MemTypes
    <3> QED
      BY <1>4, <3>1 DEF save, ProcInv, SeenTypes
  <2> QED
    BY <1>4, <2>2, <2>3, StepKeepsProc DEF save, ProcInv
<1>5. ASSUME NEW pebble, scanFails(pebble) PROVE ProcInv'
  <2>1. \/ UNCHANGED mem
        \/ mem' = [mem EXCEPT !.ustLast = @ + PEBBLE_SKIP]
    BY <1>5 DEF scanFails
  <2>2. mem' \in MemTypes
    <3>1. mem.ustLast + PEBBLE_SKIP \in Nat
      BY RelayerAssumption DEF ProcInv, MemTypes, RelayerAssumption
    <3> QED
      BY <2>1, <3>1 DEF ProcInv, MemTypes
  <2>3. pc' \in {"poll", "save"}
    BY <1>5 DEF scanFails
  <2> QED
    BY <1>5, <2>2, <2>3, StepKeepsProc DEF scanFails, ProcInv
<1> QED
  BY <1>1, <1>2, <1>3, <1>4, <1>5

LEMMA CrashKeepsProc == ASSUME EthInv, UstInv, ProcInv, crash PROVE ProcInv'
<1>1. /\ pc' = "down" /\ mem' = NoMemory /\ crashes' = crashes + 1
      /\ \/ UNCHANGED disk
         \/ disk' = [disk EXCEPT !.state = NoState]
         \/ disk' = [disk EXCEPT !.processed = {}]
      /\ seen' = [seen EXCEPT !.stopped = mem.ethLast]
      /\ UNCHANGED <<eth, ust, mempool, payouts, broadcast>>
  BY DEF crash, chains
<1>2. mem' \in MemTypes /\ seen' \in SeenTypes
  BY <1>1 DEF NoMemory, MemTypes, ProcInv, SeenTypes
<1>3. disk' \in [state : {NoState} \cup Cursors, processed : SUBSET EthTxs]
  BY <1>1 DEF ProcInv
<1> QED
  BY <1>1, <1>2, <1>3, StepKeepsProc DEF ProcInv

LEMMA ProcNext ==
  ASSUME EthInv, UstInv, ProcInv, [Next]_vars
  PROVE  ProcInv'
<1>1. CASE UNCHANGED vars
  BY <1>1 DEF vars, ProcInv, Recorded, Burned
<1>2. CASE Relayer \/ Faults
  BY <1>2, StartKeepsProc, PollKeepsProc, SkipDepositKeepsProc, MintDepositKeepsProc,
     RecordKeepsProc, HandleBurnKeepsProc, CursorsKeepProc, CrashKeepsProc
     DEF Relayer, Faults
<1> QED
  BY <1>1, <1>2, WorldKeepsProc DEF Next

BaseInv == EthInv /\ UstInv /\ ProcInv

LEMMA BaseInit == Init => BaseInv
  BY ChainsInit, ProcInit DEF BaseInv

LEMMA BaseNext == BaseInv /\ [Next]_vars => BaseInv'
  BY ChainsNext, ProcNext DEF BaseInv

-----------------------------------------------------------------------------
(* No deposit is passed over                                                  *)

\* Whatever lies below n, and was not jumped over, was looked at.
Behind(n) ==
  \A d \in Recorded : d.block \notin seen.jumped /\ d.block <= n => d.tx \in seen.deposits

\* The cursors stay behind the head, what the scan in progress covers was looked at
\* or is still to come, and a process that stops leaves nothing behind its cursor.
ScanInv ==
  /\ mem.ethLast <= eth.head /\ mem.ethTo <= eth.head /\ seen.stopped <= eth.head
  /\ Behind(mem.ethLast) /\ Behind(seen.stopped)
  /\ disk.state # NoState => disk.state.eth <= eth.head /\ Behind(disk.state.eth)
  /\ pc \in {"deposits", "record"} =>
       \A d \in Recorded : d.block \notin seen.jumped /\ d.block <= mem.ethTo =>
         d.tx \in seen.deposits \/ d \in Range(todo)
  /\ pc = "record" => Head(todo).tx \in seen.deposits

LEMMA ScanInit == Init => ScanInv
<1> SUFFICES ASSUME Init PROVE ScanInv
  OBVIOUS
<1>1. Recorded = {}
  BY EmptyRange DEF Init, Recorded
<1> QED
  BY <1>1 DEF Init, ScanInv, Behind, NoMemory

LEMMA CursorTypes ==
  ASSUME BaseInv
  PROVE  /\ mem.ethLast \in Nat /\ mem.ethTo \in Nat /\ eth.head \in Nat
         /\ disk.state # NoState => disk.state.eth \in Nat /\ disk.state.ust \in Nat
         /\ seen.stopped \in Nat /\ seen.deposits \subseteq EthTxs
         /\ \A d \in Recorded : d.block \in 1 .. eth.head
         /\ mem.ustLast \in Nat /\ mem.ustHead \in Nat /\ ust.head \in Nat
  BY RecordedAre DEF BaseInv, EthInv, UstInv, ProcInv, MemTypes, SeenTypes, Cursors

\* New blocks are above every cursor.
LEMMA WorldKeepsScan ==
  ASSUME BaseInv, ScanInv, Next, Environment \/ \E t \in EthTxs : mineMint(t)
  PROVE  ScanInv'
<1>1. UNCHANGED <<pc, todo, mem, disk, seen>>
  BY WorldLeaves
<1>2. /\ eth.head <= eth'.head
      /\ \A d \in Recorded' : d \in Recorded \/ ~(d.block <= eth.head)
  <2>1. CASE UNCHANGED eth
    BY <2>1, CursorTypes DEF Recorded
  <2>2. CASE ethBlock
    <3>1. eth'.head = eth.head + 1 /\ Recorded' = Recorded
      BY <2>2 DEF ethBlock, Recorded, BaseInv, EthInv
    <3> QED
      BY <3>1, CursorTypes
  <2>3. ASSUME NEW u \in Users, NEW t \in EthTxs, NEW v \in Nat, depositUSDT(u, t, v)
        PROVE  /\ eth.head <= eth'.head
               /\ \A d \in Recorded' : d \in Recorded \/ ~(d.block <= eth.head)
    <3>1. PICK d : d = [tx |-> t, from |-> u, amount |-> v, block |-> eth.head + 1]
      OBVIOUS
    <3>2. Recorded' = Recorded \cup {d} /\ eth'.head = eth.head + 1
      BY <2>3, <3>1, DepositRecorded DEF BaseInv
    <3>3. d.block = eth.head + 1 /\ eth.head \in Nat
      BY <3>1, CursorTypes
    <3> QED
      BY <3>2, <3>3
  <2>4. ASSUME NEW id \in 1 .. MaxBurns, minePayout(id)
        PROVE  eth'.head = eth.head /\ Recorded' = Recorded
    BY <2>4, PayoutKeepsEth DEF BaseInv, Recorded
  <2> QED
    BY <2>1, <2>2, <2>3, <2>4, RecordGrows, CursorTypes DEF BaseInv
<1>3. ASSUME NEW n \in Nat, n <= eth.head PROVE \A d \in Recorded' : d.block <= n => d \in Recorded
  <2> TAKE d \in Recorded'
  <2> HAVE d.block <= n
  <2>1. CASE d \in Recorded
    BY <2>1
  <2>2. CASE d \notin Recorded
    <3>1. d.block \in Nat /\ ~(d.block <= eth.head)
      <4>1. EthInv'
        BY BaseNext DEF BaseInv
      <4>2. Recorded' \subseteq EthDeposit
        <5>1. eth'.deposits \in Seq(EthDeposit)
          BY <4>1 DEF EthInv
        <5> QED
          BY <5>1, SeqRange DEF Recorded
      <4> QED
        BY <1>2, <2>2, <4>2 DEF EthDeposit
    <3> QED
      BY <1>3, <3>1, CursorTypes
  <2> QED
    BY <2>1, <2>2
<1>4. EthInv'
  BY BaseNext DEF BaseInv
<1>5. eth'.head \in Nat
  BY <1>4 DEF EthInv
<1>6. Behind(mem.ethLast)' /\ Behind(seen.stopped)'
  BY <1>1, <1>3, CursorTypes DEF ScanInv, Behind
<1>7. disk'.state # NoState => disk'.state.eth <= eth'.head /\ Behind(disk.state.eth)'
  BY <1>1, <1>2, <1>3, <1>5, CursorTypes DEF ScanInv, Behind
<1>8. pc' \in {"deposits", "record"} =>
        \A d \in Recorded' : d.block \notin seen'.jumped /\ d.block <= mem'.ethTo =>
          d.tx \in seen'.deposits \/ d \in Range(todo')
  BY <1>1, <1>3, CursorTypes DEF ScanInv
<1> QED
  BY <1>1, <1>2, <1>5, <1>6, <1>7, <1>8, CursorTypes DEF ScanInv

LEMMA StartKeepsScan == ASSUME BaseInv, ScanInv, start PROVE ScanInv'
<1>1. CASE disk.state # NoState
  <2>1. /\ mem'.ethLast = disk.state.eth /\ mem'.ethTo = disk.state.eth
        /\ pc' = "poll" /\ UNCHANGED <<eth, seen, disk, Recorded>>
    BY <1>1 DEF start, chains, Recorded
  <2> QED
    BY <1>1, <2>1 DEF ScanInv, Behind
<1>2. CASE disk.state = NoState
  <2>1. /\ mem'.ethLast = eth.head /\ mem'.ethTo = eth.head /\ pc' = "poll"
        /\ seen' = [seen EXCEPT !.jumped = @ \cup (seen.stopped + 1) .. eth.head,
                                !.ustFrom = ust.head]
        /\ UNCHANGED <<eth, disk, Recorded>>
    BY <1>2 DEF start, chains, Recorded
  <2>2. /\ seen'.jumped = seen.jumped \cup (seen.stopped + 1) .. eth.head
        /\ seen'.stopped = seen.stopped /\ seen'.deposits = seen.deposits
    BY <2>1 DEF BaseInv, ProcInv, SeenTypes
  <2>3. ASSUME NEW d \in Recorded, d.block \notin seen'.jumped
        PROVE  d.tx \in seen'.deposits
    <3>1. d.block \in 1 .. eth.head /\ d.block \notin (seen.stopped + 1) .. eth.head
      BY <2>2, <2>3, CursorTypes
    <3>2. d.block <= seen.stopped
      BY <3>1, CursorTypes
    <3> QED
      BY <2>2, <2>3, <3>2 DEF ScanInv, Behind
  <2> QED
    BY <1>2, <2>1, <2>2, <2>3, CursorTypes DEF ScanInv, Behind
<1> QED
  BY <1>1, <1>2

\* The scan returns all the blocks it steps over.
LEMMA PollKeepsScan == ASSUME BaseInv, ScanInv, poll PROVE ScanInv'
<1>1. PICK to : to = MinOf(eth.head, mem.ethLast + 1 + DEPOSIT_WINDOW)
  OBVIOUS
<1>2. /\ mem' = [mem EXCEPT !.ethTo = IF eth.head > mem.ethLast THEN to ELSE mem.ethLast,
                            !.ustHead = ust.head]
      /\ todo' = Logs(eth.deposits, mem.ethLast + 1, to) /\ pc' = "deposits"
      /\ UNCHANGED <<eth, seen, disk>>
  BY <1>1 DEF poll, depositsUpTo, chains, observed
<1>3. /\ mem'.ethLast = mem.ethLast
      /\ mem'.ethTo = IF eth.head > mem.ethLast THEN to ELSE mem.ethLast
  BY <1>2 DEF BaseInv, ProcInv, MemTypes
<1>4. to \in Nat /\ to <= eth.head
  <2>1. mem.ethLast + 1 + DEPOSIT_WINDOW \in Nat
    BY CursorTypes, RelayerAssumption DEF RelayerAssumption
  <2> QED
    BY <1>1, <2>1, CursorTypes, MinIsOne
<1>5. Range(todo') = {d \in Recorded : d.block >= mem.ethLast + 1 /\ d.block <= to}
  <2>1. eth.deposits \in Seq(EthDeposit)
    BY DEF BaseInv, EthInv
  <2> QED
    BY <1>2, <2>1, LogsRange DEF Recorded
<1>6. ASSUME NEW d \in Recorded, d.block \notin seen.jumped, d.block <= mem'.ethTo
      PROVE  d.tx \in seen.deposits \/ d \in Range(todo')
  <2>1. d.block \in Nat /\ mem.ethLast \in Nat
    BY CursorTypes
  <2>2. CASE d.block <= mem.ethLast
    BY <1>6, <2>2 DEF ScanInv, Behind
  <2>3. CASE ~(d.block <= mem.ethLast)
    <3>1. d.block >= mem.ethLast + 1 /\ d.block <= to
      BY <1>3, <1>4, <1>6, <2>1, <2>3, CursorTypes
    <3> QED
      BY <1>5, <3>1
  <2> QED
    BY <2>2, <2>3
<1>7. Recorded' = Recorded
  BY <1>2 DEF Recorded
<1> QED
  BY <1>2, <1>3, <1>4, <1>6, <1>7, CursorTypes DEF ScanInv, Behind

\* Looking at the deposit in front.
LEMMA LookKeepsScan ==
  ASSUME BaseInv, ScanInv, skipDeposit \/ \E o : mintDeposit(o)
  PROVE  ScanInv'
<1>1. PICK d : d = Head(todo)
  OBVIOUS
<1>2. /\ pc = "deposits" /\ todo # <<>>
      /\ seen' = [seen EXCEPT !.deposits = @ \cup {d.tx}]
      /\ \/ pc' = "record" /\ todo' = todo
         \/ pc' = "deposits" /\ todo' = Tail(todo)
      /\ \/ mem' = mem
         \/ \E e : mem' = [mem EXCEPT !.window = @ \cup {e}, !.processed = mem.processed]
      /\ UNCHANGED <<eth, disk>>
  BY <1>1 DEF skipDeposit, mintDeposit, lookedAt, cacheAtSend, chains
<1>3. /\ mem'.ethLast = mem.ethLast /\ mem'.ethTo = mem.ethTo
      /\ seen'.deposits = seen.deposits \cup {d.tx} /\ UNCHANGED <<seen.jumped, seen.stopped>>
  BY <1>2 DEF BaseInv, ProcInv, MemTypes, SeenTypes
<1>4. Range(todo) = Range(Tail(todo)) \cup {d}
  BY <1>1, <1>2, DepositQueue DEF BaseInv
<1>5. Recorded' = Recorded
  BY <1>2 DEF Recorded
<1>6. \A e \in Recorded : e.block \notin seen.jumped /\ e.block <= mem.ethTo =>
        e.tx \in seen'.deposits \/ e \in Range(todo')
  BY <1>2, <1>3, <1>4 DEF ScanInv
<1>7. pc' = "record" => Head(todo').tx \in seen'.deposits
  BY <1>1, <1>2, <1>3
<1> QED
  BY <1>2, <1>3, <1>5, <1>6, <1>7 DEF ScanInv, Behind

LEMMA RecordKeepsScan == ASSUME BaseInv, ScanInv, recordDeposit PROVE ScanInv'
<1>1. PICK d : d = Head(todo)
  OBVIOUS
<1>2. /\ pc = "record" /\ todo # <<>> /\ pc' = "deposits" /\ todo' = Tail(todo)
      /\ mem' = [mem EXCEPT !.processed = @ \cup {d.tx}]
      /\ disk' = [disk EXCEPT !.processed = mem'.processed]
      /\ UNCHANGED <<eth, seen>>
  BY <1>1 DEF recordDeposit, chains, observed, BaseInv, ProcInv
<1>3. /\ mem'.ethLast = mem.ethLast /\ mem'.ethTo = mem.ethTo
      /\ disk'.state = disk.state
  BY <1>2 DEF BaseInv, ProcInv, MemTypes
<1>4. Range(todo) = Range(Tail(todo)) \cup {d}
  BY <1>1, <1>2, DepositQueue DEF BaseInv
<1>5. Recorded' = Recorded
  BY <1>2 DEF Recorded
<1>6. \A e \in Recorded : e.block \notin seen.jumped /\ e.block <= mem.ethTo =>
        e.tx \in seen.deposits \/ e \in Range(todo')
  BY <1>1, <1>2, <1>4 DEF ScanInv
<1> QED
  BY <1>2, <1>3, <1>5, <1>6 DEF ScanInv, Behind

\* The cursor moves when the queue is empty.
LEMMA DoneKeepsScan == ASSUME BaseInv, ScanInv, depositsDone PROVE ScanInv'
<1>1. /\ pc = "deposits" /\ todo = <<>> /\ pc' = "scan"
      /\ mem' = [mem EXCEPT !.ethLast = mem.ethTo] /\ UNCHANGED <<eth, seen, disk>>
  BY DEF depositsDone, chains, observed
<1>2. mem'.ethLast = mem.ethTo /\ mem'.ethTo = mem.ethTo
  BY <1>1 DEF BaseInv, ProcInv, MemTypes
<1>3. Range(todo) = {}
  BY <1>1, EmptyRange
<1>4. Recorded' = Recorded
  BY <1>1 DEF Recorded
<1>5. Behind(mem.ethTo)
  BY <1>1, <1>3 DEF ScanInv, Behind
<1> QED
  BY <1>1, <1>2, <1>4, <1>5 DEF ScanInv, Behind

\* The rest of the process leaves the cursor of Ethereum alone, but for saving it.
LEMMA OthersKeepScan ==
  ASSUME BaseInv, ScanInv, pc' \in {"down", "poll", "scan", "withdrawals", "save"},
         mem'.ethLast = mem.ethLast \/ mem'.ethLast = 0,
         mem'.ethTo = mem.ethTo \/ mem'.ethTo = 0,
         \/ disk'.state = disk.state \/ disk'.state = NoState
         \/ disk'.state.eth = mem.ethLast,
         seen'.stopped = seen.stopped \/ seen'.stopped = mem.ethLast,
         UNCHANGED <<eth, seen.deposits, seen.jumped>>
  PROVE  ScanInv'
<1>1. Recorded' = Recorded
  BY DEF Recorded
<1>2. \A d \in Recorded : ~(d.block <= 0)
  BY CursorTypes
<1>3. Behind(0)
  BY <1>2 DEF Behind
<1> QED
  BY <1>1, <1>2, <1>3, CursorTypes DEF ScanInv, Behind

LEMMA RelayerKeepsScan ==
  ASSUME BaseInv, ScanInv, Relayer \/ Faults
  PROVE  ScanInv'
<1>1. CASE scanWithdrawals \/ withdrawalsDone \/ save
  <2>1. /\ pc' \in {"withdrawals", "save", "poll"} /\ UNCHANGED eth
        /\ \/ UNCHANGED seen
           \/ seen' = [seen EXCEPT !.saved = MinOf(@, mem.ethLast)]
        /\ mem' = mem \/ mem' = [mem EXCEPT !.ustLast = mem.ustHead]
        /\ \/ UNCHANGED disk
           \/ disk' = [disk EXCEPT !.state = [eth |-> mem.ethLast, ust |-> mem.ustLast]]
    BY <1>1 DEF scanWithdrawals, withdrawalsDone, burnsUpTo, save, chains, observed
  <2>2. mem'.ethLast = mem.ethLast /\ mem'.ethTo = mem.ethTo
    BY <2>1 DEF BaseInv, ProcInv, MemTypes
  <2>3. /\ disk'.state = disk.state \/ disk'.state.eth = mem.ethLast
        /\ UNCHANGED <<seen.deposits, seen.jumped, seen.stopped>>
    BY <2>1 DEF BaseInv, ProcInv, SeenTypes
  <2> QED
    BY <2>1, <2>2, <2>3, OthersKeepScan
<1>2. CASE skipWithdrawal \/ payWithdrawal
  <2>1. /\ pc' = "withdrawals" /\ UNCHANGED <<eth, mem, disk>>
        /\ seen' = [seen EXCEPT !.burns = @ \cup {Head(todo).id}]
    BY <1>2 DEF skipWithdrawal, payWithdrawal, handled, chains
  <2>2. UNCHANGED <<seen.deposits, seen.jumped, seen.stopped>>
    BY <2>1 DEF BaseInv, ProcInv, SeenTypes
  <2> QED
    BY <2>1, <2>2, OthersKeepScan
<1>3. ASSUME NEW pebble, scanFails(pebble) PROVE ScanInv'
  <2>1. /\ pc' \in {"poll", "save"} /\ UNCHANGED <<eth, disk, seen>>
        /\ UNCHANGED mem \/ mem' = [mem EXCEPT !.ustLast = @ + PEBBLE_SKIP]
    BY <1>3 DEF scanFails, chains, observed
  <2>2. mem'.ethLast = mem.ethLast /\ mem'.ethTo = mem.ethTo
    BY <2>1 DEF BaseInv, ProcInv, MemTypes
  <2> QED
    BY <2>1, <2>2, OthersKeepScan
<1>4. CASE crash
  <2>1. /\ pc' = "down" /\ mem' = NoMemory /\ UNCHANGED eth
        /\ seen' = [seen EXCEPT !.stopped = mem.ethLast]
        /\ \/ UNCHANGED disk
           \/ disk' = [disk EXCEPT !.state = NoState]
           \/ disk' = [disk EXCEPT !.processed = {}]
    BY <1>4 DEF crash, chains
  <2>2. /\ mem'.ethLast = 0 /\ mem'.ethTo = 0
        /\ disk'.state = disk.state \/ disk'.state = NoState
        /\ seen'.stopped = mem.ethLast /\ UNCHANGED <<seen.deposits, seen.jumped>>
    BY <2>1 DEF BaseInv, ProcInv, NoMemory, SeenTypes
  <2> QED
    BY <2>1, <2>2, OthersKeepScan
<1> QED
  BY <1>1, <1>2, <1>3, <1>4, StartKeepsScan, PollKeepsScan, LookKeepsScan, RecordKeepsScan,
     DoneKeepsScan DEF Relayer, Faults

LEMMA ScanNext == BaseInv /\ ScanInv /\ [Next]_vars => ScanInv'
<1> SUFFICES ASSUME BaseInv, ScanInv, [Next]_vars PROVE ScanInv'
  OBVIOUS
<1>1. CASE UNCHANGED vars
  BY <1>1 DEF vars, ScanInv, Behind, Recorded
<1> QED
  BY <1>1, WorldKeepsScan, RelayerKeepsScan DEF Next

\* Whatever lies below the cursor in memory or in the state file was looked at,
\* however many blocks a scan is limited to, whichever calls fail, and wherever the
\* process stops (258-263, 293, 332); except the blocks that a start without a usable
\* state file jumps over, from the cursor of the last stop to the head (240-247).
THEOREM DepositsSeen == Spec => []NoDepositPassedOver
<1>1. BaseInv /\ ScanInv => NoDepositPassedOver
  BY RecordedAre DEF BaseInv, ScanInv, Behind, NoDepositPassedOver, ethScanned
<1> QED
  BY <1>1, BaseInit, BaseNext, ScanInit, ScanNext, PTL DEF Spec

-----------------------------------------------------------------------------
(* A burn is paid again only after a stop                                     *)

LEMMA LogsDistinct ==
  ASSUME NEW D, NEW events \in Seq(D), Distinct(events), NEW from, NEW to
  PROVE  Distinct(Logs(events, from, to))
<1>1. PICK L : L = Logs(events, from, to)
  OBVIOUS
<1>2. PICK R : R = {e \in D : e.block >= from /\ e.block <= to}
  OBVIOUS
<1>3. Reports(L, events, R, Len(events))
  BY <1>1, <1>2, LogsReport
<1>4. \A j, k \in 1 .. Len(L) : j < k =>
        \E a, b \in 1 .. Len(events) : a < b /\ L[j] = events[a] /\ L[k] = events[b]
  BY <1>3 DEF Reports
<1>5. ASSUME NEW j \in 1 .. Len(L), NEW k \in 1 .. Len(L), j < k PROVE L[j] # L[k]
  <2>1. PICK a, b \in 1 .. Len(events) : a < b /\ L[j] = events[a] /\ L[k] = events[b]
    BY <1>4, <1>5
  <2>2. events[a] # events[b]
    BY <2>1 DEF Distinct
  <2> QED
    BY <2>1, <2>2
<1> QED
  BY <1>1, <1>5 DEF Distinct

\* The burns that the process, unless it stops, may still pay.
Ahead(b) ==
  \/ pc = "down"
  \/ pc = "withdrawals" /\ (b.block > mem.ustHead \/ b \in Range(todo))
  \/ pc \notin {"down", "withdrawals"} /\ b.block > mem.ustLast

\* They were paid once per stop at most; the others, once more.
RepaidInv ==
  /\ \A i \in 1 .. MaxBurns : /\ payouts.sent[i] <= 1 + crashes
                              /\ i > Len(ust.burns) => payouts.sent[i] = 0
  /\ \A b \in Burned : Ahead(b) => payouts.sent[b.id] <= crashes
  /\ pc = "withdrawals" => /\ \A b \in Range(todo) : b.block <= mem.ustHead
                           /\ Distinct(todo)

LEMMA RepaidInit == Init => RepaidInv
<1> SUFFICES ASSUME Init PROVE RepaidInv
  OBVIOUS
<1>1. Burned = {}
  BY EmptyRange DEF Init, Burned
<1> QED
  BY <1>1 DEF Init, RepaidInv

LEMMA PaidTypes ==
  ASSUME BaseInv
  PROVE  /\ crashes \in Nat /\ payouts.sent \in [1 .. MaxBurns -> Nat]
         /\ \A b \in Burned : /\ b.id \in 1 .. MaxBurns /\ b.id \in 1 .. Len(ust.burns)
                              /\ b = ust.burns[b.id]
                              /\ b.block \in Nat /\ b.block <= ust.head
         /\ Len(ust.burns) \in Nat
<1>1. UstInv /\ ProcInv
  BY DEF BaseInv
<1>2. Len(ust.burns) \in Nat /\ Len(ust.burns) <= MaxBurns
  BY <1>1 DEF UstInv, MaxBurns
<1>3. MaxBurns \in Nat
  BY RelayerAssumption DEF RelayerAssumption, MaxBurns
<1>4. \A b \in Burned : /\ b.id \in 1 .. Len(ust.burns) /\ b = ust.burns[b.id]
                        /\ b.block \in Nat /\ b.block <= ust.head
  BY <1>1, BurnedAre DEF Burn
<1> QED
  BY <1>1, <1>2, <1>3, <1>4 DEF ProcInv, PerBurn

LEMMA BurnsDistinct == BaseInv => Distinct(ust.burns)
  BY DEF BaseInv, UstInv, Distinct

\* A new burn is not paid yet.
LEMMA WorldKeepsRepaid ==
  ASSUME BaseInv, RepaidInv, Next, Environment \/ \E t \in EthTxs : mineMint(t)
  PROVE  RepaidInv'
<1>1. /\ UNCHANGED <<pc, todo, crashes>>
      /\ mem'.ustLast = mem.ustLast /\ mem'.ustHead = mem.ustHead
  BY WorldLeaves
<1>2. payouts'.sent = payouts.sent
  <2>1. ASSUME NEW id \in 1 .. MaxBurns, minePayout(id) PROVE payouts'.sent = payouts.sent
    BY <2>1 DEF minePayout, BaseInv, ProcInv
  <2> QED
    BY <2>1, WorldLeaves
<1>3. /\ \A b \in Burned' : b \in Burned \/ (b.id \in 1 .. MaxBurns /\ b.id > Len(ust.burns))
      /\ \A i \in 1 .. MaxBurns : i > Len(ust'.burns) => i > Len(ust.burns)
  <2>1. CASE UNCHANGED ust
    BY <2>1 DEF Burned
  <2>2. ASSUME NEW u \in Users, NEW v \in Nat, NEW valid \in BOOLEAN, burnUSDT(u, v, valid)
        PROVE  /\ \A b \in Burned' : b \in Burned \/ (b.id \in 1 .. MaxBurns /\ b.id > Len(ust.burns))
               /\ \A i \in 1 .. MaxBurns : i > Len(ust'.burns) => i > Len(ust.burns)
    <3>1. PICK n \in Nat : BurnAdded(n, v, valid)
      BY <2>2, BurnAppends DEF BaseInv
    <3>2. n = Len(ust.burns) /\ Len(ust'.burns) = n + 1
      BY <3>1 DEF BurnAdded
    <3>3. PICK b \in Burn : Burned' = Burned \cup {b} /\ b.id = n + 1
      BY <2>2, <3>2, BurnRecorded DEF BaseInv
    <3>4. n + 1 \in 1 .. MaxBurns
      <4>1. ust.head \in Nat /\ n = ust.head /\ ust.head < MaxUstBlock
        BY <2>2, <3>2 DEF burnUSDT, BaseInv, UstInv
      <4> QED
        BY <4>1, RelayerAssumption DEF MaxBurns, RelayerAssumption
    <3> QED
      BY <3>2, <3>3, <3>4
  <2> QED
    BY <2>1, <2>2, RecordGrows DEF BaseInv
<1>4. \A b \in Burned' : Ahead(b)' => payouts'.sent[b.id] <= crashes'
  BY <1>1, <1>2, <1>3, PaidTypes DEF RepaidInv, Ahead
<1> QED
  BY <1>1, <1>2, <1>3, <1>4 DEF RepaidInv

\* A step that pays nothing and looks at no burn it had passed.
LEMMA StepKeepsRepaid ==
  ASSUME BaseInv, RepaidInv, UNCHANGED <<ust, payouts, crashes>>,
         \A b \in Burned : Ahead(b)' => Ahead(b),
         pc' = "withdrawals" => /\ \A b \in Range(todo') : b.block <= mem'.ustHead
                                /\ Distinct(todo')
  PROVE  RepaidInv'
<1>1. Burned' = Burned
  BY DEF Burned
<1> QED
  BY <1>1 DEF RepaidInv

LEMMA ScanKeepsRepaid == ASSUME BaseInv, RepaidInv, scanWithdrawals PROVE RepaidInv'
<1>1. CASE ~(mem.ustHead > mem.ustLast)
  <2>1. pc = "scan" /\ pc' = "save" /\ UNCHANGED <<ust, payouts, crashes, mem>>
    BY <1>1 DEF scanWithdrawals, chains, budget
  <2> QED
    BY <2>1, StepKeepsRepaid DEF Ahead
<1>2. CASE mem.ustHead > mem.ustLast
  <2>1. PICK to : to = MinOf(mem.ustHead, mem.ustLast + 1 + WITHDRAW_WINDOW)
    OBVIOUS
  <2>2. /\ pc = "scan" /\ pc' = "withdrawals"
        /\ todo' = Logs(ust.burns, mem.ustLast + 1, to)
        /\ UNCHANGED <<ust, payouts, crashes, mem>>
    BY <1>2, <2>1 DEF scanWithdrawals, chains, budget
  <2>3. to \in Nat /\ to <= mem.ustHead
    <3>1. mem.ustLast + 1 + WITHDRAW_WINDOW \in Nat
      BY CursorTypes, RelayerAssumption DEF RelayerAssumption
    <3> QED
      BY <2>1, <3>1, CursorTypes, MinIsOne
  <2>4. ust.burns \in Seq(Burn)
    BY DEF BaseInv, UstInv
  <2>5. Range(todo') = {b \in Burned : b.block >= mem.ustLast + 1 /\ b.block <= to}
    BY <2>2, <2>4, LogsRange DEF Burned
  <2>6. Distinct(todo')
    BY <2>2, <2>4, BurnsDistinct, LogsDistinct
  <2>7. \A b \in Burned : Ahead(b)' => Ahead(b)
    BY <1>2, <2>2, <2>5, CursorTypes, PaidTypes DEF Ahead
  <2>8. \A b \in Range(todo') : b.block <= mem'.ustHead
    BY <2>2, <2>3, <2>5, CursorTypes, PaidTypes
  <2> QED
    BY <2>2, <2>6, <2>7, <2>8, StepKeepsRepaid
<1> QED
  BY <1>1, <1>2

LEMMA PayKeepsRepaid == ASSUME BaseInv, RepaidInv, payWithdrawal PROVE RepaidInv'
<1>1. PICK b : b = Head(todo)
  OBVIOUS
<1>2. /\ pc = "withdrawals" /\ todo # <<>> /\ pc' = pc /\ todo' = Tail(todo)
      /\ payouts' = [payouts EXCEPT !.sent[b.id] = @ + 1]
      /\ UNCHANGED <<ust, crashes, mem>>
  BY <1>1 DEF payWithdrawal, handled, budget
<1>3. /\ b \in Burned /\ Range(todo) = Range(Tail(todo)) \cup {b}
      /\ Distinct(Tail(todo)) /\ b \notin Range(Tail(todo))
  BY <1>1, <1>2, BurnQueue, TailDistinct DEF BaseInv, ProcInv, RepaidInv
<1>4. b.id \in 1 .. MaxBurns /\ b.id \in 1 .. Len(ust.burns)
  BY <1>3, PaidTypes
<1>5. payouts.sent[b.id] <= crashes
  BY <1>2, <1>3 DEF RepaidInv, Ahead
<1>6. payouts'.sent = [payouts.sent EXCEPT ![b.id] = @ + 1]
  BY <1>2 DEF BaseInv, ProcInv
<1>7. /\ payouts'.sent[b.id] = payouts.sent[b.id] + 1
      /\ \A i \in 1 .. MaxBurns : i # b.id => payouts'.sent[i] = payouts.sent[i]
  BY <1>4, <1>6, PaidTypes
<1>8. \A i \in 1 .. MaxBurns : /\ payouts'.sent[i] <= 1 + crashes
                               /\ i > Len(ust.burns) => payouts'.sent[i] = 0
  <2> TAKE i \in 1 .. MaxBurns
  <2>1. CASE i = b.id
    <3>1. payouts.sent[i] \in Nat /\ crashes \in Nat /\ Len(ust.burns) \in Nat
      BY PaidTypes
    <3>2. payouts'.sent[i] = payouts.sent[i] + 1 /\ payouts.sent[i] <= crashes
      BY <1>5, <1>7, <2>1
    <3> QED
      BY <1>4, <2>1, <3>1, <3>2
  <2>2. CASE i # b.id
    BY <1>7, <2>2 DEF RepaidInv
  <2> QED
    BY <2>1, <2>2
<1>9. ASSUME NEW c \in Burned, Ahead(c)' PROVE payouts'.sent[c.id] <= crashes
  <2>1. c.block > mem.ustHead \/ c \in Range(Tail(todo))
    BY <1>2, <1>9 DEF Ahead
  <2>2. c # b
    BY <1>2, <1>3, <2>1, PaidTypes, CursorTypes DEF RepaidInv
  <2>3. c.id # b.id
    BY <1>3, <2>2, PaidTypes
  <2>4. payouts'.sent[c.id] = payouts.sent[c.id]
    BY <1>7, <2>3, PaidTypes
  <2>5. Ahead(c)
    BY <1>2, <1>3, <2>1 DEF Ahead
  <2> QED
    BY <2>4, <2>5 DEF RepaidInv
<1>10. Burned' = Burned
  BY <1>2 DEF Burned
<1>11. \A c \in Range(todo') : c.block <= mem'.ustHead
  BY <1>2, <1>3 DEF RepaidInv
<1> QED
  BY <1>2, <1>3, <1>8, <1>9, <1>10, <1>11 DEF RepaidInv

LEMMA RelayerKeepsRepaid ==
  ASSUME BaseInv, RepaidInv, Relayer \/ Faults
  PROVE  RepaidInv'
<1> USE DEF chains, observed, budget
<1>1. CASE start
  <2>1. pc = "down" /\ pc' = "poll" /\ UNCHANGED <<ust, payouts, crashes>>
    BY <1>1 DEF start
  <2> QED
    BY <2>1, StepKeepsRepaid DEF Ahead
<1>2. CASE poll \/ depositsDone
  <2>1. /\ pc \in {"poll", "deposits"} /\ pc' \in {"deposits", "scan"}
        /\ UNCHANGED <<ust, payouts, crashes>>
    BY <1>2 DEF poll, depositsDone
  <2>2. mem'.ustLast = mem.ustLast
    BY <1>2 DEF poll, depositsDone, BaseInv, ProcInv, MemTypes
  <2> QED
    BY <2>1, <2>2, StepKeepsRepaid DEF Ahead
<1>3. CASE skipDeposit \/ (\E o : mintDeposit(o)) \/ recordDeposit
  <2>1. /\ pc \in {"deposits", "record"} /\ pc' \in {"deposits", "record"}
        /\ UNCHANGED <<ust, payouts, crashes>>
    BY <1>3 DEF skipDeposit, mintDeposit, recordDeposit
  <2>2. mem'.ustLast = mem.ustLast
    BY <1>3 DEF skipDeposit, mintDeposit, recordDeposit, BaseInv, ProcInv, MemTypes
  <2> QED
    BY <2>1, <2>2, StepKeepsRepaid DEF Ahead
<1>4. ASSUME NEW pebble, scanFails(pebble) PROVE RepaidInv'
  <2>1. pc = "scan" /\ pc' \in {"poll", "save"} /\ UNCHANGED <<ust, payouts, crashes>>
    BY <1>4 DEF scanFails
  <2>2. UNCHANGED mem \/ mem' = [mem EXCEPT !.ustLast = @ + PEBBLE_SKIP]
    BY <1>4 DEF scanFails
  <2>3. mem'.ustLast \in Nat /\ mem.ustLast <= mem'.ustLast
    BY <2>2, RelayerAssumption DEF BaseInv, ProcInv, MemTypes, RelayerAssumption
  <2>4. \A b \in Burned : b.block > mem'.ustLast => b.block > mem.ustLast
    BY <2>3, PaidTypes, CursorTypes
  <2> QED
    BY <2>1, <2>4, StepKeepsRepaid DEF Ahead
<1>5. CASE skipWithdrawal
  <2>1. /\ pc = "withdrawals" /\ todo # <<>> /\ pc' = pc /\ todo' = Tail(todo)
        /\ UNCHANGED <<ust, payouts, crashes, mem>>
    BY <1>5 DEF skipWithdrawal, handled
  <2>2. Range(todo) = Range(Tail(todo)) \cup {Head(todo)} /\ Distinct(Tail(todo))
    BY <2>1, BurnQueue, TailDistinct DEF BaseInv, ProcInv, RepaidInv
  <2> QED
    BY <2>1, <2>2, StepKeepsRepaid DEF Ahead, RepaidInv
<1>6. CASE withdrawalsDone
  <2>1. /\ pc = "withdrawals" /\ todo = <<>> /\ pc' = "save"
        /\ mem' = [mem EXCEPT !.ustLast = mem.ustHead]
        /\ UNCHANGED <<ust, payouts, crashes>>
    BY <1>6 DEF withdrawalsDone, burnsUpTo
  <2>2. mem'.ustLast = mem.ustHead
    BY <2>1 DEF BaseInv, ProcInv, MemTypes
  <2> QED
    BY <2>1, <2>2, StepKeepsRepaid DEF Ahead
<1>7. CASE save
  <2>1. pc = "save" /\ pc' = "poll" /\ UNCHANGED <<ust, payouts, crashes, mem>>
    BY <1>7 DEF save
  <2> QED
    BY <2>1, StepKeepsRepaid DEF Ahead
<1>8. CASE crash
  <2>1. pc' = "down" /\ crashes' = crashes + 1 /\ UNCHANGED <<ust, payouts>>
    BY <1>8 DEF crash
  <2>2. \A i \in 1 .. MaxBurns : payouts.sent[i] <= crashes' /\ crashes' <= 1 + crashes'
    BY <2>1, PaidTypes DEF RepaidInv
  <2>3. Burned' = Burned
    BY <2>1 DEF Burned
  <2>4. \A b \in Burned : payouts.sent[b.id] <= crashes'
    BY <2>2, PaidTypes
  <2>5. \A i \in 1 .. MaxBurns : payouts.sent[i] <= 1 + crashes'
    <3> TAKE i \in 1 .. MaxBurns
    <3>1. payouts.sent[i] \in Nat /\ crashes \in Nat
      BY PaidTypes
    <3> QED
      BY <2>1, <2>2, <3>1
  <2> QED
    BY <2>1, <2>3, <2>4, <2>5 DEF RepaidInv
<1> QED
  BY <1>1, <1>2, <1>3, <1>4, <1>5, <1>6, <1>7, <1>8, ScanKeepsRepaid, PayKeepsRepaid
     DEF Relayer, Faults

LEMMA RepaidNext == BaseInv /\ RepaidInv /\ [Next]_vars => RepaidInv'
<1> SUFFICES ASSUME BaseInv, RepaidInv, [Next]_vars PROVE RepaidInv'
  OBVIOUS
<1>1. CASE UNCHANGED vars
  BY <1>1 DEF vars, RepaidInv, Ahead, Burned
<1> QED
  BY <1>1, WorldKeepsRepaid, RelayerKeepsRepaid DEF Next

\* No burn is paid more often than once, and once more for each time the process
\* stopped: no scan returns to what an earlier one handled (255, 296-332).
THEOREM OnePaymentPerStop == Spec => []RepaidOnlyAfterStop
<1>1. RepaidInv => RepaidOnlyAfterStop
  BY DEF RepaidInv, RepaidOnlyAfterStop
<1> QED
  BY <1>1, BaseInit, BaseNext, RepaidInit, RepaidNext, PTL DEF Spec

-----------------------------------------------------------------------------
(* The tokens: only burns and mined mints touch them                          *)

TokenInv == HeldInv /\ BackedInv /\ operator = FirstOperator

\* A mint waits in the mempool only for a deposit of an amount the relayer accepts.
Mintable(d) == withinLimits(d) /\ d.amount # 0
MempoolInv ==
  \A t \in EthTxs : mempool[t] > 0 => \E d \in Recorded : d.tx = t /\ Mintable(d)

\* The mint of deposit d is mined and succeeds.
Mined(d) ==
  /\ mempool[d.tx] > 0 /\ mempool' = [mempool EXCEPT ![d.tx] = @ - 1]
  /\ bridgeMint(FirstOperator, d.from, d.amount, d.tx)
  /\ UNCHANGED <<eth, ust>>

LEMMA DepositFields ==
  ASSUME BaseInv
  PROVE  \A d \in Recorded : /\ d.tx \in EthTxs /\ d.from \in Users /\ d.amount \in Nat
                             /\ d.from \in Holders /\ d.block \in Nat
<1>1. Recorded \subseteq EthDeposit
  BY RecordedAre DEF BaseInv
<1> QED
  BY <1>1 DEF EthDeposit, Users

\* The three things that can happen to the tokens in a step.
LEMMA TokenSteps ==
  ASSUME BaseInv, [Next]_vars
  PROVE  \/ UNCHANGED tokenVars
         \/ \E u \in Users, v \in Nat, valid \in BOOLEAN : burnUSDT(u, v, valid)
         \/ \E d \in Recorded : Mined(d)
<1>1. CASE UNCHANGED vars
  BY <1>1 DEF vars
<1>2. CASE Relayer \/ Faults
  BY <1>2, ProcessLeaves
<1>3. CASE Environment
  <2>1. ASSUME NEW u \in Users, NEW v \in Values, NEW t \in EthTxs, depositUSDT(u, t, v)
        PROVE  UNCHANGED tokenVars
    BY <2>1 DEF depositUSDT
  <2>2. ASSUME NEW id \in 1 .. MaxBurns, minePayout(id) PROVE UNCHANGED tokenVars
    BY <2>2 DEF minePayout
  <2>3. CASE ethBlock
    BY <2>3 DEF ethBlock
  <2> QED
    BY <1>3, <2>1, <2>2, <2>3, Amounts, TokenAssumption DEF Environment
<1>4. ASSUME NEW t \in EthTxs, mineMint(t)
      PROVE  UNCHANGED tokenVars \/ \E d \in Recorded : Mined(d)
  <2>1. PICK i \in 1 .. Len(eth.deposits) :
          /\ eth.deposits[i].tx = t
          /\ IF mintable(FirstOperator, eth.deposits[i].from, eth.deposits[i].amount, t)
               THEN bridgeMint(FirstOperator, eth.deposits[i].from, eth.deposits[i].amount, t)
               ELSE UNCHANGED tokenVars
    BY <1>4 DEF mineMint
  <2>2. PICK d : d = eth.deposits[i]
    OBVIOUS
  <2>3. d \in Recorded /\ d.tx = t
    BY <2>1, <2>2, RecordedAre DEF BaseInv
  <2>4. mempool[t] > 0 /\ mempool' = [mempool EXCEPT ![t] = @ - 1] /\ UNCHANGED <<eth, ust>>
    BY <1>4 DEF mineMint
  <2>5. UNCHANGED tokenVars \/ bridgeMint(FirstOperator, d.from, d.amount, t)
    BY <2>1, <2>2
  <2>6. bridgeMint(FirstOperator, d.from, d.amount, t) => Mined(d)
    BY <2>3, <2>4 DEF Mined
  <2> QED
    BY <2>3, <2>5, <2>6
<1> QED
  BY <1>1, <1>2, <1>3, <1>4 DEF Next

LEMMA TokenInvInit == Init => TokenInv
  BY HeldInit, BackedInit, TokenAssumption DEF Init, TokenInit, TokenInv

LEMMA TokenInvNext == BaseInv /\ TokenInv /\ [Next]_vars => TokenInv'
<1> SUFFICES ASSUME BaseInv, TokenInv, [Next]_vars PROVE TokenInv'
  OBVIOUS
<1> USE TokenAssumption
<1>1. CASE UNCHANGED tokenVars
  BY <1>1, HeldKept, BackedKept DEF tokenVars, supply, TokenInv
<1>2. ASSUME NEW u \in Users, NEW v \in Nat, NEW valid \in BOOLEAN, burnUSDT(u, v, valid)
      PROVE  TokenInv'
  <2>1. bridgeBurn(u, v) /\ u \in Holders
    BY <1>2 DEF burnUSDT, Users
  <2>2. operator' = operator
    BY <2>1 DEF bridgeBurn, roles
  <2> QED
    BY <2>1, <2>2, BurnKeepsHeld, BurnKeepsBacked DEF TokenInv
<1>3. ASSUME NEW d \in Recorded, Mined(d) PROVE TokenInv'
  <2>1. PICK to, v, t : to = d.from /\ v = d.amount /\ t = d.tx
    OBVIOUS
  <2>2. to \in Holders /\ v \in Nat /\ t \in EthTxs
    BY <2>1, DepositFields
  <2>3. bridgeMint(FirstOperator, to, v, t)
    BY <1>3, <2>1 DEF Mined
  <2>4. operator' = operator
    BY <2>3 DEF bridgeMint, roles
  <2> QED
    BY <2>2, <2>3, <2>4, MintKeepsHeld, MintKeepsBacked DEF TokenInv
<1> QED
  BY <1>1, <1>2, <1>3, TokenSteps

LEMMA MempoolInit == Init => MempoolInv
  BY DEF Init, MempoolInv

LEMMA MempoolNext ==
  BaseInv /\ TokenInv /\ MempoolInv /\ [Next]_vars => MempoolInv'
<1> SUFFICES ASSUME BaseInv, TokenInv, MempoolInv, [Next]_vars,
                    NEW t \in EthTxs, mempool'[t] > 0
             PROVE  \E d \in Recorded' : d.tx = t /\ Mintable(d)
  BY DEF MempoolInv, Mintable, withinLimits
<1>1. Recorded \subseteq Recorded'
  BY RecordGrows DEF BaseInv
<1>2. mempool \in [EthTxs -> Nat]
  BY DEF BaseInv, ProcInv
<1>3. ASSUME mempool[t] > 0 PROVE \E d \in Recorded' : d.tx = t /\ Mintable(d)
  BY <1>1, <1>3 DEF MempoolInv
<1>4. CASE UNCHANGED mempool
  BY <1>3, <1>4
<1>5. ASSUME NEW x \in EthTxs, mineMint(x) PROVE mempool[t] > 0
  <2>1. mempool' = [mempool EXCEPT ![x] = @ - 1] /\ mempool[x] > 0
    BY <1>5 DEF mineMint
  <2>2. mempool[x] \in Nat /\ mempool[t] \in Nat
    BY <1>2
  <2> QED
    BY <1>2, <2>1, <2>2
<1>6. ASSUME NEW o, mintDeposit(o) PROVE \E d \in Recorded' : d.tx = t /\ Mintable(d)
  <2>1. PICK d : d = Head(todo)
    OBVIOUS
  <2>2. /\ pc = "deposits" /\ todo # <<>> /\ withinLimits(d)
        /\ mintable(FirstOperator, d.from, d.amount, d.tx) <=> o # "rejected"
        /\ \/ o # "rejected" /\ mempool' = [mempool EXCEPT ![d.tx] = @ + 1]
           \/ UNCHANGED mempool
    BY <1>6, <2>1 DEF mintDeposit
  <2>3. d \in Recorded /\ d.tx \in EthTxs
    BY <2>1, <2>2, DepositQueue DEF BaseInv
  <2>4. CASE UNCHANGED mempool
    BY <1>3, <2>4
  <2>5. CASE o # "rejected" /\ mempool' = [mempool EXCEPT ![d.tx] = @ + 1]
    <3>1. d.amount # 0
      BY <2>2, <2>5 DEF mintable
    <3>2. t = d.tx \/ mempool[t] > 0
      BY <1>2, <2>5
    <3> QED
      BY <1>1, <1>3, <2>2, <2>3, <3>1, <3>2 DEF Mintable
  <2> QED
    BY <2>2, <2>4, <2>5
<1>7. UNCHANGED vars => UNCHANGED mempool
  BY DEF vars
<1> QED
  BY <1>3, <1>4, <1>5, <1>6, <1>7, ProcessLeaves, WorldLeaves DEF Next

-----------------------------------------------------------------------------
(* The bridge implements its ledger                                           *)

\* What is locked for a transaction is what its one deposit brought.
LockedByTx ==
  /\ \A d \in Recorded : lockedAmount[d.tx] = d.amount
  /\ \A t \in EthTxs : (\A d \in Recorded : d.tx # t) => lockedAmount[t] = 0
  /\ lockedAmount \in [EthTxs -> Nat]

LEMMA LockedIs == BaseInv => LockedByTx
<1> SUFFICES ASSUME BaseInv PROVE LockedByTx
  OBVIOUS
<1> USE DepositFields
<1>1. /\ \A i \in 1 .. Len(eth.deposits) : eth.deposits[i] \in Recorded
      /\ \A d \in Recorded : \E i \in 1 .. Len(eth.deposits) : d = eth.deposits[i]
      /\ \A d, e \in Recorded : d.tx = e.tx => d = e
  BY RecordedAre DEF BaseInv
<1>2. ASSUME NEW d \in Recorded PROVE lockedAmount[d.tx] = d.amount
  <2>1. PICK i \in 1 .. Len(eth.deposits) : d = eth.deposits[i]
    BY <1>1
  <2>2. PICK j : j = CHOOSE k \in 1 .. Len(eth.deposits) : eth.deposits[k].tx = d.tx
    OBVIOUS
  <2>3. j \in 1 .. Len(eth.deposits) /\ eth.deposits[j].tx = d.tx
    BY <2>1, <2>2
  <2>4. eth.deposits[j] = d
    BY <1>1, <2>3
  <2>5. lockedAmount[d.tx] = eth.deposits[j].amount
    BY <2>1, <2>2, DepositFields DEF lockedAmount
  <2> QED
    BY <2>4, <2>5
<1>3. ASSUME NEW t \in EthTxs, \A d \in Recorded : d.tx # t PROVE lockedAmount[t] = 0
  <2>1. ~ \E i \in 1 .. Len(eth.deposits) : eth.deposits[i].tx = t
    BY <1>1, <1>3
  <2> QED
    BY <2>1 DEF lockedAmount
<1>4. lockedAmount = [t \in EthTxs |-> lockedAmount[t]]
  BY DEF lockedAmount
<1>5. \A t \in EthTxs : lockedAmount[t] \in Nat
  BY <1>2, <1>3
<1> QED
  BY <1>2, <1>3, <1>4, <1>5 DEF LockedByTx

\* What a deposit locks.
LEMMA DepositLocks ==
  ASSUME BaseInv, [Next]_vars,
         NEW u \in Users, NEW t \in EthTxs, NEW v \in Nat, depositUSDT(u, t, v)
  PROVE  /\ UNCHANGED tokenVars /\ \A d \in Recorded : d.tx # t
         /\ lockedAmount' = [lockedAmount EXCEPT ![t] = v] /\ lockedAmount[t] = 0
<1>1. PICK d : d = [tx |-> t, from |-> u, amount |-> v, block |-> eth.head + 1]
  OBVIOUS
<1>2. Recorded' = Recorded \cup {d} /\ d.tx = t /\ d.amount = v /\ \A e \in Recorded : e.tx # t
  BY <1>1, DepositRecorded DEF BaseInv
<1>3. LockedByTx'
  BY BaseNext, LockedIs, PTL
<1>4. /\ \A e \in Recorded' : lockedAmount'[e.tx] = e.amount
      /\ \A x \in EthTxs : (\A e \in Recorded' : e.tx # x) => lockedAmount'[x] = 0
      /\ lockedAmount' \in [EthTxs -> Nat]
  BY <1>3 DEF LockedByTx
<1>5. /\ \A e \in Recorded : lockedAmount[e.tx] = e.amount
      /\ \A x \in EthTxs : (\A e \in Recorded : e.tx # x) => lockedAmount[x] = 0
      /\ lockedAmount \in [EthTxs -> Nat]
  BY LockedIs DEF LockedByTx
<1>6. lockedAmount'[t] = v /\ lockedAmount[t] = 0
  BY <1>2, <1>4, <1>5
<1>7. ASSUME NEW x \in EthTxs, x # t PROVE lockedAmount'[x] = lockedAmount[x]
  <2>1. CASE \E e \in Recorded : e.tx = x
    BY <1>2, <1>4, <1>5, <2>1
  <2>2. CASE \A e \in Recorded : e.tx # x
    BY <1>2, <1>4, <1>5, <1>7, <2>2
  <2> QED
    BY <2>1, <2>2
<1>8. lockedAmount' = [lockedAmount EXCEPT ![t] = v]
  BY <1>4, <1>5, <1>6, <1>7
<1>9. UNCHANGED tokenVars
  BY DEF depositUSDT
<1> QED
  BY <1>2, <1>6, <1>8, <1>9

\* The ledger's deposits change with Ethereum's only.
LEMMA LockedSteps ==
  ASSUME BaseInv, [Next]_vars
  PROVE  \/ lockedAmount' = lockedAmount
         \/ /\ UNCHANGED tokenVars
            /\ \E t \in EthTxs, v \in Nat \ {0} :
                 /\ \A d \in Recorded : d.tx # t
                 /\ lockedAmount' = [lockedAmount EXCEPT ![t] = v]
<1>1. CASE UNCHANGED eth.deposits
  BY <1>1 DEF lockedAmount
<1>2. CASE ethBlock
  BY <1>2 DEF ethBlock, BaseInv, EthInv, lockedAmount
<1>3. ASSUME NEW id \in 1 .. MaxBurns, minePayout(id) PROVE UNCHANGED eth.deposits
  BY <1>3, PayoutKeepsEth DEF BaseInv
<1>4. ASSUME NEW u \in Users, NEW t \in EthTxs, NEW v \in Nat, depositUSDT(u, t, v)
      PROVE  /\ UNCHANGED tokenVars /\ \A d \in Recorded : d.tx # t
             /\ lockedAmount' = [lockedAmount EXCEPT ![t] = v] /\ lockedAmount[t] = 0
  BY <1>4, DepositLocks
<1>5. lockedAmount \in [EthTxs -> Nat]
  BY LockedIs DEF LockedByTx
<1>6. ASSUME NEW u \in Users, NEW t \in EthTxs, NEW v \in Nat, depositUSDT(u, t, v)
      PROVE  \/ lockedAmount' = lockedAmount
             \/ /\ UNCHANGED tokenVars
                /\ \E x \in EthTxs, w \in Nat \ {0} :
                     /\ \A d \in Recorded : d.tx # x
                     /\ lockedAmount' = [lockedAmount EXCEPT ![x] = w]
  <2>1. CASE v = 0
    BY <1>4, <1>5, <1>6, <2>1
  <2>2. CASE v # 0
    BY <1>4, <1>6, <2>2
  <2> QED
    BY <2>1, <2>2
<1> QED
  BY <1>1, <1>2, <1>3, <1>6, RecordGrows DEF BaseInv

LEMMA LedgerInit == Init /\ BaseInv => Ledger!Init
<1> SUFFICES ASSUME Init, BaseInv PROVE Ledger!Init
  OBVIOUS
<1>1. Recorded = {}
  BY EmptyRange DEF Init, Recorded
<1>2. lockedAmount = [t \in EthTxs |-> 0]
  BY <1>1, LockedIs DEF LockedByTx
<1> QED
  BY <1>2 DEF Init, TokenInit, Ledger!Init

LEMMA LedgerNext ==
  BaseInv /\ TokenInv /\ MempoolInv /\ [Next]_vars => [Ledger!Next]_(Ledger!vars)
<1> SUFFICES ASSUME BaseInv, TokenInv, MempoolInv, [Next]_vars
             PROVE  [Ledger!Next]_(Ledger!vars)
  OBVIOUS
<1>1. CASE UNCHANGED tokenVars /\ lockedAmount' = lockedAmount
  BY <1>1 DEF tokenVars, Ledger!vars
<1>2. ASSUME UNCHANGED tokenVars, NEW t \in EthTxs, NEW v \in Nat \ {0},
             \A d \in Recorded : d.tx # t,
             lockedAmount' = [lockedAmount EXCEPT ![t] = v]
      PROVE  Ledger!Lock(t)
  <2>1. lockedAmount[t] = 0 /\ lockedAmount \in [EthTxs -> Nat]
    BY <1>2, LockedIs DEF LockedByTx
  <2>2. lockedAmount'[t] = v
    BY <1>2, <2>1
  <2> QED
    BY <1>2, <2>1, <2>2 DEF Ledger!Lock, tokenVars
<1>3. ASSUME NEW u \in Users, NEW v \in Nat, NEW valid \in BOOLEAN, burnUSDT(u, v, valid),
             lockedAmount' = lockedAmount
      PROVE  Ledger!Redeem
  <2>1. bridgeBurn(u, v) /\ u \in Holders
    BY <1>3 DEF burnUSDT, Users
  <2>2. v \in Nat \ {0} /\ v <= totalSupply /\ totalSupply \in Nat
    BY <2>1, BurnKeepsHeld, TokenAssumption DEF TokenInv, BackedInv
  <2>3. totalSupply' = totalSupply - v /\ UNCHANGED processedDeposits
    BY <2>1 DEF bridgeBurn
  <2> QED
    BY <1>3, <2>2, <2>3 DEF Ledger!Redeem
<1>4. ASSUME NEW d \in Recorded, Mined(d), lockedAmount' = lockedAmount
      PROVE  Ledger!Issue(d.tx)
  <2>1. /\ d.amount # 0 /\ d.tx \notin processedDeposits
        /\ processedDeposits' = processedDeposits \cup {d.tx}
        /\ totalSupply' = totalSupply + d.amount
    BY <1>4 DEF Mined, bridgeMint, mintable, notProcessed
  <2>2. lockedAmount[d.tx] = d.amount /\ d.amount \in Nat
    BY DepositFields, LockedIs DEF LockedByTx
  <2>3. withinLimits(d)
    <3>1. PICK e \in Recorded : e.tx = d.tx /\ Mintable(e)
      BY <1>4, DepositFields DEF Mined, MempoolInv
    <3>2. e = d
      BY <3>1, RecordedAre DEF BaseInv
    <3> QED
      BY <3>1, <3>2 DEF Mintable
  <2>4. d.amount \in (MIN_USDT .. MAX_USDT) \ {0}
    BY <2>1, <2>2, <2>3, RelayerAssumption DEF withinLimits, RelayerAssumption
  <2> QED
    BY <1>4, <2>1, <2>2, <2>4 DEF Ledger!Issue
<1>5. ASSUME NEW u \in Users, NEW v \in Nat, NEW valid \in BOOLEAN, burnUSDT(u, v, valid)
      PROVE  lockedAmount' = lockedAmount
  BY <1>5 DEF burnUSDT, lockedAmount
<1>6. ASSUME NEW d \in Recorded, Mined(d) PROVE lockedAmount' = lockedAmount
  BY <1>6 DEF Mined, lockedAmount
<1>7. CASE UNCHANGED tokenVars
  <2>1. CASE lockedAmount' = lockedAmount
    BY <1>1, <1>7, <2>1
  <2>2. CASE lockedAmount' # lockedAmount
    BY <1>2, <1>7, <2>2, LockedSteps DEF Ledger!Next
  <2> QED
    BY <2>1, <2>2
<1>8. \A u \in Users, v \in Nat, valid \in BOOLEAN : burnUSDT(u, v, valid) => Ledger!Next
  BY <1>3, <1>5 DEF Ledger!Next
<1>9. \A d \in Recorded : Mined(d) => Ledger!Next
  BY <1>4, <1>6, DepositFields DEF Ledger!Next
<1> QED
  BY <1>7, <1>8, <1>9, TokenSteps

\* The bridge implements its ledger: however mints are repeated, delayed, refused or
\* forgotten, and wherever the process stops, each deposit within the limits is issued
\* at most once, in its own amount, and nothing else is (BridgedUSDT.sol:84-110,
\* bridge-relayer.py:258-293).
THEOREM LedgerImplemented == Spec => KeepsLedger
<1>1. Init => BaseInv /\ TokenInv /\ MempoolInv /\ Ledger!Init
  BY BaseInit, TokenInvInit, MempoolInit, LedgerInit
<1>2. BaseInv /\ TokenInv /\ MempoolInv /\ [Next]_vars =>
        BaseInv' /\ TokenInv' /\ MempoolInv' /\ [Ledger!Next]_(Ledger!vars)
  BY BaseNext, TokenInvNext, MempoolNext, LedgerNext
<1> QED
  BY <1>1, <1>2, PTL DEF Spec, KeepsLedger, Ledger!Spec

-----------------------------------------------------------------------------
(* The cache of deposits names none whose mint was not broadcast              *)

\* What the deposits may bring into circulation, each once.
issuable ==
  [t \in EthTxs |-> IF lockedAmount[t] \in MIN_USDT .. MAX_USDT THEN lockedAmount[t] ELSE 0]

\* There is at most one deposit a block, and what was minted is in its own amount.
SumsInv ==
  /\ SumFunction(issuable) <= eth.head * MAX_USDT
  /\ \A t \in EthTxs : ledger.minted[t] <= issuable[t]

LEMMA IssuableIs ==
  ASSUME BaseInv
  PROVE  /\ issuable \in [EthTxs -> Nat]
         /\ \A t \in EthTxs : issuable[t] <= lockedAmount[t] /\ issuable[t] <= MAX_USDT
<1>1. lockedAmount \in [EthTxs -> Nat]
  BY LockedIs DEF LockedByTx
<1> QED
  BY <1>1, RelayerAssumption DEF issuable, RelayerAssumption

LEMMA SumsInit == Init /\ BaseInv => SumsInv
<1> SUFFICES ASSUME Init, BaseInv PROVE SumsInv
  OBVIOUS
<1>1. Recorded = {}
  BY EmptyRange DEF Init, Recorded
<1>2. \A t \in EthTxs : lockedAmount[t] = 0
  BY <1>1, LockedIs DEF LockedByTx
<1>3. issuable \in [EthTxs -> Int] /\ \A t \in EthTxs : issuable[t] = 0
  BY <1>2, IssuableIs DEF issuable
<1>4. SumFunction(issuable) = 0
  BY <1>3, SumZero, TokenAssumption DEF TokenAssumption
<1>5. eth.head * MAX_USDT = 0
  BY RelayerAssumption DEF Init, RelayerAssumption
<1>6. \A t \in EthTxs : ledger.minted[t] = 0
  BY DEF Init, TokenInit
<1> QED
  BY <1>3, <1>4, <1>5, <1>6 DEF SumsInv

\* The head moves with every deposit.
LEMMA HeadSteps ==
  ASSUME BaseInv, [Next]_vars
  PROVE  /\ eth'.head \in Nat /\ eth.head \in Nat /\ eth.head <= eth'.head
         /\ lockedAmount' = lockedAmount \/ eth'.head = eth.head + 1
<1>1. CASE ethBlock
  BY <1>1 DEF ethBlock, BaseInv, EthInv
<1>2. ASSUME NEW id \in 1 .. MaxBurns, minePayout(id)
      PROVE  eth'.head = eth.head /\ lockedAmount' = lockedAmount
  BY <1>2, PayoutKeepsEth DEF BaseInv, lockedAmount
<1>3. ASSUME NEW u \in Users, NEW t \in EthTxs, NEW v \in Nat, depositUSDT(u, t, v)
      PROVE  eth'.head = eth.head + 1
  BY <1>3, DepositRecorded DEF BaseInv
<1>4. eth.head \in Nat
  BY CursorTypes
<1>5. ASSUME UNCHANGED eth PROVE eth'.head = eth.head /\ lockedAmount' = lockedAmount
  BY <1>5 DEF lockedAmount
<1> QED
  BY <1>1, <1>2, <1>3, <1>4, <1>5, RecordGrows DEF BaseInv

LEMMA TimesMonotone ==
  ASSUME NEW a \in Nat, NEW b \in Nat, NEW m \in Nat, a <= b
  PROVE  a * m <= b * m /\ (a + 1) * m = a * m + m /\ a * m \in Nat
  OBVIOUS

LEMMA SumsNext ==
  BaseInv /\ TokenInv /\ MempoolInv /\ SumsInv /\ [Next]_vars => SumsInv'
<1> SUFFICES ASSUME BaseInv, TokenInv, MempoolInv, SumsInv, [Next]_vars PROVE SumsInv'
  OBVIOUS
<1> USE TokenAssumption
<1>1. MAX_USDT \in Nat
  BY RelayerAssumption DEF RelayerAssumption
<1>2. issuable \in [EthTxs -> Nat] /\ issuable' \in [EthTxs -> Nat]
  <2>1. LockedByTx /\ LockedByTx'
    BY BaseNext, LockedIs, PTL
  <2> QED
    BY <2>1 DEF LockedByTx, issuable
<1>3. issuable \in [EthTxs -> Int] /\ issuable' \in [EthTxs -> Int]
  BY <1>2
<1>4. /\ eth'.head \in Nat /\ eth.head \in Nat /\ eth.head <= eth'.head
      /\ lockedAmount' = lockedAmount \/ eth'.head = eth.head + 1
  BY HeadSteps
<1>5. SumFunction(issuable) \in Int
  BY <1>2, SumBounds DEF TokenAssumption
<1>6. CASE lockedAmount' = lockedAmount
  <2>1. issuable' = issuable
    BY <1>6 DEF issuable
  <2>2. eth.head * MAX_USDT <= eth'.head * MAX_USDT
    BY <1>1, <1>4, TimesMonotone
  <2>3. eth.head * MAX_USDT \in Int /\ eth'.head * MAX_USDT \in Int
    BY <1>1, <1>4
  <2>4. SumFunction(issuable') <= eth'.head * MAX_USDT
    BY <1>5, <2>1, <2>2, <2>3 DEF SumsInv
  <2>5. CASE UNCHANGED tokenVars
    BY <2>1, <2>4, <2>5 DEF SumsInv, tokenVars
  <2>6. ASSUME NEW u \in Users, NEW v \in Nat, NEW valid \in BOOLEAN, burnUSDT(u, v, valid)
        PROVE  ledger'.minted = ledger.minted
    BY <2>6 DEF burnUSDT, bridgeBurn, TokenInv, BackedInv
  <2>7. ASSUME NEW d \in Recorded, Mined(d)
        PROVE  \A t \in EthTxs : ledger'.minted[t] <= issuable[t]
    <3>1. ledger'.minted = [ledger.minted EXCEPT ![d.tx] = d.amount]
      BY <2>7 DEF Mined, bridgeMint, TokenInv, BackedInv
    <3>2. withinLimits(d)
      <4>1. PICK e \in Recorded : e.tx = d.tx /\ Mintable(e)
        BY <2>7, DepositFields DEF Mined, MempoolInv
      <4>2. e = d
        BY <4>1, RecordedAre DEF BaseInv
      <4> QED
        BY <4>1, <4>2 DEF Mintable
    <3>3. d.tx \in EthTxs /\ lockedAmount[d.tx] = d.amount /\ d.amount \in Nat
      BY DepositFields, LockedIs DEF LockedByTx
    <3>4. issuable[d.tx] = d.amount
      BY <3>2, <3>3, RelayerAssumption DEF issuable, withinLimits, RelayerAssumption
    <3>5. ledger.minted \in [EthTxs -> Nat]
      BY DEF TokenInv, BackedInv
    <3>6. ledger'.minted[d.tx] = d.amount /\ \A t \in EthTxs \ {d.tx} : ledger'.minted[t] = ledger.minted[t]
      BY <3>1, <3>3, <3>5
    <3> QED
      BY <3>3, <3>4, <3>6 DEF SumsInv
  <2> QED
    BY <2>1, <2>4, <2>5, <2>6, <2>7, TokenSteps DEF SumsInv
<1>7. CASE lockedAmount' # lockedAmount
  <2>1. PICK t \in EthTxs, v \in Nat \ {0} :
          (\A d \in Recorded : d.tx # t) /\ lockedAmount' = [lockedAmount EXCEPT ![t] = v]
    BY <1>7, LockedSteps
  <2>2. UNCHANGED tokenVars
    BY <1>7, LockedSteps
  <2>3. lockedAmount[t] = 0 /\ lockedAmount \in [EthTxs -> Nat]
    BY <2>1, LockedIs DEF LockedByTx
  <2>4. issuable[t] = 0 /\ issuable'[t] \in 0 .. MAX_USDT
        /\ \A x \in EthTxs \ {t} : issuable'[x] = issuable[x]
    BY <1>1, <2>1, <2>3, RelayerAssumption DEF issuable, RelayerAssumption
  <2>5. SumFunction(issuable') = SumFunction(issuable) + issuable'[t] - issuable[t]
    BY <1>3, <2>4, SumChange DEF TokenAssumption
  <2>6. (eth.head + 1) * MAX_USDT = eth.head * MAX_USDT + MAX_USDT /\ eth.head * MAX_USDT \in Nat
    BY <1>1, <1>4, TimesMonotone
  <2>7. eth'.head = eth.head + 1
    BY <1>4, <1>7
  <2>8. SumFunction(issuable) <= eth.head * MAX_USDT
    BY DEF SumsInv
  <2>9. SumFunction(issuable') <= eth.head * MAX_USDT + MAX_USDT
    BY <1>1, <1>5, <2>4, <2>5, <2>6, <2>8
  <2>10. \A x \in EthTxs : ledger.minted[x] <= issuable'[x]
    <3>1. \A x \in EthTxs : issuable[x] <= issuable'[x] /\ issuable[x] \in Nat /\ issuable'[x] \in Nat
      BY <1>2, <2>4
    <3>2. ledger.minted \in [EthTxs -> Nat]
      BY DEF TokenInv, BackedInv
    <3> QED
      BY <3>1, <3>2 DEF SumsInv
  <2> QED
    BY <2>2, <2>6, <2>7, <2>9, <2>10 DEF SumsInv, tokenVars
<1> QED
  BY <1>6, <1>7

\* A mint that waits is only refused as a duplicate: the supply never gets in its way.
LEMMA MintFits ==
  ASSUME BaseInv, TokenInv, MempoolInv, SumsInv, NEW d \in Recorded,
         mempool[d.tx] > 0, d.tx \notin processedDeposits
  PROVE  mintable(FirstOperator, d.from, d.amount, d.tx)
<1> USE TokenAssumption
<1>1. /\ d.tx \in EthTxs /\ d.amount \in Nat /\ d.from # NoAddress
      /\ lockedAmount[d.tx] = d.amount
  BY DepositFields, LockedIs DEF LockedByTx, TokenAssumption
<1>2. withinLimits(d) /\ d.amount # 0
  <2>1. PICK e \in Recorded : e.tx = d.tx /\ Mintable(e)
    BY <1>1 DEF MempoolInv
  <2>2. e = d
    BY <2>1, RecordedAre DEF BaseInv
  <2> QED
    BY <2>1, <2>2 DEF Mintable
<1>3. PICK m, n : m = ledger.minted /\ n = [m EXCEPT ![d.tx] = d.amount]
  OBVIOUS
<1>4. m \in [EthTxs -> Nat] /\ m[d.tx] = 0
  BY <1>1, <1>3 DEF TokenInv, BackedInv
<1>5. /\ n \in [EthTxs -> Nat] /\ n[d.tx] = d.amount
      /\ \A y \in EthTxs \ {d.tx} : n[y] = m[y]
  BY <1>1, <1>3, <1>4
<1>6. m \in [EthTxs -> Int] /\ n \in [EthTxs -> Int] /\ issuable \in [EthTxs -> Int]
  BY <1>4, <1>5, IssuableIs
<1>7. \A t \in EthTxs : n[t] <= issuable[t]
  <2>1. issuable[d.tx] = d.amount
    BY <1>1, <1>2, RelayerAssumption DEF issuable, withinLimits, RelayerAssumption
  <2> QED
    BY <1>1, <1>3, <1>5, <2>1 DEF SumsInv
<1>8. SumFunction(n) <= SumFunction(issuable)
  BY <1>6, <1>7, SumLeq DEF TokenAssumption
<1>9. /\ SumFunction(m) \in Int /\ SumFunction(n) \in Int
      /\ SumFunction(n) = SumFunction(m) + n[d.tx] - m[d.tx]
  BY <1>1, <1>5, <1>6, SumChange DEF TokenAssumption
<1>10. totalSupply = SumFunction(m) - ledger.burned /\ ledger.burned \in Nat
  BY <1>3 DEF TokenInv, BackedInv, SupplyIsBacked
<1>11. /\ eth.head * MAX_USDT <= MaxEthBlock * MAX_USDT
       /\ eth.head * MAX_USDT \in Nat /\ MaxEthBlock * MAX_USDT \in Nat
  <2>1. eth.head \in Nat /\ MaxEthBlock \in Nat /\ MAX_USDT \in Nat /\ eth.head <= MaxEthBlock
    BY CursorTypes, RelayerAssumption DEF RelayerAssumption, BaseInv, EthInv
  <2> QED
    BY <2>1, TimesMonotone
<1>12. SumFunction(issuable) \in Nat /\ SumFunction(issuable) <= eth.head * MAX_USDT
  BY IssuableIs, SumBounds DEF SumsInv, TokenAssumption
<1>13. totalSupply + d.amount <= MAX_UINT
  <2>1. totalSupply + d.amount <= SumFunction(n)
    BY <1>1, <1>4, <1>5, <1>9, <1>10
  <2>2. totalSupply + d.amount \in Int
    BY <1>1, <1>9, <1>10
  <2>3. MaxEthBlock * MAX_USDT <= MAX_UINT /\ MAX_UINT \in Nat
    BY SupplyFits DEF SupplyFits, TokenAssumption
  <2> QED
    BY <1>8, <1>9, <1>11, <1>12, <2>1, <2>2, <2>3
<1> QED
  BY <1>1, <1>2, <1>13 DEF mintable, notProcessed, TokenInv

Backed(t) == mempool[t] > 0 \/ t \in processedDeposits

CacheInv ==
  /\ \A t \in mem.processed \cup disk.processed : Backed(t)
  /\ pc = "record" => Backed(Head(todo).tx)

LEMMA CacheInit == Init => CacheInv
  BY DEF Init, CacheInv, NoMemory

\* What was broadcast stays broadcast, or is mined.
LEMMA BackedStays ==
  ASSUME BaseInv, TokenInv, MempoolInv, SumsInv, [Next]_vars, NEW t \in EthTxs, Backed(t)
  PROVE  Backed(t)'
<1>1. mempool \in [EthTxs -> Nat]
  BY DEF BaseInv, ProcInv
<1>2. processedDeposits \subseteq processedDeposits'
  <2>1. ASSUME NEW u \in Users, NEW v \in Nat, NEW valid \in BOOLEAN, burnUSDT(u, v, valid)
        PROVE  processedDeposits' = processedDeposits
    BY <2>1 DEF burnUSDT, bridgeBurn
  <2>2. ASSUME NEW d \in Recorded, Mined(d) PROVE processedDeposits \subseteq processedDeposits'
    BY <2>2 DEF Mined, bridgeMint
  <2> QED
    BY <2>1, <2>2, TokenSteps DEF tokenVars
<1>3. CASE UNCHANGED mempool
  BY <1>2, <1>3 DEF Backed
<1>4. ASSUME NEW o, mintDeposit(o) PROVE Backed(t)'
  <2>1. UNCHANGED mempool \/ mempool' = [mempool EXCEPT ![Head(todo).tx] = @ + 1]
    BY <1>4 DEF mintDeposit
  <2>2. mempool[t] > 0 => mempool'[t] > 0
    BY <1>1, <2>1
  <2> QED
    BY <1>2, <2>2 DEF Backed
<1>5. ASSUME NEW x \in EthTxs, mineMint(x) PROVE Backed(t)'
  <2>1. mempool[x] > 0 /\ mempool' = [mempool EXCEPT ![x] = @ - 1]
    BY <1>5 DEF mineMint
  <2>2. CASE x # t
    <3>1. mempool'[t] = mempool[t]
      BY <1>1, <2>1, <2>2
    <3> QED
      BY <1>2, <3>1 DEF Backed
  <2>3. CASE x = t
    <3>1. PICK i \in 1 .. Len(eth.deposits) :
            /\ eth.deposits[i].tx = t
            /\ IF mintable(FirstOperator, eth.deposits[i].from, eth.deposits[i].amount, t)
                 THEN bridgeMint(FirstOperator, eth.deposits[i].from, eth.deposits[i].amount, t)
                 ELSE UNCHANGED tokenVars
      BY <1>5, <2>3 DEF mineMint
    <3>2. PICK d : d = eth.deposits[i]
      OBVIOUS
    <3>3. d \in Recorded /\ d.tx = t
      BY <3>1, <3>2, RecordedAre DEF BaseInv
    <3>4. CASE t \in processedDeposits
      BY <1>2, <3>4 DEF Backed
    <3>5. CASE t \notin processedDeposits
      <4>1. mintable(FirstOperator, d.from, d.amount, t)
        BY <2>1, <2>3, <3>3, <3>5, MintFits
      <4>2. bridgeMint(FirstOperator, d.from, d.amount, t)
        BY <3>1, <3>2, <4>1
      <4> QED
        BY <4>2 DEF bridgeMint, Backed
    <3> QED
      BY <3>4, <3>5
  <2> QED
    BY <2>2, <2>3
<1>6. UNCHANGED vars => UNCHANGED mempool
  BY DEF vars
<1> QED
  BY <1>3, <1>4, <1>5, <1>6, ProcessLeaves, WorldLeaves DEF Next

\* A step by which the cache names nothing new.
LEMMA StepKeepsCache ==
  ASSUME BaseInv, CacheInv, \A t \in EthTxs : Backed(t) => Backed(t)',
         mem'.processed \cup disk'.processed \subseteq mem.processed \cup disk.processed,
         pc' = "record" => pc = "record" /\ todo' = todo
  PROVE  CacheInv'
<1>1. mem.processed \cup disk.processed \subseteq EthTxs
  BY DEF BaseInv, ProcInv, MemTypes
<1>2. ASSUME pc' = "record" PROVE Head(todo).tx \in EthTxs
  BY <1>2, DepositQueue DEF BaseInv, ProcInv
<1> QED
  BY <1>1, <1>2 DEF CacheInv

LEMMA CacheNext ==
  BaseInv /\ TokenInv /\ MempoolInv /\ SumsInv /\ CacheInv /\ [Next]_vars => CacheInv'
<1> SUFFICES ASSUME BaseInv, TokenInv, MempoolInv, SumsInv, CacheInv, [Next]_vars
             PROVE  CacheInv'
  OBVIOUS
<1> USE DEF chains, observed, budget, process
<1>1. \A t \in EthTxs : Backed(t) => Backed(t)'
  BY BackedStays
<1>2. CASE UNCHANGED vars
  BY <1>1, <1>2, StepKeepsCache DEF vars
<1>3. CASE Environment \/ \E t \in EthTxs : mineMint(t)
  <2>1. UNCHANGED <<mem, disk, pc, todo>>
    BY <1>3, WorldLeaves
  <2> QED
    BY <1>1, <2>1, StepKeepsCache
<1>4. CASE start
  <2>1. mem'.processed = disk.processed /\ disk' = disk /\ pc' = "poll"
    BY <1>4 DEF start
  <2> QED
    BY <1>1, <2>1, StepKeepsCache
<1>5. CASE poll \/ skipDeposit \/ depositsDone \/ scanWithdrawals \/ skipWithdrawal
           \/ payWithdrawal \/ withdrawalsDone
  <2>1. mem'.processed = mem.processed /\ disk' = disk /\ pc' # "record"
    BY <1>5 DEF poll, skipDeposit, depositsDone, scanWithdrawals, skipWithdrawal,
      payWithdrawal, withdrawalsDone, BaseInv, ProcInv, MemTypes
  <2> QED
    BY <1>1, <2>1, StepKeepsCache
<1>6. CASE save
  <2>1. mem' = mem /\ disk'.processed = disk.processed /\ pc' # "record"
    BY <1>6 DEF save, BaseInv, ProcInv
  <2> QED
    BY <1>1, <2>1, StepKeepsCache
<1>7. ASSUME NEW pebble, scanFails(pebble) PROVE CacheInv'
  <2>1. mem'.processed = mem.processed /\ disk'.processed = disk.processed /\ pc' # "record"
    BY <1>7 DEF scanFails, BaseInv, ProcInv, MemTypes
  <2> QED
    BY <1>1, <2>1, StepKeepsCache
<1>8. CASE crash
  <2>1. /\ mem'.processed = {} /\ pc' # "record"
        /\ disk'.processed = disk.processed \/ disk'.processed = {}
    BY <1>8 DEF crash, NoMemory, BaseInv, ProcInv
  <2> QED
    BY <1>1, <2>1, StepKeepsCache
<1>9. ASSUME NEW o, mintDeposit(o) PROVE CacheInv'
  <2>1. PICK d : d = Head(todo)
    OBVIOUS
  <2>2. /\ pc = "deposits" /\ todo # <<>> /\ disk' = disk
        /\ mem'.processed = mem.processed
        /\ \/ pc' = "record" /\ todo' = todo /\ mempool' = [mempool EXCEPT ![d.tx] = @ + 1]
           \/ pc' # "record"
    BY <1>9, <2>1 DEF mintDeposit, cacheAtSend, BaseInv, ProcInv, MemTypes
  <2>3. CASE pc' # "record"
    BY <1>1, <2>2, <2>3, StepKeepsCache
  <2>4. CASE pc' = "record" /\ todo' = todo /\ mempool' = [mempool EXCEPT ![d.tx] = @ + 1]
    <3>1. d.tx \in EthTxs
      BY <2>1, <2>2, DepositQueue DEF BaseInv
    <3>2. mempool[d.tx] \in Nat /\ mempool'[d.tx] = mempool[d.tx] + 1
      BY <2>4, <3>1 DEF BaseInv, ProcInv
    <3>3. Backed(Head(todo).tx)'
      BY <2>1, <2>4, <3>2 DEF Backed
    <3>4. mem.processed \cup disk.processed \subseteq EthTxs
      BY DEF BaseInv, ProcInv, MemTypes
    <3> QED
      BY <1>1, <2>2, <3>3, <3>4 DEF CacheInv
  <2> QED
    BY <2>2, <2>3, <2>4
<1>10. CASE recordDeposit
  <2>1. PICK t : t = Head(todo).tx
    OBVIOUS
  <2>2. /\ pc = "record" /\ pc' # "record"
        /\ mem'.processed = mem.processed \cup {t}
        /\ disk'.processed = mem.processed \cup {t}
    BY <1>10, <2>1 DEF recordDeposit, BaseInv, ProcInv, MemTypes
  <2>3. Backed(t) /\ t \in EthTxs
    BY <2>1, <2>2, DepositQueue DEF CacheInv, BaseInv, ProcInv
  <2>4. mem.processed \cup disk.processed \subseteq EthTxs
    BY DEF BaseInv, ProcInv, MemTypes
  <2>5. ASSUME NEW x \in mem'.processed \cup disk'.processed PROVE Backed(x)'
    BY <1>1, <2>2, <2>3, <2>4, <2>5 DEF CacheInv
  <2> QED
    BY <2>2, <2>5 DEF CacheInv
<1> QED
  BY <1>2, <1>3, <1>4, <1>5, <1>6, <1>7, <1>8, <1>9, <1>10 DEF Next, Relayer, Faults

\* The cache names deposits whose mint waits or was mined, whatever stopped the process
\* and whichever file it was writing: a mint the relayer believes in cannot be refused,
\* for all the deposits together fit the supply (267, 286-288).
THEOREM CacheBacked == Spec => []CacheIsBacked
<1>1. CacheInv => CacheIsBacked
  BY DEF CacheInv, CacheIsBacked, Backed
<1>2. Init => BaseInv /\ TokenInv /\ MempoolInv /\ SumsInv /\ CacheInv
  BY BaseInit, TokenInvInit, MempoolInit, SumsInit, CacheInit
<1>3. BaseInv /\ TokenInv /\ MempoolInv /\ SumsInv /\ CacheInv /\ [Next]_vars =>
        BaseInv' /\ TokenInv' /\ MempoolInv' /\ SumsInv' /\ CacheInv'
  BY BaseNext, TokenInvNext, MempoolNext, SumsNext, CacheNext
<1> QED
  BY <1>1, <1>2, <1>3, PTL DEF Spec

-----------------------------------------------------------------------------
(* The rate limit, over stops                                                 *)

\* What was let through for u in the hour that ends with block b.
InHour(S, u, b) == {e \in S : e.from = u /\ b - HOUR < e.at /\ e.at <= b}

\* What the process remembers of any hour is within the limit; of what it has
\* forgotten there is no more than a limit for each stop.
RateInv ==
  /\ IsFiniteSet(mem.window) /\ IsFiniteSet(broadcast)
  /\ pc = "down" => mem.window = {}
  /\ \A u \in Users, b \in Int :
       /\ Cardinality(InHour(mem.window, u, b)) <= RATE_LIMIT
       /\ Cardinality(InHour(broadcast \ mem.window, u, b)) <= RATE_LIMIT * crashes

LEMMA FewerInLess ==
  ASSUME NEW T, IsFiniteSet(T), NEW U \in SUBSET T
  PROVE  /\ IsFiniteSet(U) /\ Cardinality(T) \in Nat
         /\ Cardinality(U) \in Nat /\ Cardinality(U) <= Cardinality(T)
  BY FS_Subset, FS_CardinalityType

LEMMA BothAtMost ==
  ASSUME NEW T, IsFiniteSet(T), NEW U, IsFiniteSet(U), NEW V \in SUBSET (T \cup U)
  PROVE  Cardinality(V) \in Nat /\ Cardinality(V) <= Cardinality(T) + Cardinality(U)
<1>1. /\ IsFiniteSet(T \cup U) /\ Cardinality(T \cap U) \in Nat
      /\ Cardinality(T \cup U) = Cardinality(T) + Cardinality(U) - Cardinality(T \cap U)
  BY FS_Union, FS_Intersection, FS_CardinalityType
<1> QED
  BY <1>1, FewerInLess, FS_CardinalityType

LEMMA WindowTypes ==
  ASSUME BaseInv
  PROVE  /\ mem.window \subseteq Entries /\ broadcast \subseteq Entries /\ crashes \in Nat
         /\ eth.head \in Nat
  BY DEF BaseInv, ProcInv, MemTypes, EthInv

LEMMA InHourFinite ==
  ASSUME NEW S, IsFiniteSet(S), NEW u, NEW b
  PROVE  IsFiniteSet(InHour(S, u, b)) /\ Cardinality(InHour(S, u, b)) \in Nat
<1>1. InHour(S, u, b) \subseteq S
  BY DEF InHour
<1> QED
  BY <1>1, FewerInLess

LEMMA LimitTimes ==
  ASSUME NEW k \in Nat
  PROVE  /\ RATE_LIMIT \in Nat /\ RATE_LIMIT * k \in Nat
         /\ RATE_LIMIT * (k + 1) = RATE_LIMIT * k + RATE_LIMIT
         /\ RATE_LIMIT * (1 + k) = RATE_LIMIT * k + RATE_LIMIT
  BY RelayerAssumption DEF RelayerAssumption

LEMMA RateInit == BaseInv /\ Init => RateInv
<1> SUFFICES ASSUME BaseInv, Init PROVE RateInv
  OBVIOUS
<1>1. mem.window = {} /\ broadcast = {}
  BY DEF Init, NoMemory
<1>2. \A u \in Users, b \in Int : InHour({}, u, b) = {}
  BY DEF InHour
<1>3. broadcast \ mem.window = {}
  BY <1>1
<1>4. /\ Cardinality({}) = 0 /\ IsFiniteSet({})
      /\ RATE_LIMIT \in Nat /\ RATE_LIMIT * crashes \in Nat
  BY FS_EmptySet, LimitTimes, WindowTypes
<1>5. 0 <= RATE_LIMIT /\ 0 <= RATE_LIMIT * crashes
  BY <1>4
<1> QED
  BY <1>1, <1>2, <1>3, <1>4, <1>5 DEF RateInv

\* A step that lets nothing through, and forgets nothing.
LEMMA StepKeepsRate ==
  ASSUME RateInv, UNCHANGED <<broadcast, crashes>>, mem'.window = mem.window,
         pc' = "down" => pc = "down"
  PROVE  RateInv'
  BY DEF RateInv, InHour

\* A mint is let through while there is room for it in its sender's window.
LEMMA MintKeepsRate ==
  ASSUME BaseInv, RateInv, NEW o, mintDeposit(o)
  PROVE  RateInv'
<1>1. PICK d, e : d = Head(todo) /\ e = [tx |-> d.tx, from |-> d.from, at |-> eth.head]
  OBVIOUS
<1>2. /\ pc = "deposits" /\ todo # <<>> /\ pc' # "down" /\ UNCHANGED crashes
      /\ rateAllows(d) /\ mem'.window = mem.window \cup {e}
      /\ broadcast' = broadcast \/ broadcast' = broadcast \cup {e}
  BY <1>1 DEF mintDeposit, BaseInv, ProcInv, MemTypes
<1>3. PICK W, M : W = mem.window /\ M = broadcast
  OBVIOUS
<1>4. PICK W2, M2 : W2 = mem'.window /\ M2 = broadcast'
  OBVIOUS
<1>5. /\ W2 = W \cup {e} /\ M2 \ W2 \subseteq M \ W
      /\ IsFiniteSet(W2) /\ IsFiniteSet(M2) /\ IsFiniteSet(W) /\ IsFiniteSet(M \ W)
      /\ W \subseteq Entries
  <2>1. IsFiniteSet(W) /\ IsFiniteSet(M) /\ W \subseteq Entries
    BY <1>3, WindowTypes DEF RateInv
  <2>2. W2 = W \cup {e} /\ (M2 = M \/ M2 = M \cup {e})
    BY <1>2, <1>3, <1>4
  <2>3. IsFiniteSet(W \cup {e}) /\ IsFiniteSet(M \cup {e})
    BY <2>1, FS_AddElement
  <2>4. IsFiniteSet(M \ W)
    BY <2>1, FS_Subset
  <2> QED
    BY <2>1, <2>2, <2>3, <2>4
<1>6. ASSUME NEW u \in Users, NEW b \in Int
      PROVE  Cardinality(InHour(W2, u, b)) <= RATE_LIMIT
  <2>1. Cardinality(InHour(W, u, b)) <= RATE_LIMIT
    BY <1>3 DEF RateInv
  <2>2. CASE ~(u = d.from /\ b - HOUR < eth.head /\ eth.head <= b)
    <3>1. InHour(W2, u, b) = InHour(W, u, b)
      BY <1>1, <1>5, <2>2 DEF InHour
    <3> QED
      BY <2>1, <3>1
  <2>3. CASE u = d.from /\ b - HOUR < eth.head /\ eth.head <= b
    <3>1. PICK T, U : T = windowOf(d) /\ U = InHour(W2, u, b)
      OBVIOUS
    <3>2. U \subseteq T \cup {e}
      <4>1. ASSUME NEW x \in W, x.from = u, b - HOUR < x.at PROVE x \in T
        <5>1. x.at \in Nat /\ eth.head \in Nat /\ HOUR \in Nat
          BY <1>5, WindowTypes, RelayerAssumption DEF Entries, RelayerAssumption
        <5>2. eth.head - x.at < HOUR
          BY <2>3, <4>1, <5>1
        <5> QED
          BY <1>3, <2>3, <3>1, <4>1, <5>2 DEF windowOf
      <4> QED
        BY <1>5, <3>1, <4>1 DEF InHour
    <3>3. T \subseteq W
      BY <1>3, <3>1 DEF windowOf
    <3>4. IsFiniteSet(T) /\ Cardinality(T) \in Nat
      BY <1>5, <3>3, FewerInLess
    <3>5. IsFiniteSet({e}) /\ Cardinality({e}) = 1
      BY FS_Singleton
    <3>6. Cardinality(U) \in Nat /\ Cardinality(U) <= Cardinality(T) + 1
      BY <3>2, <3>4, <3>5, BothAtMost
    <3>7. Cardinality(T) < RATE_LIMIT
      BY <1>2, <3>1 DEF rateAllows
    <3> QED
      BY <3>1, <3>4, <3>6, <3>7, RelayerAssumption DEF RelayerAssumption
  <2> QED
    BY <2>2, <2>3
<1>7. ASSUME NEW u \in Users, NEW b \in Int
      PROVE  Cardinality(InHour(M2 \ W2, u, b)) <= RATE_LIMIT * crashes
  <2>1. PICK T, U : T = InHour(M \ W, u, b) /\ U = InHour(M2 \ W2, u, b)
    OBVIOUS
  <2>2. U \subseteq T
    BY <1>5, <2>1 DEF InHour
  <2>3. IsFiniteSet(T)
    BY <1>5, <2>1, InHourFinite
  <2>4. Cardinality(U) \in Nat /\ Cardinality(T) \in Nat /\ Cardinality(U) <= Cardinality(T)
    BY <2>2, <2>3, FewerInLess
  <2>5. Cardinality(T) <= RATE_LIMIT * crashes
    BY <1>3, <2>1 DEF RateInv
  <2>6. RATE_LIMIT * crashes \in Nat
    BY LimitTimes, WindowTypes
  <2> QED
    BY <2>1, <2>4, <2>5, <2>6
<1> QED
  BY <1>2, <1>4, <1>5, <1>6, <1>7 DEF RateInv, InHour

\* What is remembered and what was forgotten make up all that was let through.
LEMMA AllInHour ==
  ASSUME BaseInv, RateInv, NEW u \in Users, NEW b \in Int
  PROVE  Cardinality(InHour(broadcast, u, b)) <= RATE_LIMIT * (1 + crashes)
<1>1. PICK T, U, V : /\ T = InHour(mem.window, u, b) /\ V = InHour(broadcast, u, b)
                     /\ U = InHour(broadcast \ mem.window, u, b)
  OBVIOUS
<1>2. V \subseteq T \cup U
  BY <1>1 DEF InHour
<1>3. IsFiniteSet(mem.window) /\ IsFiniteSet(broadcast \ mem.window)
  BY FS_Difference DEF RateInv
<1>4. /\ IsFiniteSet(T) /\ Cardinality(T) \in Nat
      /\ IsFiniteSet(U) /\ Cardinality(U) \in Nat
  BY <1>1, <1>3, InHourFinite
<1>5. Cardinality(V) \in Nat /\ Cardinality(V) <= Cardinality(T) + Cardinality(U)
  BY <1>2, <1>4, BothAtMost
<1>6. Cardinality(T) <= RATE_LIMIT /\ Cardinality(U) <= RATE_LIMIT * crashes
  BY <1>1 DEF RateInv
<1>7. /\ RATE_LIMIT \in Nat /\ RATE_LIMIT * crashes \in Nat
      /\ RATE_LIMIT * (1 + crashes) = RATE_LIMIT * crashes + RATE_LIMIT
  BY LimitTimes, WindowTypes
<1> QED
  BY <1>1, <1>4, <1>5, <1>6, <1>7

LEMMA CrashKeepsRate == ASSUME BaseInv, RateInv, crash PROVE RateInv'
<1>1. mem'.window = {} /\ crashes' = crashes + 1 /\ UNCHANGED broadcast
  BY DEF crash, NoMemory
<1>2. ASSUME NEW u \in Users, NEW b \in Int
      PROVE  Cardinality(InHour(broadcast, u, b)) <= RATE_LIMIT * crashes'
  <2>1. RATE_LIMIT * (1 + crashes) = RATE_LIMIT * (crashes + 1)
    BY LimitTimes, WindowTypes
  <2> QED
    BY <1>1, <2>1, AllInHour
<1>3. PICK none : none = {}
  OBVIOUS
<1>4. broadcast \ none = broadcast /\ \A u \in Users, b \in Int : InHour(none, u, b) = {}
  BY <1>3 DEF InHour
<1>5. IsFiniteSet(none) /\ IsFiniteSet(broadcast)
  BY <1>3, FS_EmptySet DEF RateInv
<1>6. Cardinality({}) = 0 /\ RATE_LIMIT \in Nat
  BY FS_EmptySet, RelayerAssumption DEF RelayerAssumption
<1>7. PICK W2, M2 : W2 = mem'.window /\ M2 = broadcast'
  OBVIOUS
<1>8. W2 = none /\ M2 = broadcast
  BY <1>1, <1>3, <1>7
<1>9. ASSUME NEW u \in Users, NEW b \in Int
      PROVE  /\ Cardinality(InHour(W2, u, b)) <= RATE_LIMIT
             /\ Cardinality(InHour(M2 \ W2, u, b)) <= RATE_LIMIT * crashes'
  <2>1. InHour(W2, u, b) = {} /\ M2 \ W2 = broadcast
    BY <1>4, <1>8
  <2> QED
    BY <1>2, <1>6, <2>1
<1> QED
  BY <1>3, <1>5, <1>7, <1>8, <1>9 DEF RateInv, InHour

LEMMA RateNext == BaseInv /\ RateInv /\ [Next]_vars => RateInv'
<1> SUFFICES ASSUME BaseInv, RateInv, [Next]_vars PROVE RateInv'
  OBVIOUS
<1> USE DEF chains, observed, budget, process
<1>1. CASE UNCHANGED vars
  <2>1. UNCHANGED <<mem, broadcast, crashes, pc>>
    BY <1>1 DEF vars
  <2> QED
    BY <2>1, StepKeepsRate
<1>2. CASE Environment \/ \E t \in EthTxs : mineMint(t)
  <2>1. UNCHANGED <<mem, broadcast, crashes, pc>>
    BY <1>2, WorldLeaves
  <2> QED
    BY <2>1, StepKeepsRate
<1>3. CASE start
  <2>1. mem'.window = mem.window /\ pc' # "down" /\ UNCHANGED <<broadcast, crashes>>
    BY <1>3 DEF start, RateInv
  <2> QED
    BY <2>1, StepKeepsRate
<1>4. CASE poll \/ skipDeposit \/ depositsDone \/ scanWithdrawals \/ skipWithdrawal
           \/ payWithdrawal \/ withdrawalsDone \/ save \/ recordDeposit
  <2>1. mem'.window = mem.window /\ pc' # "down" /\ UNCHANGED <<broadcast, crashes>>
    BY <1>4 DEF poll, skipDeposit, depositsDone, scanWithdrawals, skipWithdrawal,
      payWithdrawal, withdrawalsDone, save, recordDeposit, handled, lookedAt,
      BaseInv, ProcInv, MemTypes
  <2> QED
    BY <2>1, StepKeepsRate
<1>5. ASSUME NEW pebble, scanFails(pebble) PROVE RateInv'
  <2>1. mem'.window = mem.window /\ pc' # "down" /\ UNCHANGED <<broadcast, crashes>>
    BY <1>5 DEF scanFails, BaseInv, ProcInv, MemTypes
  <2> QED
    BY <2>1, StepKeepsRate
<1> QED
  BY <1>1, <1>2, <1>3, <1>4, <1>5, MintKeepsRate, CrashKeepsRate DEF Next, Relayer, Faults

\* In any hour of the clock an address is minted RATE_LIMIT times and, for each stop
\* of the process, at most RATE_LIMIT times more (98-107).
THEOREM RateLimited == Spec => []RateLimitKept
<1>1. BaseInv /\ RateInv => RateLimitKept
  <2> SUFFICES ASSUME BaseInv, RateInv, NEW u \in Users, NEW b \in 0 .. eth.head
               PROVE  Cardinality(mintedInHour(u, b)) <= RATE_LIMIT * (1 + crashes)
    BY DEF RateLimitKept
  <2>1. mintedInHour(u, b) = InHour(broadcast, u, b) /\ b \in Int
    BY DEF mintedInHour, InHour
  <2> QED
    BY <2>1, AllInHour
<1> QED
  BY <1>1, BaseInit, BaseNext, RateInit, RateNext, PTL DEF Spec

-----------------------------------------------------------------------------
(* The treasury                                                               *)

\* Of each burn: what was burned, and what its first payment brought.
burnt == [i \in 1 .. Len(ust.burns) |-> ust.burns[i].amount]
firstPaid ==
  [i \in 1 .. Len(ust.burns) |-> IF payouts.paid[i] = 0 THEN 0 ELSE ust.burns[i].amount]

\* Everything deposited is still in the treasury or was paid; everything burned is in
\* the record; nothing was paid for a burn to come.
MoneyInv ==
  /\ eth.treasury + SumFunction(paidAgain) + SumFunction(firstPaid) = SumFunction(lockedAmount)
  /\ ledger.burned = SumFunction(burnt)
  /\ \A i \in 1 .. MaxBurns : i > Len(ust.burns) => payouts.paid[i] = 0

AccountTypes ==
  /\ Len(ust.burns) \in Nat /\ Len(ust.burns) <= MaxBurns
  /\ \A i \in 1 .. Len(ust.burns) :
       /\ i \in 1 .. MaxBurns /\ ust.burns[i].amount \in Nat /\ payouts.paid[i] \in Nat
       /\ paidAgain[i] \in Nat /\ firstPaid[i] \in Nat
  /\ paidAgain \in [1 .. Len(ust.burns) -> Int]
  /\ firstPaid \in [1 .. Len(ust.burns) -> Int]
  /\ burnt \in [1 .. Len(ust.burns) -> Int]
  /\ lockedAmount \in [EthTxs -> Int] /\ eth.treasury \in Int

LEMMA TimesNat ==
  ASSUME NEW a \in Nat, NEW m \in Nat
  PROVE  a * m \in Nat
  OBVIOUS

LEMMA AccountsAre == BaseInv => AccountTypes
<1> SUFFICES ASSUME BaseInv PROVE AccountTypes
  OBVIOUS
<1>1. Len(ust.burns) \in Nat /\ Len(ust.burns) <= MaxBurns /\ ust.burns \in Seq(Burn)
  BY DEF BaseInv, UstInv, MaxBurns
<1>2. payouts.paid \in [1 .. MaxBurns -> Nat] /\ eth.treasury \in Int
  BY DEF BaseInv, ProcInv, PerBurn, EthInv
<1>3. ASSUME NEW i \in 1 .. Len(ust.burns)
      PROVE  /\ i \in 1 .. MaxBurns /\ ust.burns[i].amount \in Nat /\ payouts.paid[i] \in Nat
             /\ paidAgain[i] \in Nat /\ firstPaid[i] \in Nat
  <2>1. i \in 1 .. MaxBurns
    BY <1>1, RelayerAssumption DEF RelayerAssumption, MaxBurns
  <2>2. ust.burns[i] \in Burn
    BY <1>1, ElementOfSeq
  <2>3. PICK a, p : a = ust.burns[i].amount /\ p = payouts.paid[i]
    OBVIOUS
  <2>4. a \in Nat /\ p \in Nat
    BY <1>2, <2>1, <2>2, <2>3 DEF Burn
  <2>5. firstPaid[i] \in Nat
    BY <2>3, <2>4 DEF firstPaid
  <2>6. paidAgain[i] = IF p <= 1 THEN 0 ELSE (p - 1) * a
    BY <2>3 DEF paidAgain
  <2>7. p > 1 => p - 1 \in Nat
    BY <2>4
  <2>8. paidAgain[i] \in Nat
    BY <2>4, <2>6, <2>7, TimesNat
  <2> QED
    BY <2>1, <2>3, <2>4, <2>5, <2>8
<1>4. paidAgain \in [1 .. Len(ust.burns) -> Int] /\ firstPaid \in [1 .. Len(ust.burns) -> Int]
  <2>1. PICK S, f, g : S = 1 .. Len(ust.burns) /\ f = paidAgain /\ g = firstPaid
    OBVIOUS
  <2>2. f = [i \in S |-> f[i]] /\ g = [i \in S |-> g[i]]
    BY <2>1 DEF paidAgain, firstPaid
  <2>3. \A i \in S : f[i] \in Int /\ g[i] \in Int
    BY <1>3, <2>1
  <2> QED
    BY <2>1, <2>2, <2>3
<1>5. lockedAmount \in [EthTxs -> Int]
  BY LockedIs DEF LockedByTx
<1>6. burnt \in [1 .. Len(ust.burns) -> Int]
  BY <1>3 DEF burnt
<1> QED
  BY <1>1, <1>2, <1>3, <1>4, <1>5, <1>6 DEF AccountTypes

LEMMA MoneyInit == Init /\ BaseInv => MoneyInv
<1> SUFFICES ASSUME Init, BaseInv PROVE MoneyInv
  OBVIOUS
<1>1. Len(ust.burns) = 0 /\ eth.treasury = 0 /\ ledger.burned = 0
  BY EmptySeq DEF Init, TokenInit
<1>2. \A i \in 1 .. 0 : FALSE
  OBVIOUS
<1>3. /\ IsFiniteSet(1 .. 0) /\ IsFiniteSet(EthTxs)
  BY FS_Interval, TokenAssumption DEF TokenAssumption
<1>4. /\ paidAgain \in [1 .. 0 -> Int] /\ firstPaid \in [1 .. 0 -> Int]
      /\ burnt \in [1 .. 0 -> Int]
  BY <1>1, AccountsAre DEF AccountTypes
<1>5. SumFunction(paidAgain) = 0 /\ SumFunction(firstPaid) = 0 /\ SumFunction(burnt) = 0
  BY <1>2, <1>3, <1>4, SumZero
<1>6. Recorded = {}
  BY EmptyRange DEF Init, Recorded
<1>7. lockedAmount \in [EthTxs -> Int] /\ \A t \in EthTxs : lockedAmount[t] = 0
  BY <1>6, LockedIs DEF LockedByTx
<1>8. SumFunction(lockedAmount) = 0
  BY <1>3, <1>7, SumZero
<1>9. \A i \in 1 .. MaxBurns : payouts.paid[i] = 0
  BY DEF Init
<1> QED
  BY <1>1, <1>5, <1>8, <1>9 DEF MoneyInv

LEMMA StepKeepsMoney ==
  ASSUME MoneyInv, UNCHANGED <<ust, lockedAmount>>, eth'.treasury = eth.treasury,
         ledger'.burned = ledger.burned, payouts'.paid = payouts.paid
  PROVE  MoneyInv'
<1>1. paidAgain' = paidAgain /\ firstPaid' = firstPaid /\ burnt' = burnt
  BY DEF paidAgain, firstPaid, burnt
<1> QED
  BY <1>1 DEF MoneyInv

LEMMA DepositKeepsMoney ==
  ASSUME BaseInv, MoneyInv, [Next]_vars,
         NEW u \in Users, NEW t \in EthTxs, NEW v \in Nat, depositUSDT(u, t, v)
  PROVE  MoneyInv'
<1>1. /\ lockedAmount' = [lockedAmount EXCEPT ![t] = v] /\ lockedAmount[t] = 0
      /\ lockedAmount \in [EthTxs -> Int]
  BY DepositLocks, AccountsAre DEF AccountTypes
<1>2. /\ lockedAmount' \in [EthTxs -> Int] /\ lockedAmount'[t] = v
      /\ \A x \in EthTxs \ {t} : lockedAmount'[x] = lockedAmount[x]
  BY <1>1
<1>3. /\ SumFunction(lockedAmount) \in Int
      /\ SumFunction(lockedAmount') = SumFunction(lockedAmount) + lockedAmount'[t] - lockedAmount[t]
  <2>1. PICK f, g : f = lockedAmount /\ g = lockedAmount'
    OBVIOUS
  <2>2. /\ f \in [EthTxs -> Int] /\ g \in [EthTxs -> Int]
        /\ \A x \in EthTxs \ {t} : g[x] = f[x]
    BY <1>1, <1>2, <2>1
  <2>3. SumFunction(f) \in Int /\ SumFunction(g) = SumFunction(f) + g[t] - f[t]
    BY <2>2, SumChange, TokenAssumption DEF TokenAssumption
  <2> QED
    BY <2>1, <2>3
<1>4. SumFunction(lockedAmount') = SumFunction(lockedAmount) + v
  BY <1>1, <1>2, <1>3
<1>5. eth'.treasury = eth.treasury + v /\ UNCHANGED <<ust, payouts, ledger>>
  BY DepositRecorded DEF depositUSDT, tokenVars, BaseInv
<1>6. paidAgain' = paidAgain /\ firstPaid' = firstPaid /\ burnt' = burnt
  BY <1>5 DEF paidAgain, firstPaid, burnt
<1>7. SumFunction(paidAgain) \in Int /\ SumFunction(firstPaid) \in Int /\ eth.treasury \in Int
  <2>1. IsFiniteSet(1 .. Len(ust.burns))
    BY FS_Interval, AccountsAre DEF AccountTypes
  <2>2. \A f \in [1 .. Len(ust.burns) -> Int] : SumFunction(f) \in Int
    BY <2>1, SumInt DEF SumFunction
  <2> QED
    BY <2>2, AccountsAre DEF AccountTypes
<1> QED
  BY <1>4, <1>5, <1>6, <1>7 DEF MoneyInv

\* A burn adds an entry to each account.
LEMMA BurnKeepsMoney ==
  ASSUME BaseInv, TokenInv, MoneyInv, [Next]_vars,
         NEW u \in Users, NEW v \in Nat, NEW valid \in BOOLEAN, burnUSDT(u, v, valid)
  PROVE  MoneyInv'
<1>1. PICK n \in Nat : BurnAdded(n, v, valid)
  BY BurnAppends DEF BaseInv
<1>2. /\ n = Len(ust.burns) /\ Len(ust'.burns) = n + 1
      /\ \A i \in 1 .. n : ust'.burns[i] = ust.burns[i]
      /\ ust'.burns[n + 1].amount = v
  BY <1>1 DEF BurnAdded
<1>3. UNCHANGED <<eth, payouts, lockedAmount>>
  BY DEF burnUSDT, lockedAmount
<1>4. ledger'.burned = ledger.burned + v
  BY DEF burnUSDT, bridgeBurn, TokenInv, BackedInv
<1>5. PICK S, x : S = 1 .. n /\ x = n + 1
  OBVIOUS
<1>6. /\ IsFiniteSet(S) /\ x \notin S /\ S \cup {x} = 1 .. n + 1
  <2>1. IsFiniteSet(1 .. n)
    BY FS_Interval
  <2>2. n + 1 \notin 1 .. n /\ (1 .. n) \cup {n + 1} = 1 .. n + 1
    OBVIOUS
  <2> QED
    BY <1>5, <2>1, <2>2
<1>7. /\ paidAgain \in [S -> Int] /\ firstPaid \in [S -> Int] /\ burnt \in [S -> Int]
  BY <1>2, <1>5, AccountsAre DEF AccountTypes
<1>8. AccountTypes'
  BY BaseNext, AccountsAre, PTL
<1>9. /\ paidAgain' \in [S \cup {x} -> Int] /\ firstPaid' \in [S \cup {x} -> Int]
      /\ burnt' \in [S \cup {x} -> Int]
  BY <1>2, <1>6, <1>8 DEF AccountTypes
<1>10. payouts.paid[n + 1] = 0
  <2>1. n + 1 \in 1 .. MaxBurns /\ n + 1 > Len(ust.burns)
    BY <1>2, <1>8 DEF AccountTypes, MaxBurns
  <2> QED
    BY <2>1 DEF MoneyInv
<1>11. /\ paidAgain'[x] = 0 /\ firstPaid'[x] = 0 /\ burnt'[x] = v
  BY <1>2, <1>3, <1>5, <1>10 DEF paidAgain, firstPaid, burnt
<1>12. \A y \in S : /\ paidAgain'[y] = paidAgain[y] /\ firstPaid'[y] = firstPaid[y]
                    /\ burnt'[y] = burnt[y]
  BY <1>2, <1>3, <1>5 DEF paidAgain, firstPaid, burnt
<1>13. /\ SumFunction(paidAgain') = SumFunction(paidAgain) + paidAgain'[x]
       /\ SumFunction(firstPaid') = SumFunction(firstPaid) + firstPaid'[x]
       /\ SumFunction(burnt') = SumFunction(burnt) + burnt'[x]
  <2>1. IsFiniteSet(S) /\ x \notin S
    BY <1>6
  <2>2. ASSUME NEW f \in [S -> Int], NEW g \in [S \cup {x} -> Int], \A y \in S : g[y] = f[y]
        PROVE  SumFunction(g) = SumFunction(f) + g[x]
    BY <2>1, <2>2, SumExtend
  <2> QED
    BY <1>7, <1>9, <1>12, <2>2
<1>14. /\ SumFunction(paidAgain) \in Int /\ SumFunction(firstPaid) \in Int
  BY <1>6, <1>7, SumInt DEF SumFunction
<1>15. \A i \in 1 .. MaxBurns : i > Len(ust'.burns) => payouts'.paid[i] = 0
  BY <1>2, <1>3 DEF MoneyInv
<1> QED
  BY <1>3, <1>4, <1>11, <1>13, <1>14, <1>15 DEF MoneyInv

\* A payout that is mined is its burn's first, or is one too many; either way what
\* leaves the treasury is accounted for.
LEMMA PayoutKeepsMoney ==
  ASSUME BaseInv, MoneyInv, [Next]_vars, NEW id \in 1 .. MaxBurns, minePayout(id)
  PROVE  MoneyInv'
<1>1. PICK a, p, S : a = ust.burns[id].amount /\ p = payouts.paid[id] /\ S = 1 .. Len(ust.burns)
  OBVIOUS
<1>2. /\ id \in S /\ a \in Nat /\ p \in Nat /\ IsFiniteSet(S)
      /\ paidAgain \in [S -> Int] /\ firstPaid \in [S -> Int] /\ eth.treasury \in Int
  <2>1. id \in 1 .. Len(ust.burns) /\ Len(ust.burns) \in Nat
    BY AccountsAre DEF minePayout, AccountTypes
  <2>2. IsFiniteSet(1 .. Len(ust.burns))
    BY <2>1, FS_Interval
  <2> QED
    BY <1>1, <2>1, <2>2, AccountsAre DEF AccountTypes
<1>3. UNCHANGED <<ust, lockedAmount, ledger>>
  BY PayoutKeepsEth DEF minePayout, lockedAmount, tokenVars, BaseInv
<1>4. CASE ~(eth.treasury >= a)
  <2>1. UNCHANGED eth /\ payouts' = [payouts EXCEPT !.mined[id] = @ + 1]
    BY <1>1, <1>4 DEF minePayout
  <2>2. payouts'.paid = payouts.paid
    BY <2>1 DEF BaseInv, ProcInv
  <2> QED
    BY <1>3, <2>1, <2>2, StepKeepsMoney
<1>5. CASE eth.treasury >= a
  <2>1. /\ eth' = [eth EXCEPT !.treasury = @ - a]
        /\ payouts' = [payouts EXCEPT !.mined[id] = @ + 1, !.paid[id] = @ + 1]
    BY <1>1, <1>5 DEF minePayout
  <2>2. eth'.treasury = eth.treasury - a
    BY <2>1 DEF BaseInv, EthInv
  <2>3. payouts'.paid = [payouts.paid EXCEPT ![id] = @ + 1]
    BY <2>1 DEF BaseInv, ProcInv
  <2>4. /\ payouts'.paid[id] = p + 1
        /\ \A i \in 1 .. MaxBurns : i # id => payouts'.paid[i] = payouts.paid[i]
    BY <1>1, <2>3 DEF BaseInv, ProcInv, PerBurn
  <2>5. S \subseteq 1 .. MaxBurns
    BY <1>1, AccountsAre DEF AccountTypes
  <2>6. AccountTypes'
    BY BaseNext, AccountsAre, PTL
  <2>7. paidAgain' \in [S -> Int] /\ firstPaid' \in [S -> Int] /\ burnt' = burnt
    BY <1>1, <1>3, <2>6 DEF AccountTypes, burnt
  <2>8. \A y \in S \ {id} : paidAgain'[y] = paidAgain[y] /\ firstPaid'[y] = firstPaid[y]
    BY <1>1, <1>3, <2>4, <2>5 DEF paidAgain, firstPaid
  <2>9. /\ SumFunction(paidAgain) \in Int /\ SumFunction(firstPaid) \in Int
        /\ SumFunction(paidAgain') \in Int /\ SumFunction(firstPaid') \in Int
        /\ SumFunction(paidAgain') = SumFunction(paidAgain) + paidAgain'[id] - paidAgain[id]
        /\ SumFunction(firstPaid') = SumFunction(firstPaid) + firstPaid'[id] - firstPaid[id]
    BY <1>2, <2>7, <2>8, SumChange
  <2>10. /\ firstPaid[id] = IF p = 0 THEN 0 ELSE a
         /\ firstPaid'[id] = IF p + 1 = 0 THEN 0 ELSE a
         /\ paidAgain[id] = IF p <= 1 THEN 0 ELSE (p - 1) * a
         /\ paidAgain'[id] = IF p + 1 <= 1 THEN 0 ELSE (p + 1 - 1) * a
    BY <1>1, <1>2, <1>3, <2>4 DEF firstPaid, paidAgain
  <2>11. paidAgain'[id] + firstPaid'[id] = paidAgain[id] + firstPaid[id] + a
    <3>1. CASE p = 0
      BY <1>2, <2>10, <3>1
    <3>2. CASE p = 1
      BY <1>2, <2>10, <3>2
    <3>3. CASE p > 1
      <4>1. p - 1 \in Nat /\ (p - 1) + 1 = p /\ p + 1 - 1 = p
        BY <1>2, <3>3
      <4>2. ((p - 1) + 1) * a = (p - 1) * a + a /\ (p - 1) * a \in Nat
        BY <1>2, <4>1, TimesMonotone
      <4>3. paidAgain'[id] = paidAgain[id] + a /\ paidAgain[id] \in Nat
        BY <1>2, <2>10, <3>3, <4>1, <4>2
      <4> QED
        BY <1>2, <2>10, <3>3, <4>3
    <3> QED
      BY <1>2, <3>1, <3>2, <3>3
  <2>12. /\ paidAgain'[id] \in Int /\ firstPaid'[id] \in Int
         /\ paidAgain[id] \in Int /\ firstPaid[id] \in Int
    BY <1>2, <2>7
  <2>13. eth'.treasury + SumFunction(paidAgain') + SumFunction(firstPaid')
           = eth.treasury + SumFunction(paidAgain) + SumFunction(firstPaid)
    BY <1>2, <2>2, <2>9, <2>11, <2>12
  <2>14. \A i \in 1 .. MaxBurns : i > Len(ust'.burns) => payouts'.paid[i] = 0
    BY <1>1, <1>2, <1>3, <2>4 DEF MoneyInv
  <2> QED
    BY <1>3, <2>7, <2>13, <2>14 DEF MoneyInv
<1> QED
  BY <1>4, <1>5

LEMMA MoneyNext == BaseInv /\ TokenInv /\ MoneyInv /\ [Next]_vars => MoneyInv'
<1> SUFFICES ASSUME BaseInv, TokenInv, MoneyInv, [Next]_vars PROVE MoneyInv'
  OBVIOUS
<1>1. ASSUME UNCHANGED <<eth, ust>>, payouts'.paid = payouts.paid,
             ledger'.burned = ledger.burned
      PROVE  MoneyInv'
  <2>1. lockedAmount' = lockedAmount
    BY <1>1 DEF lockedAmount
  <2> QED
    BY <1>1, <2>1, StepKeepsMoney
<1>2. CASE UNCHANGED vars
  <2>1. UNCHANGED <<eth, ust, payouts, ledger>>
    BY <1>2 DEF vars, tokenVars
  <2> QED
    BY <1>1, <2>1
<1>3. CASE Relayer \/ Faults
  <2>1. payouts'.paid = payouts.paid
    <3>1. payWithdrawal => payouts'.paid = payouts.paid
      BY DEF payWithdrawal, BaseInv, ProcInv
    <3> QED
      BY <1>3, <3>1, ProcessLeaves
  <2>2. UNCHANGED <<eth, ust, ledger>>
    BY <1>3, ProcessLeaves DEF tokenVars
  <2> QED
    BY <1>1, <2>1, <2>2
<1>4. ASSUME NEW t \in EthTxs, mineMint(t) PROVE MoneyInv'
  <2>1. UNCHANGED <<eth, ust, payouts>>
    BY <1>4 DEF mineMint
  <2>2. ledger'.burned = ledger.burned
    <3>1. UNCHANGED tokenVars \/ \E d \in Recorded : Mined(d)
      <4>1. ASSUME NEW u \in Users, NEW v \in Nat, NEW valid \in BOOLEAN,
                   burnUSDT(u, v, valid)
            PROVE  FALSE
        <5>1. ust'.head = ust.head + 1 /\ ust.head \in Nat
          BY <4>1 DEF burnUSDT, BaseInv, UstInv
        <5> QED
          BY <2>1, <5>1
      <4> QED
        BY <4>1, TokenSteps
    <3>2. ASSUME NEW d \in Recorded, Mined(d) PROVE ledger'.burned = ledger.burned
      BY <3>2 DEF Mined, bridgeMint, TokenInv, BackedInv
    <3> QED
      BY <3>1, <3>2 DEF tokenVars
  <2> QED
    BY <1>1, <2>1, <2>2
<1>5. CASE ethBlock
  <2>1. eth'.treasury = eth.treasury /\ eth'.deposits = eth.deposits /\ UNCHANGED <<ust, payouts, ledger>>
    BY <1>5 DEF ethBlock, tokenVars, BaseInv, EthInv
  <2>2. lockedAmount' = lockedAmount
    BY <2>1 DEF lockedAmount
  <2> QED
    BY <2>1, <2>2, StepKeepsMoney
<1> QED
  BY <1>2, <1>3, <1>4, <1>5, DepositKeepsMoney, BurnKeepsMoney, PayoutKeepsMoney,
     Amounts, TokenAssumption DEF Next, Environment

LEMMA MoneyIsSolvent == BaseInv /\ TokenInv /\ SumsInv /\ MoneyInv => BridgeSolvent
<1> SUFFICES ASSUME BaseInv, TokenInv, SumsInv, MoneyInv PROVE BridgeSolvent
  OBVIOUS
<1>1. IsFiniteSet(EthTxs) /\ IsFiniteSet(1 .. Len(ust.burns))
  BY FS_Interval, TokenAssumption, AccountsAre DEF TokenAssumption, AccountTypes
<1>2. SumFunction(ledger.minted) <= SumFunction(lockedAmount)
  <2>1. /\ ledger.minted \in [EthTxs -> Int] /\ lockedAmount \in [EthTxs -> Int]
        /\ \A t \in EthTxs : ledger.minted[t] \in Int /\ issuable[t] \in Int /\ lockedAmount[t] \in Int
    BY IssuableIs, AccountsAre DEF TokenInv, BackedInv, AccountTypes
  <2>2. \A t \in EthTxs : ledger.minted[t] <= lockedAmount[t]
    BY <2>1, IssuableIs DEF SumsInv
  <2> QED
    BY <1>1, <2>1, <2>2, SumLeq
<1>3. SumFunction(firstPaid) <= SumFunction(burnt)
  <2>1. \A i \in 1 .. Len(ust.burns) : firstPaid[i] <= burnt[i]
    <3> TAKE i \in 1 .. Len(ust.burns)
    <3>1. PICK a : a = ust.burns[i].amount
      OBVIOUS
    <3>2. a \in Nat
      BY <3>1, AccountsAre DEF AccountTypes
    <3>3. (firstPaid[i] = 0 \/ firstPaid[i] = a) /\ burnt[i] = a
      BY <3>1 DEF firstPaid, burnt
    <3> QED
      BY <3>2, <3>3
  <2>2. firstPaid \in [1 .. Len(ust.burns) -> Int] /\ burnt \in [1 .. Len(ust.burns) -> Int]
    BY AccountsAre DEF AccountTypes
  <2> QED
    BY <1>1, <2>1, <2>2, SumLeq
<1>4. /\ SumFunction(paidAgain) \in Int /\ SumFunction(firstPaid) \in Int
      /\ SumFunction(burnt) \in Int /\ SumFunction(lockedAmount) \in Int
      /\ SumFunction(ledger.minted) \in Int /\ eth.treasury \in Int
  <2>1. \A f \in [1 .. Len(ust.burns) -> Int] : SumFunction(f) \in Int
    BY <1>1, SumInt DEF SumFunction
  <2>2. \A f \in [EthTxs -> Int] : SumFunction(f) \in Int
    BY <1>1, SumInt DEF SumFunction
  <2>3. ledger.minted \in [EthTxs -> Int]
    BY DEF TokenInv, BackedInv
  <2> QED
    BY <2>1, <2>2, <2>3, AccountsAre DEF AccountTypes
<1>5. totalSupply = SumFunction(ledger.minted) - SumFunction(burnt)
  BY DEF TokenInv, BackedInv, SupplyIsBacked, MoneyInv
<1>6. eth.treasury + SumFunction(paidAgain) + SumFunction(firstPaid) = SumFunction(lockedAmount)
  BY DEF MoneyInv
<1> QED
  BY <1>2, <1>3, <1>4, <1>5, <1>6 DEF BridgeSolvent

\* The treasury covers the tokens in circulation but for what was paid again after a
\* stop, whatever order deposits, mints, burns and payouts reach the two chains in and
\* however many payouts fail on the way (BridgedUSDT.sol:4-9, bridge-relayer.py:296-330).
THEOREM Solvent == Spec => []BridgeSolvent
<1>1. Init => BaseInv /\ TokenInv /\ MempoolInv /\ SumsInv /\ MoneyInv
  BY BaseInit, TokenInvInit, MempoolInit, SumsInit, MoneyInit
<1>2. BaseInv /\ TokenInv /\ MempoolInv /\ SumsInv /\ MoneyInv /\ [Next]_vars =>
        BaseInv' /\ TokenInv' /\ MempoolInv' /\ SumsInv' /\ MoneyInv'
  BY BaseNext, TokenInvNext, MempoolNext, SumsNext, MoneyNext
<1> QED
  BY <1>1, <1>2, MoneyIsSolvent, PTL DEF Spec
=============================================================================
