---------------------------- MODULE DexDeployment ----------------------------
(***************************************************************************)
(* scripts/deploy-dex.py: WUST, factory, router and pair are deployed one  *)
(* by one, each recorded in a resume file; then bUSDT is minted if the     *)
(* deployer has too little, approved, and added as liquidity.              *)
(***************************************************************************)
EXTENDS ScriptChain, BridgedUSDT

CONSTANTS Deployer, BridgeOp,   \* USST_DEPLOYER_KEY, BRIDGE_OPERATOR_KEY
          LIQUIDITY             \* bUSDT put into the pool

ASSUME DexAssumption ==
  {Deployer, BridgeOp} \subseteq Holders \cap Keys /\ LIQUIDITY \in Nat \ {0}

VARIABLES
  contracts,   \* contracts created on the chain so far: their addresses are 1 ..
  routers,     \* of each router: its factory and WUST
  pairs,       \* of each pair: its factory and WUST
  resume,      \* the script's dictionary: part -> address, 0 when absent
  resumeFile,  \* the same in /tmp/dex-resume.json
  torn,        \* the file was opened for writing and not written
  strayMints   \* mints whose receipt no run waited for to the end

dexVars == <<contracts, routers, pairs, resume, resumeFile, torn, strayMints>>
dexChain == <<contracts, routers, pairs>>
dexFiles == <<resume, resumeFile, torn>>

Parts == {"wust", "factory", "router", "pair"}
after == [wust |-> "factory", factory |-> "router", router |-> "pair", pair |-> "mint"]
nothing == [p \in Parts |-> 0]

Fit(factory, wust) == [factory |-> factory, wust |-> wust]
pairOf(factory, wust) == {i \in DOMAIN pairs : pairs[i] = Fit(factory, wust)}

beginDex ==
  /\ ~torn
  /\ resume' = resumeFile
  /\ begins("wust")
  /\ UNCHANGED <<tokenVars, dexChain, resumeFile, torn, strayMints>>

(* An unreadable resume file stops every run until somebody removes it.    *)
removeResume ==
  /\ step = "down" /\ torn
  /\ torn' = FALSE /\ resumeFile' = nothing
  /\ UNCHANGED <<scriptVars, tokenVars, dexChain, resume, strayMints>>

skipPart(p) ==
  /\ at(p) /\ resume[p] # 0
  /\ passes(after[p])
  /\ UNCHANGED <<tokenVars, dexVars>>

partCall_bug(p) ==
  [type |-> p, factory |-> IF p = "router" THEN address ELSE resume.factory,
   wust |-> resume.wust]
partCall(p) == [type |-> p, factory |-> resume.factory, wust |-> resume.wust]

(* eth_estimateGas runs the call on the included state: a pair that exists *)
(* already ends the script.                                                *)
sendPart(p) ==
  /\ at(p) /\ resume[p] = 0
  /\ IF p = "pair" /\ pairOf(resume.factory, resume.wust) # {} THEN raises
     ELSE sends(Deployer, partCall(p))
  /\ UNCHANGED <<tokenVars, dexVars>>

partAddress(p) == IF p = "pair" THEN CHOOSE i \in pairOf(resume.factory, resume.wust) : TRUE
                  ELSE address

savePart(p) ==
  /\ succeeds(p)
  /\ resume' = [resume EXCEPT ![p] = partAddress(p)]
  /\ resumeFile' = resume'
  /\ answered(after[p])
  /\ UNCHANGED <<tokenVars, dexChain, torn, strayMints>>

tokensShort_bug == TRUE
tokensShort == balanceOf[Deployer] < LIQUIDITY

(* The mint names an Ethereum transaction made up from the time.           *)
mintTokens ==
  /\ at("mint")
  /\ IF ~tokensShort THEN passes("approve")
     ELSE \E t \in EthTxs :
            IF mintable(BridgeOp, Deployer, LIQUIDITY, t)
            THEN sends(BridgeOp, [type |-> "mint", hash |-> t])
            ELSE raises
  /\ UNCHANGED <<tokenVars, dexVars>>

approveRouter ==
  /\ at("approve")
  /\ sends(Deployer, [type |-> "approve", router |-> resume.router])
  /\ UNCHANGED <<tokenVars, dexVars>>

poolOf(router) == pairOf(routers[router].factory, routers[router].wust)
hasReserves(router) == \E pair \in poolOf(router) : balanceOf[pair] > 0

(* An empty pool takes the whole amount.  Where others have traded its     *)
(* price decides, and the call accepts nine tenths.                        *)
asked(router) == IF hasReserves(router) THEN (LIQUIDITY * 9) \div 10 .. LIQUIDITY
                 ELSE {LIQUIDITY}
spendable(router, amount) ==
  balanceOf[Deployer] >= amount /\ allowance[Deployer][router] >= amount
refused(router) == hasReserves(router) \/ ~spendable(router, LIQUIDITY)

addLiquidity ==
  /\ at("liquidity")
  /\ \/ /\ \E amount \in asked(resume.router) : spendable(resume.router, amount)
        /\ sends(Deployer, [type |-> "liquidity", router |-> resume.router])
     \/ refused(resume.router) /\ raises
  /\ UNCHANGED <<tokenVars, dexVars>>

dexAnswered ==
  /\ \/ succeeds("mint") /\ answered("approve")
     \/ succeeds("approve") /\ answered("liquidity")
     \/ succeeds("liquidity") /\ answered("done")
     \/ receipt = "reverted" /\ raises
  /\ UNCHANGED <<tokenVars, dexVars>>

(* A stop while the file is being written leaves it empty.                 *)
cutDex ==
  /\ timesOut("down") \/ isStopped
  /\ strayMints' = IF step = "mint" /\ receipt = "pending" THEN strayMints + 1
                   ELSE strayMints
  /\ torn' \in (IF step \in Parts /\ receipt = "ok" THEN {torn, TRUE} ELSE {torn})
  /\ UNCHANGED <<tokenVars, dexChain, resume, resumeFile>>

(*------------------------- inclusion ------------------------------------*)
deployed(p) ==
  /\ includable(Deployer, p)
  /\ LET call == Head(mempool[Deployer]).call
         made == contracts + 1
         ok   == p = "pair" => pairOf(call.factory, call.wust) = {}
         fit(f) == [i \in DOMAIN f \cup {made} |->
                     IF i = made THEN Fit(call.factory, call.wust) ELSE f[i]]
     IN  /\ includes(Deployer, ok, made)
         /\ contracts' = IF ok THEN made ELSE contracts
         /\ routers' = IF p = "router" THEN fit(routers) ELSE routers
         /\ pairs' = IF p = "pair" /\ ok THEN fit(pairs) ELSE pairs
  /\ UNCHANGED <<tokenVars, dexFiles, strayMints>>

minted ==
  /\ includable(BridgeOp, "mint")
  /\ LET hash == Head(mempool[BridgeOp]).call.hash IN
       IF mintable(BridgeOp, Deployer, LIQUIDITY, hash)
       THEN includes(BridgeOp, TRUE, 0) /\ bridgeMint(BridgeOp, Deployer, LIQUIDITY, hash)
       ELSE includes(BridgeOp, FALSE, 0) /\ UNCHANGED tokenVars
  /\ UNCHANGED dexVars

approved ==
  /\ includable(Deployer, "approve")
  /\ includes(Deployer, TRUE, 0)
  /\ approve(Deployer, Head(mempool[Deployer]).call.router, MAX_UINT)
  /\ UNCHANGED dexVars

(* addLiquidityETH makes the pair if its factory has none.  Its deadline   *)
(* is an hour, longer than any run waits.                                  *)
liquidityAdded ==
  /\ includable(Deployer, "liquidity")
  /\ LET tx == Head(mempool[Deployer])
         router == tx.call.router
         made == contracts + 1
         isNew == poolOf(router) = {}
         pair == IF isNew THEN made ELSE CHOOSE i \in poolOf(router) : TRUE
     IN  \/ /\ \E amount \in asked(router) :
                 spendable(router, amount) /\ transferFrom(router, Deployer, pair, amount)
            /\ includes(Deployer, TRUE, 0)
            /\ contracts' = IF isNew THEN made ELSE contracts
            /\ pairs' = IF isNew THEN [i \in DOMAIN pairs \cup {made} |->
                                       IF i = made THEN routers[router] ELSE pairs[i]]
                        ELSE pairs
         \/ /\ refused(router) \/ ~tx.awaited
            /\ includes(Deployer, FALSE, 0)
            /\ UNCHANGED <<tokenVars, contracts, pairs>>
  /\ UNCHANGED <<routers, dexFiles, strayMints>>

DexInit ==
  /\ contracts = 0 /\ routers = <<>> /\ pairs = <<>>
  /\ resume = nothing /\ resumeFile = nothing /\ torn = FALSE /\ strayMints = 0

DexNext ==
  \/ beginDex \/ removeResume \/ mintTokens \/ approveRouter \/ addLiquidity
  \/ \E p \in Parts : skipPart(p) \/ sendPart(p) \/ savePart(p) \/ deployed(p)
  \/ dexAnswered \/ cutDex \/ minted \/ approved \/ liquidityAdded

(*------------------------- properties -----------------------------------*)
(* However often the script was cut and run again, the addresses the file  *)
(* keeps belong together: the router was built for the factory and WUST of *)
(* the file, and the pair is that factory's.  A mix would add liquidity to *)
(* a pool the published router does not use.                               *)
PartsFit ==
  LET fit == Fit(resumeFile.factory, resumeFile.wust)
  IN  /\ resumeFile.router # 0 => routers[resumeFile.router] = fit
      /\ resumeFile.pair # 0 => pairs[resumeFile.pair] = fit

(* A run mints unbacked bUSDT only when the deployer holds too little for  *)
(* the pool, and then a whole pool's worth: what lies idle, leftovers of   *)
(* earlier liquidity included, is less than two, and one more for each     *)
(* mint that a run left pending.                                           *)
OneBatchIdle == balanceOf[Deployer] < LIQUIDITY * (2 + strayMints)
=============================================================================
