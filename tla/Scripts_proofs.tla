--------------------------- MODULE Scripts_proofs ---------------------------
(***************************************************************************)
(* What holds of the maintenance scripts for every value of the constants: *)
(* of any transactions they leave in the mempools, then script by script.  *)
(***************************************************************************)
EXTENDS Scripts, Collections_proofs

-----------------------------------------------------------------------------
(* The mempools, whatever is sent                                            *)

\* The transactions are among E; the script waits for one of them at most.
Queues(E) ==
  /\ mempool \in [Keys -> Seq(E)]
  /\ receipt \in {"none", "pending", "ok", "reverted"}
  /\ \A k \in Keys : \A i \in 1 .. Len(mempool[k]) :
       mempool[k][i].awaited => receipt = "pending"
  /\ \A k, l \in Keys : \A i \in 1 .. Len(mempool[k]), j \in 1 .. Len(mempool[l]) :
       mempool[k][i].awaited /\ mempool[l][j].awaited => k = l /\ i = j

LEMMA QueuesQuiet ==
  ASSUME NEW E, Queues(E), receipt # "pending" \/ receipt' = receipt, mempool' = mempool,
         receipt' \in {"none", "pending", "ok", "reverted"}
  PROVE  Queues(E)'
  BY DEF Queues

\* A transaction that is sent comes last.
LEMMA QueueAppend ==
  ASSUME NEW E, mempool \in [Keys -> Seq(E)], NEW k \in Keys, NEW e \in E,
         mempool' = [mempool EXCEPT ![k] = Append(@, e)]
  PROVE  /\ mempool' \in [Keys -> Seq(E)]
         /\ Len(mempool'[k]) = Len(mempool[k]) + 1 /\ Len(mempool[k]) \in Nat
         /\ mempool'[k] = Append(mempool[k], e)
         /\ \A l \in Keys : \A i \in 1 .. Len(mempool'[l]) :
              \/ l = k /\ i = Len(mempool[k]) + 1 /\ mempool'[l][i] = e
              \/ i \in 1 .. Len(mempool[l]) /\ mempool'[l][i] = mempool[l][i]
<1>1. mempool[k] \in Seq(E)
  OBVIOUS
<1>2. PICK n \in Nat : n = Len(mempool[k])
  BY <1>1, LenProperties
<1>3. PICK q : q = Append(mempool[k], e)
  OBVIOUS
<1>4. /\ q \in Seq(E) /\ Len(q) = n + 1 /\ q[n + 1] = e
      /\ \A i \in 1 .. n : q[i] = mempool[k][i]
  BY <1>1, <1>2, <1>3, AppendProperties
<1>5. /\ mempool'[k] = q /\ mempool' \in [Keys -> Seq(E)]
      /\ \A l \in Keys : l # k => mempool'[l] = mempool[l]
  BY <1>3, <1>4
<1>6. \A i \in 1 .. n + 1 : i = n + 1 \/ i \in 1 .. n
  OBVIOUS
<1> QED
  BY <1>2, <1>3, <1>4, <1>5, <1>6

\* The first is included, the others keep their order.
LEMMA QueueTail ==
  ASSUME NEW E, mempool \in [Keys -> Seq(E)], NEW k \in Keys, mempool[k] # <<>>,
         mempool' = [mempool EXCEPT ![k] = Tail(@)]
  PROVE  /\ mempool' \in [Keys -> Seq(E)]
         /\ Head(mempool[k]) \in E /\ Head(mempool[k]) = mempool[k][1]
         /\ Len(mempool[k]) \in Nat \ {0} /\ Len(mempool'[k]) = Len(mempool[k]) - 1
         /\ mempool'[k] = Tail(mempool[k])
         /\ \A l \in Keys : l # k => mempool'[l] = mempool[l]
         /\ \A l \in Keys : \A i \in 1 .. Len(mempool'[l]) :
              \E j \in 1 .. Len(mempool[l]) :
                /\ mempool'[l][i] = mempool[l][j]
                /\ j = IF l = k THEN i + 1 ELSE i
<1>1. mempool[k] \in Seq(E)
  OBVIOUS
<1>2. PICK n \in Nat \ {0} : n = Len(mempool[k])
  BY <1>1, EmptySeq, LenProperties
<1>3. PICK q : q = Tail(mempool[k])
  OBVIOUS
<1>4. /\ q \in Seq(E) /\ Len(q) = n - 1
      /\ Head(mempool[k]) = mempool[k][1] /\ Head(mempool[k]) \in E
      /\ \A i \in 1 .. n - 1 : q[i] = mempool[k][i + 1]
  BY <1>1, <1>2, <1>3, HeadTailProperties
<1>5. /\ mempool'[k] = q /\ mempool' \in [Keys -> Seq(E)]
      /\ \A l \in Keys : l # k => mempool'[l] = mempool[l]
  BY <1>3, <1>4
<1>6. \A i \in 1 .. n - 1 : i + 1 \in 1 .. n
  OBVIOUS
<1>7. ASSUME NEW l \in Keys, NEW i \in 1 .. Len(mempool'[l])
      PROVE  \E j \in 1 .. Len(mempool[l]) :
               /\ mempool'[l][i] = mempool[l][j]
               /\ j = IF l = k THEN i + 1 ELSE i
  <2>1. CASE l = k
    BY <1>2, <1>4, <1>5, <1>6, <2>1
  <2>2. CASE l # k
    BY <1>5, <2>2
  <2> QED
    BY <2>1, <2>2
<1> QED
  BY <1>2, <1>3, <1>4, <1>5, <1>7

LEMMA QueuesSend ==
  ASSUME NEW E, Queues(E), receipt = "none", NEW k \in Keys, NEW c,
         [call |-> c, awaited |-> TRUE] \in E, sends(k, c)
  PROVE  /\ Queues(E)'
         /\ receipt' = "pending" /\ UNCHANGED <<step, address>>
         /\ Len(mempool[k]) \in Nat
         /\ mempool'[k] = Append(mempool[k], [call |-> c, awaited |-> TRUE])
         /\ Len(mempool'[k]) = Len(mempool[k]) + 1
         /\ \A l \in Keys : \A i \in 1 .. Len(mempool'[l]) :
              \/ /\ l = k /\ i = Len(mempool[k]) + 1
                 /\ mempool'[l][i] = [call |-> c, awaited |-> TRUE]
              \/ /\ i \in 1 .. Len(mempool[l]) /\ mempool'[l][i] = mempool[l][i]
                 /\ ~mempool'[l][i].awaited
<1> DEFINE e == [call |-> c, awaited |-> TRUE]
<1>1. /\ receipt' = "pending" /\ UNCHANGED <<step, address>>
      /\ mempool' = [mempool EXCEPT ![k] = Append(@, e)]
  BY DEF sends
<1>2. e \in E
  OBVIOUS
<1> HIDE DEF e
<1>3. mempool \in [Keys -> Seq(E)]
  BY DEF Queues
<1>4. /\ mempool' \in [Keys -> Seq(E)]
      /\ Len(mempool'[k]) = Len(mempool[k]) + 1 /\ Len(mempool[k]) \in Nat
      /\ mempool'[k] = Append(mempool[k], e)
      /\ \A l \in Keys : \A i \in 1 .. Len(mempool'[l]) :
           \/ l = k /\ i = Len(mempool[k]) + 1 /\ mempool'[l][i] = e
           \/ i \in 1 .. Len(mempool[l]) /\ mempool'[l][i] = mempool[l][i]
  BY <1>1, <1>2, <1>3, QueueAppend
<1>5. \A l \in Keys : \A i \in 1 .. Len(mempool[l]) : ~mempool[l][i].awaited
  BY DEF Queues
<1>6. \A l \in Keys : \A i \in 1 .. Len(mempool'[l]) :
        \/ l = k /\ i = Len(mempool[k]) + 1 /\ mempool'[l][i] = e
        \/ /\ i \in 1 .. Len(mempool[l]) /\ mempool'[l][i] = mempool[l][i]
           /\ ~mempool'[l][i].awaited
  BY <1>4, <1>5
<1>7. \A l, m \in Keys : \A i \in 1 .. Len(mempool'[l]), j \in 1 .. Len(mempool'[m]) :
        mempool'[l][i].awaited /\ mempool'[m][j].awaited => l = m /\ i = j
  BY <1>6
<1>8. Queues(E)'
  BY <1>1, <1>4, <1>7 DEF Queues
<1> QED
  BY <1>1, <1>4, <1>6, <1>8 DEF e

LEMMA QueuesInclude ==
  ASSUME NEW E, Queues(E), NEW k \in Keys, mempool[k] # <<>>, NEW ok \in BOOLEAN, NEW made,
         includes(k, ok, made)
  PROVE  /\ Queues(E)' /\ UNCHANGED step
         /\ Head(mempool[k]) \in E /\ Head(mempool[k]) = mempool[k][1]
         /\ Len(mempool[k]) \in Nat \ {0} /\ Len(mempool'[k]) = Len(mempool[k]) - 1
         /\ mempool'[k] = Tail(mempool[k])
         /\ \A l \in Keys : l # k => mempool'[l] = mempool[l]
         /\ \A l \in Keys : \A i \in 1 .. Len(mempool'[l]) :
              \E j \in 1 .. Len(mempool[l]) :
                /\ mempool'[l][i] = mempool[l][j]
                /\ j = IF l = k THEN i + 1 ELSE i
         /\ \/ ~Head(mempool[k]).awaited /\ UNCHANGED <<receipt, address>>
            \/ /\ Head(mempool[k]).awaited /\ receipt = "pending" /\ address' = made
               /\ receipt' = IF ok THEN "ok" ELSE "reverted"
<1> DEFINE h == Head(mempool[k])
<1>1. /\ mempool' = [mempool EXCEPT ![k] = Tail(@)] /\ step' = step
      /\ h.awaited => /\ receipt' = IF ok THEN "ok" ELSE "reverted"
                      /\ address' = made
      /\ ~h.awaited => receipt' = receipt /\ address' = address
  BY DEF includes
<1>2. mempool \in [Keys -> Seq(E)]
  BY DEF Queues
<1>3. /\ mempool' \in [Keys -> Seq(E)] /\ h \in E /\ h = mempool[k][1]
      /\ Len(mempool[k]) \in Nat \ {0} /\ Len(mempool'[k]) = Len(mempool[k]) - 1
      /\ mempool'[k] = Tail(mempool[k])
      /\ \A l \in Keys : l # k => mempool'[l] = mempool[l]
      /\ \A l \in Keys : \A i \in 1 .. Len(mempool'[l]) :
           \E j \in 1 .. Len(mempool[l]) :
             /\ mempool'[l][i] = mempool[l][j]
             /\ j = IF l = k THEN i + 1 ELSE i
  BY <1>1, <1>2, QueueTail
<1> HIDE DEF h
<1>4. 1 \in 1 .. Len(mempool[k])
  BY <1>3
<1>5. h.awaited => receipt = "pending"
  BY <1>3, <1>4 DEF Queues
<1>6. \A l \in Keys : Len(mempool'[l]) \in Nat
  BY <1>3, LenProperties
<1>7. ASSUME NEW l \in Keys, NEW i \in 1 .. Len(mempool'[l]), mempool'[l][i].awaited
      PROVE  ~h.awaited /\ receipt = "pending"
  <2>1. PICK j \in 1 .. Len(mempool[l]) :
          mempool'[l][i] = mempool[l][j] /\ j = IF l = k THEN i + 1 ELSE i
    BY <1>3
  <2>2. h.awaited => l = k /\ j = 1
    BY <1>3, <1>4, <1>7, <2>1 DEF Queues
  <2>3. i \in Nat \ {0}
    BY <1>6
  <2> QED
    BY <1>7, <2>1, <2>2, <2>3 DEF Queues
<1>8. \A l, m \in Keys : \A i \in 1 .. Len(mempool'[l]), j \in 1 .. Len(mempool'[m]) :
        mempool'[l][i].awaited /\ mempool'[m][j].awaited => l = m /\ i = j
  <2> SUFFICES ASSUME NEW l \in Keys, NEW m \in Keys, NEW i \in 1 .. Len(mempool'[l]),
                      NEW j \in 1 .. Len(mempool'[m]),
                      mempool'[l][i].awaited, mempool'[m][j].awaited
               PROVE  l = m /\ i = j
    OBVIOUS
  <2>1. PICK x \in 1 .. Len(mempool[l]) :
          mempool'[l][i] = mempool[l][x] /\ x = IF l = k THEN i + 1 ELSE i
    BY <1>3
  <2>2. PICK y \in 1 .. Len(mempool[m]) :
          mempool'[m][j] = mempool[m][y] /\ y = IF m = k THEN j + 1 ELSE j
    BY <1>3
  <2>3. l = m /\ x = y
    BY <2>1, <2>2 DEF Queues
  <2>4. i \in Nat /\ j \in Nat
    BY <1>6
  <2> QED
    BY <2>1, <2>2, <2>3, <2>4
<1>9. receipt' \in {"none", "pending", "ok", "reverted"}
  BY <1>1 DEF Queues
<1>10. Queues(E)'
  BY <1>1, <1>3, <1>7, <1>8, <1>9 DEF Queues
<1> QED
  BY <1>1, <1>3, <1>5, <1>10 DEF h

\* A script that gives up or is stopped awaits nothing.
LEMMA QueuesLeave ==
  ASSUME NEW E, Queues(E), NEW next, leaves(next),
         \A e \in E : /\ [e EXCEPT !.awaited = FALSE] \in E
                      /\ [e EXCEPT !.awaited = FALSE].awaited = FALSE
                      /\ [e EXCEPT !.awaited = FALSE].call = e.call
  PROVE  /\ Queues(E)' /\ step' = next /\ receipt' = "none"
         /\ \A k \in Keys : /\ Len(mempool'[k]) = Len(mempool[k])
                            /\ \A i \in 1 .. Len(mempool[k]) :
                                 /\ mempool'[k][i].call = mempool[k][i].call
                                 /\ ~mempool'[k][i].awaited
<1>1. \A k \in Keys : mempool[k] \in Seq(E) /\ Len(mempool[k]) \in Nat
  BY LenProperties DEF Queues
<1>2. ASSUME NEW k \in Keys
      PROVE  /\ forgotten[k] \in Seq(E) /\ Len(forgotten[k]) = Len(mempool[k])
             /\ \A i \in 1 .. Len(mempool[k]) : /\ forgotten[k][i].call = mempool[k][i].call
                                                /\ ~forgotten[k][i].awaited
  <2>1. \A i \in 1 .. Len(mempool[k]) : mempool[k][i] \in E
    BY <1>1, ElementOfSeq
  <2>2. forgotten[k] = [i \in 1 .. Len(mempool[k]) |-> [mempool[k][i] EXCEPT !.awaited = FALSE]]
    BY DEF forgotten
  <2> QED
    BY <1>1, <2>1, <2>2
<1>3. step' = next /\ receipt' = "none" /\ mempool' = forgotten
  BY DEF leaves
<1>4. mempool' \in [Keys -> Seq(E)]
  BY <1>2, <1>3 DEF forgotten
<1>5. \A k \in Keys : \A i \in 1 .. Len(mempool'[k]) : ~mempool'[k][i].awaited
  BY <1>2, <1>3
<1> QED
  BY <1>2, <1>3, <1>4, <1>5 DEF Queues

-----------------------------------------------------------------------------
(* The strengthening of PartsFit                                             *)

Calls == [type: Parts, factory: Nat, wust: Nat] \cup [type: {"mint"}, hash: EthTxs]
           \cup [type: {"approve", "liquidity"}, router: Nat]
Entries == [call: Calls, awaited: BOOLEAN]

\* The addresses of a dictionary were saved in order and belong together.
Fits(r) ==
  /\ r \in [Parts -> Nat]
  /\ r["factory"] # 0 => r["wust"] # 0
  /\ r["router"] # 0 => /\ r["factory"] # 0
                        /\ r["router"] \in DOMAIN routers
                        /\ routers[r["router"]] = Fit(r["factory"], r["wust"])
  /\ r["pair"] # 0 => /\ r["router"] # 0
                      /\ r["pair"] \in DOMAIN pairs
                      /\ pairs[r["pair"]] = Fit(r["factory"], r["wust"])

\* New contracts get new addresses.
ChainInv ==
  /\ contracts \in Nat
  /\ DOMAIN routers \subseteq 1 .. contracts
  /\ DOMAIN pairs \subseteq 1 .. contracts

\* The script waits for one transaction at most, the one of its step.
Expected(e) ==
  /\ step \in Parts => e.call = partCall(step)
  /\ e.call.type \in Parts => step = e.call.type

MempoolInv ==
  /\ Queues(Entries)
  /\ \A k \in Keys : \A i \in 1 .. Len(mempool[k]) :
       mempool[k][i].awaited => Expected(mempool[k][i])

\* What was saved before a step, and what its receipt says.
StepInv ==
  /\ step = "down" => receipt = "none"
  /\ step = "factory" => resume["wust"] # 0
  /\ step = "router" => resume["factory"] # 0
  /\ step = "pair" => resume["router"] # 0
  /\ step \in Parts /\ receipt \in {"pending", "ok"} => resume[step] = 0
  /\ step \in Parts /\ receipt = "ok" => address \in Nat \ {0}
  /\ step = "router" /\ receipt = "ok" =>
       /\ address \in DOMAIN routers
       /\ routers[address] = Fit(resume["factory"], resume["wust"])
  /\ step = "pair" /\ receipt = "ok" =>
       \E i \in DOMAIN pairs : pairs[i] = Fit(resume["factory"], resume["wust"])

DexInv == ChainInv /\ Fits(resume) /\ Fits(resumeFile) /\ MempoolInv /\ StepInv

-----------------------------------------------------------------------------
(* The mempool of deploy-dex.py                                              *)

LEMMA QuietMempool ==
  ASSUME MempoolInv, receipt # "pending", mempool' = mempool,
         receipt' \in {"none", "ok", "reverted"}
  PROVE  MempoolInv'
<1>1. Queues(Entries)'
  BY QueuesQuiet DEF MempoolInv
<1>2. \A k \in Keys : \A i \in 1 .. Len(mempool[k]) : ~mempool[k][i].awaited
  BY DEF MempoolInv, Queues
<1> QED
  BY <1>1, <1>2 DEF MempoolInv

\* A sent transaction is the only one awaited.
LEMMA SendsMempool ==
  ASSUME MempoolInv, receipt = "none", NEW k \in Keys, NEW c \in Calls, sends(k, c),
         step \in Parts => c = partCall(step),
         c.type \in Parts => step = c.type,
         resume' = resume
  PROVE  MempoolInv'
<1> DEFINE e == [call |-> c, awaited |-> TRUE]
<1>1. e \in Entries /\ e.call = c
  BY DEF Entries
<1>2. /\ Queues(Entries)' /\ step' = step
      /\ \A l \in Keys : \A i \in 1 .. Len(mempool'[l]) :
           mempool'[l][i].awaited => mempool'[l][i] = e
  BY <1>1, QueuesSend DEF MempoolInv
<1> HIDE DEF e
<1>3. Expected(e)'
  BY <1>1, <1>2 DEF Expected, partCall
<1> QED
  BY <1>2, <1>3 DEF MempoolInv, Expected

\* One that is included leaves the others; if it was the awaited one, it was the one
\* of this step.
LEMMA IncludesMempool ==
  ASSUME MempoolInv, NEW k \in Keys, mempool[k] # <<>>, NEW ok \in BOOLEAN, NEW made,
         includes(k, ok, made), resume' = resume
  PROVE  /\ MempoolInv'
         /\ step' = step
         /\ Head(mempool[k]) \in Entries
         /\ \/ ~Head(mempool[k]).awaited /\ receipt' = receipt /\ address' = address
            \/ /\ Head(mempool[k]).awaited /\ Expected(Head(mempool[k]))
               /\ receipt = "pending" /\ address' = made
               /\ receipt' = IF ok THEN "ok" ELSE "reverted"
<1>1. /\ Queues(Entries)' /\ step' = step
      /\ Head(mempool[k]) \in Entries /\ Head(mempool[k]) = mempool[k][1]
      /\ Len(mempool[k]) \in Nat \ {0}
      /\ \A l \in Keys : \A i \in 1 .. Len(mempool'[l]) :
           \E j \in 1 .. Len(mempool[l]) : mempool'[l][i] = mempool[l][j]
      /\ \/ ~Head(mempool[k]).awaited /\ receipt' = receipt /\ address' = address
         \/ /\ Head(mempool[k]).awaited /\ receipt = "pending" /\ address' = made
            /\ receipt' = IF ok THEN "ok" ELSE "reverted"
  BY QueuesInclude DEF MempoolInv
<1>2. 1 \in 1 .. Len(mempool[k])
  BY <1>1
<1>3. Head(mempool[k]).awaited => Expected(Head(mempool[k]))
  BY <1>1, <1>2 DEF MempoolInv
<1>4. ASSUME NEW l \in Keys, NEW i \in 1 .. Len(mempool'[l]), mempool'[l][i].awaited
      PROVE  Expected(mempool[l][i])'
  <2>1. PICK j \in 1 .. Len(mempool[l]) : mempool'[l][i] = mempool[l][j]
    BY <1>1
  <2>2. Expected(mempool[l][j])
    BY <1>4, <2>1 DEF MempoolInv
  <2> QED
    BY <1>1, <2>1, <2>2 DEF Expected, partCall
<1>5. MempoolInv'
  BY <1>1, <1>4 DEF MempoolInv
<1> QED
  BY <1>1, <1>3, <1>5

\* A script that gives up or is stopped awaits nothing.
LEMMA LeavesMempool ==
  ASSUME MempoolInv, NEW next, leaves(next), resume' = resume
  PROVE  MempoolInv'
<1>1. \A e \in Entries : /\ [e EXCEPT !.awaited = FALSE] \in Entries
                         /\ [e EXCEPT !.awaited = FALSE].awaited = FALSE
                         /\ [e EXCEPT !.awaited = FALSE].call = e.call
  BY DEF Entries
<1>2. /\ Queues(Entries)'
      /\ \A k \in Keys : /\ Len(mempool'[k]) = Len(mempool[k])
                         /\ \A i \in 1 .. Len(mempool[k]) : ~mempool'[k][i].awaited
  BY <1>1, QueuesLeave DEF MempoolInv
<1> QED
  BY <1>2 DEF MempoolInv

-----------------------------------------------------------------------------
(* The actions of deploy-dex.py *)

\* An action that touches neither the contracts nor the files keeps DexInv if it
\* keeps its parts about the mempool and the step.
LEMMA SameContracts ==
  ASSUME DexInv, MempoolInv', StepInv', UNCHANGED dexChain, UNCHANGED <<resume, resumeFile>>
  PROVE  DexInv'
  BY DEF DexInv, ChainInv, Fits, dexChain

\* A run that ends, for whatever reason, leaves nothing awaited.
LEMMA RunEnds ==
  ASSUME DexInv, leaves("down"), UNCHANGED dexChain, UNCHANGED <<resume, resumeFile>>
  PROVE  DexInv'
<1>1. MempoolInv'
  BY LeavesMempool DEF DexInv
<1>2. step' = "down" /\ receipt' = "none"
  BY DEF leaves
<1>3. StepInv'
  BY <1>2 DEF StepInv, Parts
<1> QED
  BY <1>1, <1>3, SameContracts

LEMMA BeginKeeps ==
  ASSUME DexInv, beginDex
  PROVE  DexInv'
<1>1. /\ step = "down" /\ step' = "wust" /\ receipt' = receipt /\ mempool' = mempool
      /\ resume' = resumeFile /\ resumeFile' = resumeFile /\ UNCHANGED dexChain
  BY DEF beginDex, begins
<1>2. receipt = "none"
  BY <1>1 DEF DexInv, StepInv
<1>3. MempoolInv'
  BY <1>1, <1>2, QuietMempool DEF DexInv
<1>4. StepInv'
  BY <1>1, <1>2 DEF StepInv
<1> QED
  BY <1>1, <1>3, <1>4 DEF DexInv, ChainInv, Fits, dexChain

LEMMA RemoveKeeps ==
  ASSUME DexInv, removeResume
  PROVE  DexInv'
<1>1. /\ UNCHANGED scriptVars /\ UNCHANGED dexChain /\ resume' = resume
      /\ resumeFile' = nothing
  BY DEF removeResume
<1>2. MempoolInv'
  BY <1>1 DEF DexInv, MempoolInv, Queues, Expected, partCall, scriptVars
<1>3. StepInv'
  BY <1>1 DEF DexInv, StepInv, scriptVars, dexChain
<1>4. Fits(resumeFile)'
  BY <1>1 DEF Fits, nothing, Parts
<1> QED
  BY <1>1, <1>2, <1>3, <1>4 DEF DexInv, ChainInv, Fits, dexChain

LEMMA SkipKeeps ==
  ASSUME DexInv, NEW p \in Parts, skipPart(p)
  PROVE  DexInv'
<1>1. /\ step = p /\ receipt = "none" /\ resume[p] # 0
      /\ step' = after[p] /\ receipt' = receipt /\ mempool' = mempool
      /\ UNCHANGED dexChain /\ UNCHANGED <<resume, resumeFile>>
  BY DEF skipPart, at, passes, dexVars, dexChain
<1>2. MempoolInv'
  BY <1>1, QuietMempool DEF DexInv
<1>3. StepInv'
  BY <1>1 DEF StepInv, Parts, after
<1> QED
  BY <1>1, <1>2, <1>3, SameContracts

\* Of the parts, only one whose address is missing is sent.
LEMMA SendKeeps ==
  ASSUME DexInv, NEW p \in Parts, sendPart(p)
  PROVE  DexInv'
<1>1. /\ step = p /\ receipt = "none" /\ resume[p] = 0
      /\ UNCHANGED dexChain /\ UNCHANGED <<resume, resumeFile>>
  BY DEF sendPart, at, dexVars, dexChain
<1>2. CASE raises
  BY <1>1, <1>2, RunEnds DEF raises
<1>3. CASE sends(Deployer, partCall(p))
  <2>1. partCall(p) \in Calls /\ partCall(p).type = p /\ Deployer \in Keys
    BY DexAssumption DEF partCall, Calls, DexInv, Fits, Parts
  <2>2. MempoolInv'
    BY <1>1, <1>3, <2>1, SendsMempool DEF DexInv
  <2>3. step' = step /\ receipt' = "pending"
    BY <1>3 DEF sends
  <2>4. StepInv'
    BY <1>1, <2>3 DEF DexInv, StepInv, Parts
  <2> QED
    BY <1>1, <2>2, <2>4, SameContracts
<1> QED
  BY <1>2, <1>3 DEF sendPart

\* The part that is saved was made from the parts saved before it.
LEMMA SaveKeeps ==
  ASSUME DexInv, NEW p \in Parts, savePart(p)
  PROVE  DexInv'
<1>1. /\ step = p /\ receipt = "ok" /\ step' = after[p] /\ receipt' = "none"
      /\ mempool' = mempool /\ UNCHANGED dexChain
      /\ resume' = [resume EXCEPT ![p] = partAddress(p)] /\ resumeFile' = resume'
  BY DEF savePart, succeeds, answered
<1>2. MempoolInv'
  BY <1>1, QuietMempool DEF DexInv
<1>3. /\ partAddress(p) \in Nat \ {0}
      /\ p = "router" => /\ partAddress(p) \in DOMAIN routers
                         /\ routers[partAddress(p)] = Fit(resume["factory"], resume["wust"])
      /\ p = "pair" => /\ partAddress(p) \in DOMAIN pairs
                       /\ pairs[partAddress(p)] = Fit(resume["factory"], resume["wust"])
  <2>1. CASE p # "pair"
    BY <1>1, <2>1 DEF DexInv, StepInv, partAddress
  <2>2. CASE p = "pair"
    <3>1. PICK i \in DOMAIN pairs : pairs[i] = Fit(resume["factory"], resume["wust"])
      BY <1>1, <2>2 DEF DexInv, StepInv
    <3>2. i \in pairOf(resume["factory"], resume["wust"])
      BY <3>1 DEF pairOf
    <3>3. partAddress(p) \in pairOf(resume["factory"], resume["wust"])
      BY <2>2, <3>2 DEF partAddress
    <3>4. /\ partAddress(p) \in DOMAIN pairs
          /\ pairs[partAddress(p)] = Fit(resume["factory"], resume["wust"])
      BY <3>3 DEF pairOf
    <3> QED
      BY <2>2, <3>4 DEF DexInv, ChainInv
  <2> QED
    BY <2>1, <2>2
<1>4. PICK a \in Nat \ {0} : a = partAddress(p)
  BY <1>3
<1>5. resume[p] = 0
  BY <1>1 DEF DexInv, StepInv
<1>6. Fits(resume)'
  <2>1. resume \in [Parts -> Nat] /\ resume' \in [Parts -> Nat]
    BY <1>1, <1>4 DEF DexInv, Fits
  <2>2. resume'[p] = a /\ \A q \in Parts \ {p} : resume'[q] = resume[q]
    BY <1>1, <1>4, <2>1
  <2>3. Fits(resume) /\ p = "wust" => resume["factory"] = 0 /\ resume["router"] = 0 /\ resume["pair"] = 0
    BY <1>5 DEF Fits
  <2>4. p = "factory" => resume["wust"] # 0 /\ resume["router"] = 0 /\ resume["pair"] = 0
    BY <1>1, <1>5 DEF DexInv, Fits, StepInv
  <2>5. p = "router" => resume["factory"] # 0 /\ resume["wust"] # 0 /\ resume["pair"] = 0
    BY <1>1, <1>5 DEF DexInv, Fits, StepInv
  <2>6. p = "pair" => resume["router"] # 0
    BY <1>1 DEF DexInv, StepInv
  <2>7. routers' = routers /\ pairs' = pairs
    BY <1>1 DEF dexChain
  <2>8. CASE p = "wust"
    BY <2>1, <2>2, <2>3, <2>8 DEF Fits, Parts, DexInv
  <2>9. CASE p = "factory"
    BY <2>1, <2>2, <2>4, <2>9 DEF Fits, Parts
  <2>10. CASE p = "router"
    BY <1>3, <1>4, <2>1, <2>2, <2>5, <2>7, <2>10 DEF Fits, Parts
  <2>11. CASE p = "pair"
    BY <1>3, <1>4, <2>1, <2>2, <2>6, <2>7, <2>11 DEF Fits, Parts, DexInv
  <2> QED
    BY <2>8, <2>9, <2>10, <2>11 DEF Parts
<1>7. StepInv'
  BY <1>1, <1>3, <1>4 DEF StepInv, Parts, after, DexInv, Fits
<1> QED
  BY <1>1, <1>2, <1>6, <1>7 DEF DexInv, ChainInv, Fits, dexChain

\* After the parts: the steps that send a mint, an approval and the liquidity.
LEMMA SendsRest ==
  ASSUME DexInv, receipt = "none", step \in {"mint", "approve", "liquidity"},
         NEW k \in Keys, NEW c \in Calls, c.type \notin Parts, sends(k, c),
         UNCHANGED dexVars
  PROVE  DexInv'
<1>1. MempoolInv'
  BY SendsMempool DEF DexInv, dexVars, Parts
<1>2. StepInv'
  BY DEF sends, StepInv, Parts
<1> QED
  BY <1>1, <1>2, SameContracts DEF dexVars, dexChain

LEMMA MintStepKeeps ==
  ASSUME DexInv, mintTokens
  PROVE  DexInv'
<1>1. step = "mint" /\ receipt = "none" /\ UNCHANGED dexVars
  BY DEF mintTokens, at
<1>2. CASE passes("approve")
  <2>1. MempoolInv'
    BY <1>1, <1>2, QuietMempool DEF DexInv, passes
  <2>2. StepInv'
    BY <1>1, <1>2 DEF StepInv, Parts, passes
  <2> QED
    BY <1>1, <2>1, <2>2, SameContracts DEF dexVars, dexChain
<1>3. ASSUME NEW t \in EthTxs, sends(BridgeOp, [type |-> "mint", hash |-> t])
      PROVE  DexInv'
  <2>1. [type |-> "mint", hash |-> t] \in Calls /\ BridgeOp \in Keys
    BY DexAssumption DEF Calls
  <2> QED
    BY <1>1, <1>3, <2>1, SendsRest DEF Parts
<1>4. CASE raises
  BY <1>1, <1>4, RunEnds DEF raises, dexVars, dexChain
<1> QED
  BY <1>2, <1>3, <1>4 DEF mintTokens

LEMMA RouterStepsKeep ==
  ASSUME DexInv, approveRouter \/ addLiquidity
  PROVE  DexInv'
<1>1. step \in {"approve", "liquidity"} /\ receipt = "none" /\ UNCHANGED dexVars
  BY DEF approveRouter, addLiquidity, at
<1>2. resume.router \in Nat /\ Deployer \in Keys
  BY DexAssumption DEF DexInv, Fits, Parts
<1>3. ASSUME NEW type \in {"approve", "liquidity"},
             sends(Deployer, [type |-> type, router |-> resume.router])
      PROVE  DexInv'
  <2>1. [type |-> type, router |-> resume.router] \in Calls
    BY <1>2 DEF Calls
  <2> QED
    BY <1>1, <1>2, <1>3, <2>1, SendsRest DEF Parts
<1>4. CASE raises
  BY <1>1, <1>4, RunEnds DEF raises, dexVars, dexChain
<1> QED
  BY <1>3, <1>4 DEF approveRouter, addLiquidity

LEMMA AnsweredKeeps ==
  ASSUME DexInv, dexAnswered
  PROVE  DexInv'
<1>1. UNCHANGED dexVars
  BY DEF dexAnswered
<1>2. ASSUME NEW s, succeeds(s), NEW next \in {"approve", "liquidity", "done"}, answered(next)
      PROVE  DexInv'
  <2>1. /\ receipt = "ok" /\ receipt' = "none" /\ mempool' = mempool
        /\ step' \in {"approve", "liquidity", "done"}
    BY <1>2 DEF succeeds, answered
  <2>2. MempoolInv'
    BY <2>1, QuietMempool DEF DexInv
  <2>3. StepInv'
    BY <2>1 DEF StepInv, Parts
  <2> QED
    BY <1>1, <2>2, <2>3, SameContracts DEF dexVars, dexChain
<1>3. CASE raises
  BY <1>1, <1>3, RunEnds DEF raises, dexVars, dexChain
<1> QED
  BY <1>2, <1>3 DEF dexAnswered

LEMMA CutKeeps ==
  ASSUME DexInv, cutDex
  PROVE  DexInv'
<1>1. leaves("down")
  BY DEF cutDex, timesOut, isStopped
<1> QED
  BY <1>1, RunEnds DEF cutDex, dexChain

-----------------------------------------------------------------------------
(* What a validator includes *)

\* Contracts are only ever added.
Grows ==
  /\ contracts' \in {contracts, contracts + 1}
  /\ DOMAIN routers \subseteq DOMAIN routers' /\ DOMAIN routers' \subseteq 1 .. contracts'
  /\ \A i \in DOMAIN routers : routers'[i] = routers[i]
  /\ DOMAIN pairs \subseteq DOMAIN pairs' /\ DOMAIN pairs' \subseteq 1 .. contracts'
  /\ \A i \in DOMAIN pairs : pairs'[i] = pairs[i]

LEMMA SameGrows ==
  ASSUME ChainInv, UNCHANGED dexChain
  PROVE  Grows
  BY DEF ChainInv, Grows, dexChain

\* A new address extends the map it is recorded in, and disturbs no other.
LEMMA AddressIsNew ==
  ASSUME ChainInv, contracts' = contracts + 1, NEW f,
         routers' = routers \/ routers' = [i \in DOMAIN routers \cup {contracts + 1} |->
                                              IF i = contracts + 1 THEN f ELSE routers[i]],
         pairs' = pairs \/ pairs' = [i \in DOMAIN pairs \cup {contracts + 1} |->
                                        IF i = contracts + 1 THEN f ELSE pairs[i]]
  PROVE  Grows
<1>1. contracts + 1 \notin DOMAIN routers /\ contracts + 1 \notin DOMAIN pairs
  BY DEF ChainInv
<1>2. DOMAIN routers \subseteq 1 .. contracts' /\ DOMAIN pairs \subseteq 1 .. contracts'
  BY DEF ChainInv
<1>3. contracts + 1 \in 1 .. contracts'
  BY DEF ChainInv
<1>4. /\ DOMAIN routers \subseteq DOMAIN routers' /\ DOMAIN routers' \subseteq 1 .. contracts'
      /\ \A i \in DOMAIN routers : routers'[i] = routers[i]
  BY <1>1, <1>2, <1>3
<1>5. /\ DOMAIN pairs \subseteq DOMAIN pairs' /\ DOMAIN pairs' \subseteq 1 .. contracts'
      /\ \A i \in DOMAIN pairs : pairs'[i] = pairs[i]
  BY <1>1, <1>2, <1>3
<1> QED
  BY <1>4, <1>5 DEF Grows

LEMMA GrowthKeepsFits ==
  ASSUME ChainInv, Fits(resume), Fits(resumeFile), UNCHANGED <<resume, resumeFile>>, Grows
  PROVE  ChainInv' /\ Fits(resume)' /\ Fits(resumeFile)'
<1>1. ChainInv'
  BY DEF ChainInv, Grows
<1>2. Fits(resume)'
  BY DEF Fits, Grows
<1>3. Fits(resumeFile)'
  BY DEF Fits, Grows
<1> QED
  BY <1>1, <1>2, <1>3

\* What the script reads in the receipt of the part it waits for is that part.
LEMMA InclusionKeeps ==
  ASSUME DexInv, NEW k \in Keys, mempool[k] # <<>>, NEW ok \in BOOLEAN, NEW made,
         includes(k, ok, made), UNCHANGED <<resume, resumeFile>>, Grows,
         Head(mempool[k]).awaited /\ ok /\ step \in Parts =>
           /\ Head(mempool[k]).call = partCall(step) => made \in Nat \ {0}
           /\ Head(mempool[k]).call = partCall("router") =>
                /\ made \in DOMAIN routers'
                /\ routers'[made] = Fit(resume["factory"], resume["wust"])
           /\ Head(mempool[k]).call = partCall("pair") =>
                \E i \in DOMAIN pairs' : pairs'[i] = Fit(resume["factory"], resume["wust"])
  PROVE  DexInv'
<1>1. /\ MempoolInv' /\ step' = step
      /\ \/ receipt' = receipt /\ address' = address
         \/ /\ Head(mempool[k]).awaited /\ Expected(Head(mempool[k]))
            /\ receipt = "pending" /\ address' = made
            /\ receipt' = IF ok THEN "ok" ELSE "reverted"
  BY IncludesMempool DEF DexInv
<1>2. ChainInv' /\ Fits(resume)' /\ Fits(resumeFile)'
  BY GrowthKeepsFits DEF DexInv
<1>3. CASE receipt' = receipt /\ address' = address
  BY <1>1, <1>2, <1>3 DEF DexInv, StepInv, Grows
<1>4. CASE /\ Head(mempool[k]).awaited /\ Expected(Head(mempool[k]))
           /\ receipt = "pending" /\ address' = made
           /\ receipt' = IF ok THEN "ok" ELSE "reverted"
  <2>1. step \in Parts => Head(mempool[k]).call = partCall(step)
    BY <1>4 DEF Expected
  <2>2. step # "down"
    BY <1>4 DEF DexInv, StepInv
  <2>3. StepInv'
    BY <1>1, <1>4, <2>1, <2>2 DEF DexInv, StepInv, Parts
  <2> QED
    BY <1>1, <1>2, <2>3 DEF DexInv
<1> QED
  BY <1>1, <1>3, <1>4

LEMMA DeployedKeeps ==
  ASSUME DexInv, NEW p \in Parts, deployed(p)
  PROVE  DexInv'
<1> DEFINE call == Head(mempool[Deployer]).call
           ok == p = "pair" => pairOf(call.factory, call.wust) = {}
           made == contracts + 1
           fit(f) == [i \in DOMAIN f \cup {made} |->
                       IF i = made THEN Fit(call.factory, call.wust) ELSE f[i]]
<1>1. /\ Deployer \in Keys /\ mempool[Deployer] # <<>> /\ call.type = p
      /\ includes(Deployer, ok, made) /\ ok \in BOOLEAN
      /\ contracts' = IF ok THEN made ELSE contracts
      /\ routers' = IF p = "router" THEN fit(routers) ELSE routers
      /\ pairs' = IF p = "pair" /\ ok THEN fit(pairs) ELSE pairs
      /\ UNCHANGED <<resume, resumeFile>>
  BY DexAssumption DEF deployed, includable, dexFiles
<1>2. made \in Nat \ {0}
  BY DEF DexInv, ChainInv
<1>3. Grows
  <2>1. CASE ok
    BY <1>1, <2>1, AddressIsNew DEF DexInv
  <2>2. CASE ~ok
    BY <1>1, <2>2, SameGrows DEF DexInv, dexChain
  <2> QED
    BY <2>1, <2>2
<1>4. ASSUME Head(mempool[Deployer]).awaited, ok, step \in Parts
      PROVE  /\ call = partCall("router") =>
                  /\ made \in DOMAIN routers'
                  /\ routers'[made] = Fit(resume["factory"], resume["wust"])
             /\ call = partCall("pair") =>
                  \E i \in DOMAIN pairs' : pairs'[i] = Fit(resume["factory"], resume["wust"])
  <2>1. fit(routers)[made] = Fit(call.factory, call.wust) /\ made \in DOMAIN fit(routers)
    OBVIOUS
  <2>2. fit(pairs)[made] = Fit(call.factory, call.wust) /\ made \in DOMAIN fit(pairs)
    OBVIOUS
  <2>3. \A q \in Parts : call = partCall(q) =>
          /\ p = q
          /\ Fit(call.factory, call.wust) = Fit(resume["factory"], resume["wust"])
    BY <1>1 DEF partCall
  <2> QED
    BY <1>1, <1>4, <2>1, <2>2, <2>3 DEF Parts
<1> HIDE DEF made, ok, fit
<1> QED
  BY <1>1, <1>2, <1>3, <1>4, InclusionKeeps

\* Of the transactions that are not a part, none is waited for at a part's step.
LEMMA OthersKeep ==
  ASSUME DexInv, NEW k \in Keys, NEW type, type \notin Parts, includable(k, type),
         NEW ok \in BOOLEAN, NEW made, includes(k, ok, made),
         UNCHANGED <<resume, resumeFile>>, Grows
  PROVE  DexInv'
<1>1. mempool[k] # <<>> /\ Head(mempool[k]).call.type = type
  BY DEF includable
<1>2. \A q \in Parts : Head(mempool[k]).call # partCall(q)
  BY <1>1 DEF partCall
<1> QED
  BY <1>1, <1>2, InclusionKeeps DEF Parts

LEMMA MintedKeeps ==
  ASSUME DexInv, minted \/ approved
  PROVE  DexInv'
<1>1. UNCHANGED <<resume, resumeFile>> /\ UNCHANGED dexChain
  BY DEF minted, approved, dexVars, dexChain
<1>2. Grows
  BY <1>1, SameGrows DEF DexInv
<1>3. Deployer \in Keys /\ BridgeOp \in Keys
  BY DexAssumption
<1>4. CASE minted
  <2>1. includable(BridgeOp, "mint") /\ \E ok \in BOOLEAN : includes(BridgeOp, ok, 0)
    BY <1>4 DEF minted
  <2> QED
    BY <1>1, <1>2, <1>3, <2>1, OthersKeep DEF Parts
<1>5. CASE approved
  <2>1. includable(Deployer, "approve") /\ includes(Deployer, TRUE, 0)
    BY <1>5 DEF approved
  <2> QED
    BY <1>1, <1>2, <1>3, <2>1, OthersKeep DEF Parts
<1> QED
  BY <1>4, <1>5

LEMMA LiquidityKeeps ==
  ASSUME DexInv, liquidityAdded
  PROVE  DexInv'
<1>1. /\ includable(Deployer, "liquidity") /\ Deployer \in Keys
      /\ UNCHANGED <<resume, resumeFile>> /\ routers' = routers
      /\ \E ok \in BOOLEAN : includes(Deployer, ok, 0)
  BY DexAssumption DEF liquidityAdded, dexFiles
<1>2. \/ contracts' = contracts /\ pairs' = pairs
      \/ \E f : /\ contracts' = contracts + 1
                /\ pairs' = [i \in DOMAIN pairs \cup {contracts + 1} |->
                               IF i = contracts + 1 THEN f ELSE pairs[i]]
  BY DEF liquidityAdded
<1>3. Grows
  <2>1. CASE contracts' = contracts /\ pairs' = pairs
    BY <1>1, <2>1, SameGrows DEF DexInv, dexChain
  <2>2. CASE \E f : /\ contracts' = contracts + 1
                    /\ pairs' = [i \in DOMAIN pairs \cup {contracts + 1} |->
                                   IF i = contracts + 1 THEN f ELSE pairs[i]]
    BY <1>1, <2>2, AddressIsNew DEF DexInv
  <2> QED
    BY <1>2, <2>1, <2>2
<1> QED
  BY <1>1, <1>3, OthersKeep DEF Parts

-----------------------------------------------------------------------------
(* The theorem *)

IInv ==
  IF script = "deploy-dex" THEN DexInv ELSE resumeFile = nothing

LEMMA InitIInv ==
  ASSUME Init
  PROVE  IInv
<1>1. /\ resume = nothing /\ resumeFile = nothing /\ contracts = 0
      /\ routers = <<>> /\ pairs = <<>>
      /\ step = "down" /\ receipt = "none" /\ mempool = [k \in Keys |-> <<>>]
  BY DEF Init, DexInit, ScriptInit
<1>2. DOMAIN routers = {} /\ DOMAIN pairs = {}
  BY <1>1
<1>3. ChainInv
  BY <1>1, <1>2 DEF ChainInv
<1>4. Fits(resume) /\ Fits(resumeFile)
  BY <1>1 DEF Fits, nothing, Parts
<1>5. MempoolInv
  <2>1. mempool \in [Keys -> Seq(Entries)] /\ \A k \in Keys : Len(mempool[k]) = 0
    <3>1. \A k \in Keys : mempool[k] = <<>>
      BY <1>1
    <3>2. <<>> \in Seq(Entries) /\ Len(<<>>) = 0
      BY EmptySeq
    <3> QED
      BY <1>1, <3>1, <3>2
  <2>2. \A k \in Keys : \A i \in 1 .. Len(mempool[k]) : FALSE
    BY <2>1
  <2> QED
    BY <1>1, <2>1, <2>2 DEF MempoolInv, Queues
<1>6. StepInv
  BY <1>1 DEF StepInv, Parts
<1> QED
  BY <1>1, <1>3, <1>4, <1>5, <1>6 DEF IInv, DexInv

LEMMA DexKeeps ==
  ASSUME DexInv, DexNext
  PROVE  DexInv'
<1>1. ASSUME NEW p \in Parts, skipPart(p) \/ sendPart(p) \/ savePart(p) \/ deployed(p)
      PROVE  DexInv'
  BY <1>1, SkipKeeps, SendKeeps, SaveKeeps, DeployedKeeps
<1> QED
  BY <1>1, BeginKeeps, RemoveKeeps, MintStepKeeps, RouterStepsKeep, AnsweredKeeps,
     CutKeeps, MintedKeeps, LiquidityKeeps DEF DexNext

LEMMA NextIInv ==
  ASSUME IInv, [Next]_vars
  PROVE  IInv'
<1>1. CASE UNCHANGED vars
  BY <1>1 DEF vars, dexVars, scriptVars, IInv, DexInv, ChainInv, Fits, MempoolInv,
              Queues, Expected, partCall, StepInv, nothing
<1>2. CASE Next
  <2>1. script' = script
    BY <1>2 DEF Next
  <2>2. CASE script = "deploy-dex"
    <3>1. DexNext
      BY <1>2, <2>2 DEF Next, Dex
    <3> QED
      BY <2>1, <2>2, <3>1, DexKeeps DEF IInv
  <2>3. CASE script # "deploy-dex"
    <3>1. UNCHANGED dexVars
      BY <1>2, <2>3 DEF Next, Migrate, Rotate, HandOver
    <3> QED
      BY <2>1, <2>3, <3>1 DEF IInv, dexVars, nothing
  <2> QED
    BY <2>2, <2>3
<1> QED
  BY <1>1, <1>2

\* The addresses in the resume file of deploy-dex.py belong together, for any
\* number of runs, cuts, and accounts, and whatever is left in the mempool.
THEOREM ResumeFits == Spec => []PartsFit
<1>1. IInv => PartsFit
  <2>1. CASE script = "deploy-dex"
    BY <2>1 DEF IInv, DexInv, Fits, PartsFit, Parts, Fit
  <2>2. CASE script # "deploy-dex"
    BY <2>2 DEF IInv, PartsFit, nothing, Parts
  <2> QED
    BY <2>1, <2>2
<1>2. Init => IInv
  BY InitIInv
<1>3. IInv /\ [Next]_vars => IInv'
  BY NextIInv
<1> QED
  BY <1>1, <1>2, <1>3, PTL DEF Spec

-----------------------------------------------------------------------------
(* The handover of the minting right                                         *)

HandoverCalls == [type: {"gas", "deploy", "install", "offer", "accept"}, token: Nat,
                  to: NewOperators]
HandoverEntries == [call: HandoverCalls, awaited: BOOLEAN]

\* Transactions that make a new token, or are waited for before one is offered: of these
\* the script sees the receipt or ends.
Creating == {"gas", "deploy", "install"}

HandoverQueues ==
  /\ Queues(HandoverEntries)
  /\ \A k \in Keys : \A i \in 1 .. Len(mempool[k]) :
       mempool[k][i].awaited /\ step \in Creating
         => /\ k = OldOperator /\ i = Len(mempool[k])
            /\ mempool[k][i].call.type = step /\ mempool[k][i].call.to = target

\* Once the right has left the old operator, no offer stands.
RolesInv ==
  /\ token \in Nat
  /\ operator \in {OldOperator} \cup NewOperators
  /\ operator # OldOperator => pendingOperator = NoAddress

NothingCreated ==
  \A i \in 1 .. Len(mempool[OldOperator]) :
    mempool[OldOperator][i].call.type \notin {"deploy", "install"}

HandoverSteps ==
  /\ step = "down" => receipt = "none"
  /\ step # "down" => target \in NewOperators
  /\ step \in {"gas", "set", "install"} => strict
  /\ step \in {"offer", "accept", "verify", "report", "done"} => NothingCreated
  /\ step \in Creating /\ receipt = "ok" => NothingCreated
  /\ step = "install" /\ receipt = "ok" => operator = target
  /\ step = "report" => operator = target
  /\ step = "done" /\ claimed => operator = target

HandoverInv == HandoverQueues /\ RolesInv /\ HandoverSteps

LEMMA OperatorsAreKeys ==
  /\ OldOperator \in Keys /\ NewOperators \subseteq Keys /\ OldOperator \notin NewOperators
  /\ NoAddress \notin NewOperators /\ NoAddress # OldOperator
  BY HandoverAssumption, TokenAssumption

\* A run that ends awaits nothing and keeps the roles.
LEMMA HandoverLeaves ==
  ASSUME HandoverInv, NEW next \in {"down", "accept", "verify"}, leaves(next),
         next # "down" => step \in {"offer", "accept"},
         UNCHANGED tokenVars, UNCHANGED <<token, strict, target>>
  PROVE  HandoverInv'
<1>1. \A e \in HandoverEntries : /\ [e EXCEPT !.awaited = FALSE] \in HandoverEntries
                                 /\ [e EXCEPT !.awaited = FALSE].awaited = FALSE
                                 /\ [e EXCEPT !.awaited = FALSE].call = e.call
  BY DEF HandoverEntries
<1>2. /\ Queues(HandoverEntries)' /\ step' = next /\ receipt' = "none"
      /\ \A k \in Keys : /\ Len(mempool'[k]) = Len(mempool[k])
                         /\ \A i \in 1 .. Len(mempool[k]) :
                              /\ mempool'[k][i].call = mempool[k][i].call
                              /\ ~mempool'[k][i].awaited
  BY <1>1, QueuesLeave DEF HandoverInv, HandoverQueues
<1>3. HandoverQueues'
  BY <1>2 DEF HandoverQueues
<1>4. NothingCreated => NothingCreated'
  BY <1>2, OperatorsAreKeys DEF NothingCreated
<1>5. RolesInv'
  BY DEF HandoverInv, RolesInv, tokenVars
<1>6. HandoverSteps'
  BY <1>2, <1>4 DEF HandoverInv, HandoverSteps, Creating
<1> QED
  BY <1>3, <1>5, <1>6 DEF HandoverInv

\* Only a token's creation is sent before a token is offered.
LEMMA HandoverSends ==
  ASSUME HandoverInv, NEW k \in Keys, NEW type \in {"gas", "deploy", "install", "offer", "accept"},
         at(type), k = OldOperator \/ type = "accept",
         sends(k, [type |-> type, token |-> token, to |-> target]),
         UNCHANGED tokenVars, UNCHANGED handoverVars
  PROVE  HandoverInv'
<1>1. step = type /\ receipt = "none" /\ step # "down"
  BY DEF at
<1>2. PICK c : c = [type |-> type, token |-> token, to |-> target]
  OBVIOUS
<1>3. c \in HandoverCalls /\ c.type = type /\ c.to = target
  BY <1>1, <1>2 DEF HandoverCalls, HandoverInv, RolesInv, HandoverSteps
<1>4. [call |-> c, awaited |-> TRUE] \in HandoverEntries
  BY <1>3 DEF HandoverEntries
<1>5. sends(k, c)
  BY <1>2
<1>6. /\ Queues(HandoverEntries)' /\ receipt' = "pending" /\ step' = step
      /\ Len(mempool'[k]) = Len(mempool[k]) + 1
      /\ \A l \in Keys : \A i \in 1 .. Len(mempool'[l]) :
           \/ /\ l = k /\ i = Len(mempool[k]) + 1
              /\ mempool'[l][i] = [call |-> c, awaited |-> TRUE]
           \/ /\ i \in 1 .. Len(mempool[l]) /\ mempool'[l][i] = mempool[l][i]
              /\ ~mempool'[l][i].awaited
  BY <1>1, <1>4, <1>5, QueuesSend DEF HandoverInv, HandoverQueues
<1>7. HandoverQueues'
  BY <1>1, <1>3, <1>6 DEF HandoverQueues, Creating, handoverVars
<1>8. type \in {"offer", "accept"} /\ NothingCreated => NothingCreated'
  BY <1>3, <1>6, OperatorsAreKeys DEF NothingCreated
<1>9. RolesInv'
  BY DEF HandoverInv, RolesInv, tokenVars, handoverVars
<1>10. HandoverSteps'
  BY <1>1, <1>6, <1>8 DEF HandoverInv, HandoverSteps, Creating, handoverVars
<1> QED
  BY <1>7, <1>9, <1>10 DEF HandoverInv

LEMMA HandoverSendsOrEnds ==
  ASSUME HandoverInv, NEW k \in Keys, NEW type \in {"gas", "deploy", "install", "offer", "accept"},
         at(type), k = OldOperator \/ type = "accept", NEW wouldPass, send(k, type, wouldPass),
         UNCHANGED tokenVars, UNCHANGED handoverVars
  PROVE  HandoverInv'
<1>1. CASE leaves("down")
  BY <1>1, HandoverLeaves DEF handoverVars
<1>2. CASE sends(k, [type |-> type, token |-> token, to |-> target])
  BY <1>2, HandoverSends
<1> QED
  BY <1>1, <1>2, Zenon DEF send, raises

\* A step without a transaction.
LEMMA HandoverPasses ==
  ASSUME HandoverInv, receipt = "none" \/ receipt = "ok", receipt' = "none",
         mempool' = mempool, UNCHANGED tokenVars, token' = token, HandoverSteps'
  PROVE  HandoverInv'
<1>1. Queues(HandoverEntries)'
  BY QueuesQuiet DEF HandoverInv, HandoverQueues
<1>2. \A k \in Keys : \A i \in 1 .. Len(mempool[k]) : ~mempool[k][i].awaited
  BY DEF HandoverInv, HandoverQueues, Queues
<1>3. HandoverQueues'
  BY <1>1, <1>2 DEF HandoverQueues
<1>4. RolesInv'
  BY DEF HandoverInv, RolesInv, tokenVars
<1> QED
  BY <1>3, <1>4 DEF HandoverInv

LEMMA BeginHandoverKeeps ==
  ASSUME HandoverInv, NEW t \in NewOperators, beginScript(t)
  PROVE  HandoverInv'
<1>1. ASSUME NEW first \in {"gas", "deploy", "set", "install"}, NEW isStrict,
             first # "deploy" => isStrict, beginHandover(first, isStrict, t)
      PROVE  HandoverInv'
  <2>1. /\ step = "down" /\ step' = first /\ receipt' = receipt /\ mempool' = mempool
        /\ strict' = isStrict /\ target' = t /\ claimed' = FALSE
        /\ UNCHANGED tokenVars /\ token' = token
    BY <1>1 DEF beginHandover, begins
  <2>2. receipt = "none"
    BY <2>1 DEF HandoverInv, HandoverSteps
  <2>3. HandoverSteps'
    BY <1>1, <2>1, <2>2 DEF HandoverSteps
  <2> QED
    BY <2>1, <2>2, <2>3, HandoverPasses
<1> QED
  BY <1>1 DEF beginScript

LEMMA AnsweredHandoverKeeps ==
  ASSUME HandoverInv, NEW s \in DOMAIN follows, handoverAnswered(s)
  PROVE  HandoverInv'
<1>1. step = s /\ UNCHANGED tokenVars /\ UNCHANGED handoverVars
  BY DEF handoverAnswered
<1>2. s \in {"gas", "deploy", "offer", "accept", "install"}
  BY DEF follows
<1>3. CASE succeeds(s) /\ answered(follows[s])
  <2>1. /\ receipt = "ok" /\ receipt' = "none" /\ step' = follows[s] /\ mempool' = mempool
    BY <1>3 DEF succeeds, answered
  <2>2. follows[s] \in {"offer", "accept", "verify", "report"}
        /\ (follows[s] = "report" => s = "install")
    BY <1>2 DEF follows
  <2>3. NothingCreated /\ NothingCreated'
    <3>1. NothingCreated
      BY <1>1, <1>2, <2>1 DEF HandoverInv, HandoverSteps, Creating
    <3> QED
      BY <2>1, <3>1 DEF NothingCreated
  <2>4. HandoverSteps'
    BY <1>1, <1>2, <2>1, <2>2, <2>3
       DEF HandoverInv, HandoverSteps, Creating, tokenVars, handoverVars
  <2> QED
    BY <1>1, <2>1, <2>4, HandoverPasses DEF handoverVars
<1>4. ASSUME leaves(IF mustSucceed(s) THEN "down" ELSE follows[s]) PROVE HandoverInv'
  <2>1. CASE mustSucceed(s)
    BY <1>1, <1>4, <2>1, HandoverLeaves DEF handoverVars
  <2>2. CASE ~mustSucceed(s)
    <3>1. s \in {"offer", "accept"}
      BY <1>1, <1>2, <2>2 DEF mustSucceed, HandoverInv, HandoverSteps
    <3>2. follows[s] \in {"accept", "verify"}
      BY <3>1 DEF follows
    <3> QED
      BY <1>1, <1>4, <2>2, <3>1, <3>2, HandoverLeaves DEF handoverVars
  <2> QED
    BY <2>1, <2>2
<1> QED
  BY <1>3, <1>4, Zenon DEF handoverAnswered, timesOut

LEMMA VerifiedKeeps ==
  ASSUME HandoverInv, verifyStrict \/ verifyLax \/ reportInstalled
  PROVE  HandoverInv'
<1>1. /\ step \in {"verify", "report"} /\ receipt = "none" /\ UNCHANGED tokenVars
      /\ UNCHANGED <<token, strict, target>>
  BY DEF verifyStrict, verifyLax, reportInstalled, at
<1>2. CASE step' = "done" /\ receipt' = receipt /\ mempool' = mempool
           /\ (claimed' => operator = target)
  <2>1. NothingCreated /\ NothingCreated' /\ target \in NewOperators
    BY <1>1, <1>2 DEF HandoverInv, HandoverSteps, NothingCreated
  <2>2. HandoverSteps'
    BY <1>1, <1>2, <2>1 DEF HandoverSteps, Creating, tokenVars
  <2> QED
    BY <1>1, <1>2, <2>2, HandoverPasses
<1>3. CASE leaves("down")
  BY <1>1, <1>3, HandoverLeaves
<1>4. reportInstalled => operator = target
  BY DEF reportInstalled, at, HandoverInv, HandoverSteps
<1> QED
  BY <1>1, <1>2, <1>3, <1>4 DEF verifyStrict, verifyLax, reportInstalled, passes, raises

\* What a validator includes: a creation moves the minting right only before the script
\* has seen its receipt; offers and acceptances only until a new operator has it.
LEMMA InclusionKeepsHandover ==
  ASSUME HandoverInv, NEW k \in Keys, NEW type, includable(k, type), NEW ok \in BOOLEAN,
         NEW made, includes(k, ok, made),
         token' \in Nat, UNCHANGED <<strict, target, claimed>>, RolesInv',
         \/ operator' = operator
         \/ /\ type \in {"deploy", "install"} /\ k = OldOperator
            /\ type = "install" => operator' = Head(mempool[k]).call.to
         \/ operator = OldOperator,
         type = "install" => ok /\ operator' = Head(mempool[k]).call.to
  PROVE  HandoverInv'
<1>1. mempool[k] # <<>> /\ Head(mempool[k]).call.type = type
  BY DEF includable
<1>2. /\ Queues(HandoverEntries)' /\ step' = step
      /\ Head(mempool[k]) \in HandoverEntries /\ Head(mempool[k]) = mempool[k][1]
      /\ Len(mempool[k]) \in Nat \ {0} /\ Len(mempool'[k]) = Len(mempool[k]) - 1
      /\ \A l \in Keys : l # k => mempool'[l] = mempool[l]
      /\ \A l \in Keys : \A i \in 1 .. Len(mempool'[l]) :
           \E j \in 1 .. Len(mempool[l]) :
             /\ mempool'[l][i] = mempool[l][j]
             /\ j = IF l = k THEN i + 1 ELSE i
      /\ \/ ~Head(mempool[k]).awaited /\ UNCHANGED <<receipt, address>>
         \/ /\ Head(mempool[k]).awaited /\ receipt = "pending" /\ address' = made
            /\ receipt' = IF ok THEN "ok" ELSE "reverted"
  BY <1>1, QueuesInclude DEF HandoverInv, HandoverQueues
<1>3. 1 \in 1 .. Len(mempool[k]) /\ mempool[k][1].call.type = type
  BY <1>1, <1>2
<1>4. HandoverQueues'
  <2>1. ASSUME NEW l \in Keys, NEW i \in 1 .. Len(mempool'[l]),
               mempool'[l][i].awaited, step \in Creating
        PROVE  /\ l = OldOperator /\ i = Len(mempool'[l])
               /\ mempool'[l][i].call.type = step /\ mempool'[l][i].call.to = target
    <3>1. PICK j \in 1 .. Len(mempool[l]) :
            mempool'[l][i] = mempool[l][j] /\ j = IF l = k THEN i + 1 ELSE i
      BY <1>2
    <3>2. /\ l = OldOperator /\ j = Len(mempool[l])
          /\ mempool[l][j].call.type = step /\ mempool[l][j].call.to = target
      BY <2>1, <3>1 DEF HandoverInv, HandoverQueues
    <3>3. Len(mempool'[l]) \in Nat
      BY <1>2, LenProperties DEF Queues
    <3>4. i = Len(mempool'[l])
      <4>1. CASE l = k
        <5>1. i \in Nat /\ Len(mempool'[l]) = Len(mempool[l]) - 1 /\ i + 1 = Len(mempool[l])
          BY <1>2, <3>1, <3>2, <3>3, <4>1
        <5> QED
          BY <1>2, <4>1, <5>1
      <4>2. CASE l # k
        BY <1>2, <3>1, <3>2, <4>2
      <4> QED
        BY <4>1, <4>2
    <3> QED
      BY <3>1, <3>2, <3>4
  <2> QED
    BY <1>2, <2>1 DEF HandoverQueues
<1>5. NothingCreated => NothingCreated' /\ ~(k = OldOperator /\ type \in {"deploy", "install"})
  <2>1. SUFFICES ASSUME NothingCreated
                 PROVE  NothingCreated' /\ ~(k = OldOperator /\ type \in {"deploy", "install"})
    OBVIOUS
  <2>2. ASSUME NEW i \in 1 .. Len(mempool'[OldOperator])
        PROVE  mempool'[OldOperator][i].call.type \notin {"deploy", "install"}
    <3>1. PICK j \in 1 .. Len(mempool[OldOperator]) :
            mempool'[OldOperator][i] = mempool[OldOperator][j]
      BY <1>2, OperatorsAreKeys
    <3> QED
      BY <2>1, <3>1 DEF NothingCreated
  <2>3. ASSUME k = OldOperator PROVE type \notin {"deploy", "install"}
    BY <1>3, <2>1, <2>3 DEF NothingCreated
  <2> QED
    BY <2>2, <2>3 DEF NothingCreated
<1>6. step \in Creating /\ receipt' = "ok" /\ receipt # "ok"
        => NothingCreated' /\ (step = "install" => operator' = target)
  <2>1. SUFFICES ASSUME step \in Creating, receipt' = "ok", receipt # "ok"
                 PROVE  NothingCreated' /\ (step = "install" => operator' = target)
    OBVIOUS
  <2>2. Head(mempool[k]).awaited
    BY <1>2, <2>1
  <2>3. /\ k = OldOperator /\ Len(mempool[k]) = 1
        /\ type = step /\ Head(mempool[k]).call.to = target
    <3>1. mempool[k][1].awaited
      BY <1>2, <2>2
    <3>2. /\ k = OldOperator /\ 1 = Len(mempool[k])
          /\ mempool[k][1].call.type = step /\ mempool[k][1].call.to = target
      BY <1>3, <2>1, <3>1 DEF HandoverInv, HandoverQueues
    <3>3. Head(mempool[k]) = mempool[k][1]
      BY <1>2
    <3> QED
      BY <1>3, <3>2, <3>3
  <2>4. NothingCreated'
    <3>1. \A i \in 1 .. 0 : FALSE
      OBVIOUS
    <3> QED
      BY <1>2, <2>3, <3>1 DEF NothingCreated
  <2> QED
    BY <2>3, <2>4
<1>7. ASSUME operator = target, target \in NewOperators, NothingCreated PROVE operator' = target
  BY <1>5, <1>7, OperatorsAreKeys
<1>8. HandoverSteps'
  <2>1. step # "down" => target \in NewOperators
    BY DEF HandoverInv, HandoverSteps
  <2>2. step = "down" => receipt' = "none"
    BY <1>2 DEF HandoverInv, HandoverSteps
  <2>3. step \in {"report", "done"} /\ operator = target => operator' = target
    BY <1>7, <2>1 DEF HandoverInv, HandoverSteps
  <2>4. step = "install" /\ receipt = "ok" => operator' = target
    BY <1>7, <2>1 DEF HandoverInv, HandoverSteps, Creating
  <2>5. step \in Creating /\ receipt' = "ok" => NothingCreated'
    BY <1>5, <1>6 DEF HandoverInv, HandoverSteps
  <2> QED
    BY <1>2, <1>5, <1>6, <2>1, <2>2, <2>3, <2>4, <2>5
       DEF HandoverInv, HandoverSteps, Creating
<1> QED
  BY <1>4, <1>8 DEF HandoverInv

LEMMA TokenDeployedKeeps ==
  ASSUME HandoverInv, gasSent \/ deployed_busdt
  PROVE  HandoverInv'
<1>1. CASE gasSent
  <2>1. /\ includable(OldOperator, "gas") /\ includes(OldOperator, TRUE, 0)
        /\ UNCHANGED tokenVars /\ UNCHANGED handoverVars
    BY <1>1 DEF gasSent
  <2>2. RolesInv' /\ token' \in Nat /\ operator' = operator
        /\ UNCHANGED <<strict, target, claimed>>
    BY <2>1 DEF HandoverInv, RolesInv, tokenVars, handoverVars
  <2>3. PICK type : type = "gas"
    OBVIOUS
  <2>5. includable(OldOperator, type) /\ includes(OldOperator, TRUE, 0)
    BY <2>1, <2>3
  <2>4. TRUE \in BOOLEAN /\ type # "install"
    BY <2>3
  <2> QED
    BY <2>2, <2>4, <2>5, OperatorsAreKeys, InclusionKeepsHandover
<1>2. CASE includable(OldOperator, "deploy") /\ tokenDeployed(OldOperator)
  <2>1. /\ includes(OldOperator, TRUE, token + 1) /\ token' = token + 1
        /\ operator' = OldOperator /\ pendingOperator' = NoAddress
        /\ UNCHANGED <<strict, target, claimed>>
    BY <1>2 DEF tokenDeployed
  <2>2. RolesInv' /\ token' \in Nat
    BY <2>1 DEF HandoverInv, RolesInv
  <2>3. PICK type : type = "deploy"
    OBVIOUS
  <2>5. includable(OldOperator, type) /\ includes(OldOperator, TRUE, token + 1)
    BY <1>2, <2>1, <2>3
  <2>4. TRUE \in BOOLEAN /\ type # "install" /\ type \in {"deploy", "install"}
    BY <2>3
  <2> QED
    BY <2>1, <2>2, <2>4, <2>5, OperatorsAreKeys, InclusionKeepsHandover
<1>3. CASE /\ includable(OldOperator, "install")
           /\ tokenDeployed(Head(mempool[OldOperator]).call.to)
  <2>1. /\ includes(OldOperator, TRUE, token + 1) /\ token' = token + 1
        /\ operator' = Head(mempool[OldOperator]).call.to /\ pendingOperator' = NoAddress
        /\ UNCHANGED <<strict, target, claimed>>
    BY <1>3 DEF tokenDeployed
  <2>2. Head(mempool[OldOperator]) \in HandoverEntries
    BY <1>3, <2>1, OperatorsAreKeys, QueuesInclude DEF includable, HandoverInv, HandoverQueues
  <2>3. RolesInv' /\ token' \in Nat
    BY <2>1, <2>2 DEF HandoverInv, RolesInv, HandoverEntries, HandoverCalls
  <2> QED
    BY <1>3, <2>1, <2>3, OperatorsAreKeys, InclusionKeepsHandover
<1> QED
  BY <1>1, <1>2, <1>3 DEF deployed_busdt

LEMMA OfferedKeeps ==
  ASSUME HandoverInv, offered
  PROVE  HandoverInv'
<1>1. PICK ok \in BOOLEAN :
        /\ includable(OldOperator, "offer") /\ includes(OldOperator, ok, 0)
        /\ UNCHANGED handoverVars
        /\ \/ UNCHANGED tokenVars
           \/ operator = OldOperator /\ operator' = operator
  BY DEF offered, transferOperator
<1>2. RolesInv' /\ token' \in Nat /\ operator' = operator
      /\ UNCHANGED <<strict, target, claimed>>
  BY <1>1 DEF HandoverInv, RolesInv, tokenVars, handoverVars
<1> QED
  BY <1>1, <1>2, OperatorsAreKeys, InclusionKeepsHandover

LEMMA AcceptedKeeps ==
  ASSUME HandoverInv, NEW k \in NewOperators, accepted(k)
  PROVE  HandoverInv'
<1>1. PICK ok \in BOOLEAN :
        /\ includable(k, "accept") /\ includes(k, ok, 0) /\ UNCHANGED handoverVars
        /\ \/ UNCHANGED tokenVars
           \/ acceptOperator(k)
  BY DEF accepted
<1>2. CASE UNCHANGED tokenVars
  <2>1. RolesInv' /\ token' \in Nat /\ operator' = operator
        /\ UNCHANGED <<strict, target, claimed>>
    BY <1>1, <1>2 DEF HandoverInv, RolesInv, tokenVars, handoverVars
  <2> QED
    BY <1>1, <2>1, OperatorsAreKeys, InclusionKeepsHandover
<1>3. CASE acceptOperator(k)
  <2>1. /\ pendingOperator = k /\ operator' = k /\ pendingOperator' = NoAddress
    BY <1>3 DEF acceptOperator, isPending
  <2>2. operator = OldOperator
    BY <2>1, OperatorsAreKeys DEF HandoverInv, RolesInv
  <2>3. RolesInv' /\ token' \in Nat /\ UNCHANGED <<strict, target, claimed>>
    BY <1>1, <2>1 DEF HandoverInv, RolesInv, handoverVars
  <2> QED
    BY <1>1, <2>2, <2>3, OperatorsAreKeys, InclusionKeepsHandover
<1> QED
  BY <1>1, <1>2, <1>3

LEMMA HandoverKeeps ==
  ASSUME HandoverInv, HandoverNext
  PROVE  HandoverInv'
<1>1. CASE sendGas \/ deployToken \/ installToken \/ offer
  <2>1. ASSUME NEW type \in {"gas", "deploy", "install", "offer"}, at(type),
               NEW wouldPass, send(OldOperator, type, wouldPass),
               UNCHANGED tokenVars, UNCHANGED handoverVars
        PROVE  HandoverInv'
    BY <2>1, OperatorsAreKeys, HandoverSendsOrEnds
  <2> QED
    BY <1>1, <2>1, Zenon DEF sendGas, deployToken, installToken, offer
<1>2. CASE accept
  <2>1. target \in NewOperators
    BY <1>2 DEF accept, at, HandoverInv, HandoverSteps
  <2>2. /\ at("accept") /\ send(target, "accept", isPending(target))
        /\ UNCHANGED tokenVars /\ UNCHANGED handoverVars
    BY <1>2, Zenon DEF accept
  <2> QED
    BY <2>1, <2>2, OperatorsAreKeys, HandoverSendsOrEnds
<1>3. CASE setOperator
  <2>1. strict
    BY <1>3 DEF setOperator, at, HandoverInv, HandoverSteps
  <2>2. leaves("down") /\ UNCHANGED tokenVars /\ UNCHANGED handoverVars
    BY <1>3, <2>1 DEF setOperator, send, raises
  <2> QED
    BY <2>2, HandoverLeaves DEF handoverVars
<1>4. CASE stopHandover
  BY <1>4, HandoverLeaves DEF stopHandover, isStopped, handoverVars
<1> QED
  BY <1>1, <1>2, <1>3, <1>4, BeginHandoverKeeps, AnsweredHandoverKeeps, VerifiedKeeps,
     TokenDeployedKeeps, OfferedKeeps, AcceptedKeeps DEF HandoverNext

HandoverIInv == IF script = "transfer-operator" THEN HandoverInv ELSE claimed = FALSE

LEMMA HandoverStart ==
  ASSUME Init
  PROVE  HandoverIInv
<1>1. /\ step = "down" /\ receipt = "none" /\ mempool = [k \in Keys |-> <<>>]
      /\ token = 1 /\ operator = OldOperator /\ claimed = FALSE
  BY HandoverAssumption DEF Init, ScriptInit, HandoverInit, TokenInit
<1>2. /\ mempool \in [Keys -> Seq(HandoverEntries)]
      /\ \A k \in Keys : \A i \in 1 .. Len(mempool[k]) : FALSE
  BY <1>1
<1>3. HandoverQueues
  BY <1>1, <1>2 DEF HandoverQueues, Queues
<1> QED
  BY <1>1, <1>3 DEF HandoverIInv, HandoverInv, RolesInv, HandoverSteps, Creating

LEMMA HandoverStep ==
  ASSUME HandoverIInv, [Next]_vars
  PROVE  HandoverIInv'
<1>1. CASE UNCHANGED vars
  BY <1>1 DEF vars, scriptVars, tokenVars, handoverVars, HandoverIInv, HandoverInv,
              HandoverQueues, Queues, RolesInv, HandoverSteps, NothingCreated
<1>2. CASE Next /\ script = "transfer-operator"
  <2>1. HandoverNext /\ script' = script
    BY <1>2 DEF Next, HandOver
  <2> QED
    BY <1>2, <2>1, HandoverKeeps DEF HandoverIInv
<1>3. CASE Next /\ script # "transfer-operator"
  BY <1>3 DEF Next, Dex, Migrate, Rotate, handoverVars, HandoverIInv
<1> QED
  BY <1>1, <1>2, <1>3

\* A script that ends saying that its target is the operator is right for good: when it
\* can say so, every creation its account had pending is included, and an operator that
\* is no longer the old one has no offer standing (transfer-operator.py:116-145,
\* deploy-busdt.py, _deploy_bridged_usdt_v2.py).
THEOREM HandoverStays == Spec => []HandoverIsFinal
<1>1. Init => HandoverIInv
  BY HandoverStart
<1>2. HandoverIInv /\ [Next]_vars => HandoverIInv'
  BY HandoverStep
<1>3. HandoverIInv => HandoverIsFinal
  BY DEF HandoverIInv, HandoverInv, HandoverSteps, HandoverIsFinal
<1> QED
  BY <1>1, <1>2, <1>3, PTL DEF Spec

-----------------------------------------------------------------------------
(* The rotation of the keys                                                  *)

RotationCalls == [type: {"lp", "coins", "faucet"}, to: Nat, amount: Nat]
RotationEntries == [call: RotationCalls, awaited: BOOLEAN]
KeyFunds == [coins: Int, lp: Int, faucet: Int]

\* Every transfer goes to a set of keys that was drawn.
TransfersInv ==
  /\ Queues(RotationEntries)
  /\ \A k \in Keys : \A i \in 1 .. Len(mempool[k]) : mempool[k][i].call.to \in 1 .. Len(rescued)

\* The awaited transfer is of all there was when the script read the account, and of
\* coins it is the account's only one: nothing else can be paid from it before.
AwaitedInv ==
  \A k \in Keys : \A i \in 1 .. Len(mempool[k]) : mempool[k][i].awaited =>
    /\ step \in {"lp", "faucet"} \cup Rescues
    /\ step = "lp" => mempool[k][i].call.type = "lp" /\ mempool[k][i].call.amount >= lp
    /\ step \in Rescues =>
         /\ k = rescueOf[step] /\ i = 1 /\ Len(mempool[k]) = 1
         /\ mempool[k][i].call.type = "coins"
         /\ mempool[k][i].call.amount + incomeSince[k] = oldCoins[k]

CoinsDone(a) == oldCoins[a] <= DUST + incomeSince[a]

AnsweredInv ==
  /\ step \in {"down", "done", "keys", "print", "rewrite"} => receipt = "none"
  /\ receipt = "ok" /\ step = "lp" => lp = 0
  /\ receipt = "ok" /\ step \in Rescues => CoinsDone(rescueOf[step])

\* While a run works with a set of keys the file holds it, and the file is written a
\* second time only when the set has been shown.
FileInv ==
  /\ rescued \in Seq(KeyFunds)
  /\ keys \in 0 .. Len(rescued)
  /\ keyFile \in [set: 0 .. Len(rescued), readable: BOOLEAN]
  /\ step \in {"down", "done", "keys", "print", "rewrite", "lp", "faucet"} \cup Rescues
  /\ step = "keys" => keyFile = noKeys /\ keys # 0
  /\ step \in {"lp", "faucet", "print", "rewrite"} \cup Rescues
       => keyFile = [set |-> keys, readable |-> TRUE] /\ keys # 0
  /\ step = "rewrite" => keys \in printed

Passed(s) ==
  \/ step \in {"faucet", "print", "rewrite", "done"}
  \/ step = "miner" /\ s \in {"deployer", "signer"}
  \/ step = "signer" /\ s = "deployer"

\* Unless a transfer of the run was not confirmed, an account that none of the steps to
\* come empties is empty.
OldInv ==
  /\ oldCoins \in [Old -> Int] /\ incomeSince \in [Old -> Nat] /\ lp \in Nat
  /\ ~undone /\ step \in {"faucet", "print", "rewrite", "done"} \cup Rescues => lp = 0
  /\ ~undone => \A a \in Old : (\A s \in Rescues : rescueOf[s] = a => Passed(s)) => CoinsDone(a)

RotationInv ==
  TransfersInv /\ AwaitedInv /\ AnsweredInv /\ FileInv /\ KeysRecoverable /\ OldInv

LEMMA RescueSteps ==
  /\ Rescues = {"deployer", "signer", "miner"}
  /\ \A s \in Rescues : rescueOf[s] \in Old /\ rescueOf[s] \in Keys
  /\ \A a \in Old : \E s \in Rescues : rescueOf[s] = a
  /\ Old \subseteq Keys /\ OldDeployer \in Keys /\ NewDeployer \in Keys
  /\ DUST \in Nat /\ FAUCET_FUNDING \in Nat /\ InitialOld \in Nat
  /\ afterStep["lp"] = "deployer" /\ afterStep["deployer"] = "signer"
  /\ afterStep["signer"] = "miner" /\ afterStep["miner"] = "faucet"
  /\ afterStep["faucet"] = "print" /\ DOMAIN afterStep = {"lp", "faucet"} \cup Rescues
  BY RotationAssumption DEF Rescues, rescueOf, Old, afterStep

LEMMA KeySetsAre == FileInv => KeySets = 1 .. Len(rescued) /\ Len(rescued) \in Nat
  BY LenProperties DEF FileInv, KeySets

\* A step that sends nothing and waits for nothing.
LEMMA RotationQuiet ==
  ASSUME RotationInv, receipt # "pending", receipt' = "none", mempool' = mempool,
         Len(rescued') \in Nat, Len(rescued') >= Len(rescued)
  PROVE  TransfersInv' /\ AwaitedInv'
<1>1. Queues(RotationEntries)'
  BY QueuesQuiet DEF RotationInv, TransfersInv
<1>2. \A k \in Keys : \A i \in 1 .. Len(mempool[k]) : ~mempool[k][i].awaited
  BY DEF RotationInv, TransfersInv, Queues
<1>3. AwaitedInv'
  BY <1>2 DEF AwaitedInv
<1>4. Len(rescued) \in Nat
  BY KeySetsAre DEF RotationInv
<1>5. \A n \in 1 .. Len(rescued) : n \in 1 .. Len(rescued')
  BY <1>4
<1> QED
  BY <1>1, <1>3, <1>5 DEF TransfersInv, RotationInv

LEMMA RecoverableKept ==
  ASSUME RotationInv, mempool' = mempool, rescued' = rescued, keyFile' = keyFile,
         printed \subseteq printed'
  PROVE  KeysRecoverable'
  BY DEF RotationInv, KeysRecoverable, KeySets

LEMMA RemoveKeyFileKeeps ==
  ASSUME RotationInv, removeKeyFile
  PROVE  RotationInv'
<1>1. /\ step = "down" /\ ~keyFile.readable /\ keyFile' = noKeys
      /\ UNCHANGED <<step, mempool, receipt, oldCoins, lp, rescued, keys, printed, incomeSince, undone>>
  BY DEF removeKeyFile, scriptVars, rotationChain
<1>2. receipt = "none"
  BY <1>1 DEF RotationInv, AnsweredInv
<1>3. TransfersInv' /\ AwaitedInv'
  BY <1>1, <1>2, RotationQuiet, KeySetsAre DEF RotationInv
<1>4. KeysRecoverable'
  BY <1>1 DEF RotationInv, KeysRecoverable, KeySets
<1>5. AnsweredInv' /\ OldInv'
  BY <1>1 DEF RotationInv, AnsweredInv, OldInv, Passed, CoinsDone
<1>6. FileInv'
  BY <1>1, KeySetsAre, RescueSteps DEF RotationInv, FileInv, noKeys
<1> QED
  BY <1>3, <1>4, <1>5, <1>6 DEF RotationInv

LEMMA BeginRotationKeeps ==
  ASSUME RotationInv, beginRotation
  PROVE  RotationInv'
<1>1. /\ step = "down" /\ receipt' = receipt /\ mempool' = mempool /\ keyFile.readable
      /\ incomeSince' = [a \in Old |-> 0] /\ undone' = FALSE
      /\ UNCHANGED <<oldCoins, lp, keyFile, printed>>
      /\ \/ keyFile.set # 0 /\ keys' = keyFile.set /\ step' = "lp" /\ rescued' = rescued
         \/ /\ keyFile.set = 0 /\ keys' = Len(rescued) + 1 /\ step' = "keys"
            /\ rescued' = Append(rescued, none)
  BY DEF beginRotation, begins
<1>2. receipt = "none"
  BY <1>1 DEF RotationInv, AnsweredInv
<1>3. /\ rescued' \in Seq(KeyFunds) /\ Len(rescued) \in Nat
      /\ Len(rescued') \in {Len(rescued), Len(rescued) + 1}
      /\ rescued' # rescued => /\ Len(rescued') = Len(rescued) + 1
                               /\ rescued'[Len(rescued) + 1] = none
                               /\ \A k \in 1 .. Len(rescued) : rescued'[k] = rescued[k]
  <2>1. rescued \in Seq(KeyFunds) /\ none \in KeyFunds
    BY DEF RotationInv, FileInv, none, KeyFunds
  <2> QED
    BY <1>1, <2>1, AppendProperties, LenProperties
<1>4. TransfersInv' /\ AwaitedInv'
  BY <1>1, <1>2, <1>3, RotationQuiet
<1>5. AnsweredInv' /\ OldInv'
  <2>1. \A a \in Old : incomeSince'[a] = 0 /\ incomeSince' \in [Old -> Nat]
    BY <1>1
  <2> QED
    BY <1>1, <1>2, <2>1, RescueSteps DEF RotationInv, AnsweredInv, OldInv, Passed, CoinsDone
<1>6. FileInv'
  <2>1. keys' \in 0 .. Len(rescued')
    BY <1>1, <1>3, AppendProperties DEF RotationInv, FileInv
  <2>2. keyFile' \in [set: 0 .. Len(rescued'), readable: BOOLEAN]
    BY <1>1, <1>3 DEF RotationInv, FileInv
  <2>3. step' = "keys" => keyFile' = noKeys /\ keys' # 0
    BY <1>1, <1>3 DEF RotationInv, FileInv, noKeys
  <2>4. step' = "lp" => keyFile' = [set |-> keys, readable |-> TRUE]' /\ keys' # 0
    BY <1>1, <1>3 DEF RotationInv, FileInv
  <2> QED
    BY <1>1, <1>3, <2>1, <2>2, <2>3, <2>4, RescueSteps DEF FileInv
<1>7. KeysRecoverable'
  <2>1. SUFFICES ASSUME NEW k \in 1 .. Len(rescued')
                 PROVE  \/ keyFile.readable /\ keyFile.set = k
                        \/ k \in printed
                        \/ /\ rescued'[k] = none
                           /\ \A a \in Keys : \A i \in 1 .. Len(mempool[a]) :
                                mempool[a][i].call.to # k
    BY <1>1, <1>6, KeySetsAre DEF KeysRecoverable, KeySets, FileInv
  <2>2. CASE k \in 1 .. Len(rescued)
    <3>1. rescued'[k] = rescued[k]
      BY <1>3, <2>2
    <3> QED
      BY <2>2, <3>1, KeySetsAre DEF RotationInv, KeysRecoverable
  <2>3. CASE k \notin 1 .. Len(rescued)
    <3>1. rescued'[k] = none
      BY <1>3, <2>3
    <3> QED
      BY <2>3, <3>1 DEF RotationInv, TransfersInv
  <2> QED
    BY <2>2, <2>3
<1> QED
  BY <1>4, <1>5, <1>6, <1>7 DEF RotationInv

LEMMA SaveNewKeysKeeps ==
  ASSUME RotationInv, saveNewKeys
  PROVE  RotationInv'
<1>1. /\ step = "keys" /\ receipt = "none" /\ step' = "lp" /\ receipt' = receipt
      /\ mempool' = mempool /\ keyFile' = [set |-> keys, readable |-> TRUE]
      /\ UNCHANGED <<oldCoins, lp, rescued, keys, printed, incomeSince, undone>>
  BY DEF saveNewKeys, at, passes, written, rotationChain
<1>2. keyFile = noKeys /\ keys # 0
  BY <1>1 DEF RotationInv, FileInv
<1>3. TransfersInv' /\ AwaitedInv'
  BY <1>1, RotationQuiet, KeySetsAre DEF RotationInv
<1>4. KeysRecoverable'
  <2>1. \A k \in KeySets : k # 0
    BY KeySetsAre DEF RotationInv
  <2> QED
    BY <1>1, <1>2, <2>1 DEF RotationInv, KeysRecoverable, KeySets, noKeys
<1>5. AnsweredInv' /\ OldInv'
  BY <1>1, RescueSteps DEF RotationInv, AnsweredInv, OldInv, Passed, CoinsDone
<1>6. FileInv'
  BY <1>1, <1>2, KeySetsAre, RescueSteps DEF RotationInv, FileInv, noKeys
<1> QED
  BY <1>3, <1>4, <1>5, <1>6 DEF RotationInv

\* The files stay and the script goes on: what is left to show of a quiet step.
LEMMA PassesKeeps ==
  ASSUME RotationInv, receipt # "pending", receipt' = "none", mempool' = mempool,
         UNCHANGED <<oldCoins, lp, rescued, keys, keyFile>>,
         incomeSince' \in [Old -> Nat], printed \subseteq printed',
         \/ step \in {"lp", "faucet"} \cup Rescues /\ step' = afterStep[step]
         \/ step = "print" /\ step' = "rewrite" /\ keys \in printed',
         OldInv'
  PROVE  RotationInv'
<1>1. TransfersInv' /\ AwaitedInv'
  BY RotationQuiet, KeySetsAre DEF RotationInv
<1>2. KeysRecoverable'
  BY RecoverableKept
<1>3. AnsweredInv'
  BY RescueSteps DEF AnsweredInv
<1>4. FileInv'
  BY RescueSteps DEF RotationInv, FileInv
<1> QED
  BY <1>1, <1>2, <1>3, <1>4 DEF RotationInv


\* A transfer that is sent goes to the keys of the run.
LEMMA RotationSends ==
  ASSUME RotationInv, NEW k \in Keys, NEW c, sends(k, c), receipt = "none",
         c \in [type: {"lp", "coins", "faucet"}, to: {keys}, amount: Nat],
         step \in {"lp", "faucet"} \cup Rescues,
         UNCHANGED <<lp, oldCoins, rescued, keys, keyFile, printed, undone>>,
         incomeSince' \in [Old -> Nat], OldInv',
         step = "lp" => c.type = "lp" /\ c.amount >= lp,
         step \in Rescues => /\ k = rescueOf[step] /\ c.type = "coins" /\ mempool[k] = <<>>
                             /\ c.amount + incomeSince'[k] = oldCoins[k]
  PROVE  RotationInv'
<1>1. keys # 0 /\ keyFile = [set |-> keys, readable |-> TRUE] /\ keys \in 1 .. Len(rescued)
  BY KeySetsAre DEF RotationInv, FileInv
<1>2. keys \in Nat
  BY <1>1, KeySetsAre DEF RotationInv
<1>3. c.to = keys /\ [call |-> c, awaited |-> TRUE] \in RotationEntries
  BY <1>2 DEF RotationEntries, RotationCalls
<1>4. PICK e : e = [call |-> c, awaited |-> TRUE]
  OBVIOUS
<1>5. e.call = c
  BY <1>4
<1>6. /\ Queues(RotationEntries)' /\ receipt' = "pending" /\ step' = step
      /\ Len(mempool[k]) \in Nat /\ Len(mempool'[k]) = Len(mempool[k]) + 1
      /\ \A l \in Keys : \A i \in 1 .. Len(mempool'[l]) :
           \/ /\ l = k /\ i = Len(mempool[k]) + 1 /\ mempool'[l][i] = e
           \/ /\ i \in 1 .. Len(mempool[l]) /\ mempool'[l][i] = mempool[l][i]
              /\ ~mempool'[l][i].awaited
  BY <1>3, <1>4, QueuesSend DEF RotationInv, TransfersInv
<1>7. TransfersInv'
  BY <1>1, <1>3, <1>5, <1>6 DEF RotationInv, TransfersInv
<1>8. AwaitedInv'
  <2>1. SUFFICES ASSUME NEW l \in Keys, NEW i \in 1 .. Len(mempool'[l]), mempool'[l][i].awaited
                 PROVE  /\ step = "lp" => /\ mempool'[l][i].call.type = "lp"
                                          /\ mempool'[l][i].call.amount >= lp
                        /\ step \in Rescues =>
                             /\ l = rescueOf[step] /\ i = 1 /\ Len(mempool'[l]) = 1
                             /\ mempool'[l][i].call.type = "coins"
                             /\ mempool'[l][i].call.amount + incomeSince'[l] = oldCoins[l]
    BY <1>6 DEF AwaitedInv
  <2>2. l = k /\ i = Len(mempool[k]) + 1 /\ mempool'[l][i].call = c
    BY <1>5, <1>6, <2>1
  <2>3. step \in Rescues => /\ l = rescueOf[step] /\ i = 1 /\ Len(mempool'[l]) = 1
                             /\ c.type = "coins" /\ c.amount + incomeSince'[l] = oldCoins[l]
    <3>1. mempool[k] = <<>> => Len(mempool[k]) = 0
      OBVIOUS
    <3>2. Len(mempool[k]) = 0 => i = 1 /\ Len(mempool'[l]) = 1
      BY <1>6, <2>2
    <3> QED
      BY <2>2, <3>1, <3>2
  <2> QED
    BY <2>2, <2>3
<1>9. KeysRecoverable'
  <2>1. ASSUME NEW n \in KeySets
        PROVE  \/ keyFile.readable /\ keyFile.set = n
               \/ n \in printed
               \/ /\ rescued[n] = none
                  /\ \A a \in Keys : \A i \in 1 .. Len(mempool'[a]) : mempool'[a][i].call.to # n
    <3>1. CASE n = keys
      BY <1>1, <3>1
    <3>2. CASE n # keys
      BY <1>3, <1>5, <1>6, <3>2 DEF RotationInv, KeysRecoverable
    <3> QED
      BY <3>1, <3>2
  <2> QED
    BY <2>1 DEF KeysRecoverable, KeySets
<1>10. AnsweredInv'
  BY <1>6, RescueSteps DEF RotationInv, AnsweredInv
<1>11. FileInv'
  BY <1>6 DEF RotationInv, FileInv
<1> QED
  BY <1>7, <1>8, <1>9, <1>10, <1>11 DEF RotationInv

\* A run that gives a transfer up or ends awaits nothing.
LEMMA RotationLeaves ==
  ASSUME RotationInv, NEW next, leaves(next),
         UNCHANGED <<oldCoins, lp, rescued, keys, printed>>, incomeSince' \in [Old -> Nat],
         \/ /\ next = "down"
            /\ undone' = undone /\ \/ keyFile' = keyFile
                                   \/ /\ step \in {"keys", "rewrite"}
                                      /\ keyFile' = [set |-> 0, readable |-> FALSE]
         \/ /\ step \in {"lp", "faucet"} \cup Rescues /\ next = afterStep[step]
            /\ undone' = TRUE /\ keyFile' = keyFile
  PROVE  RotationInv'
<1>1. \A e \in RotationEntries : /\ [e EXCEPT !.awaited = FALSE] \in RotationEntries
                                 /\ [e EXCEPT !.awaited = FALSE].awaited = FALSE
                                 /\ [e EXCEPT !.awaited = FALSE].call = e.call
  BY DEF RotationEntries
<1>2. /\ Queues(RotationEntries)' /\ step' = next /\ receipt' = "none"
      /\ \A k \in Keys : /\ Len(mempool'[k]) = Len(mempool[k])
                         /\ \A i \in 1 .. Len(mempool[k]) :
                              /\ mempool'[k][i].call = mempool[k][i].call
                              /\ ~mempool'[k][i].awaited
  BY <1>1, QueuesLeave DEF RotationInv, TransfersInv
<1>3. TransfersInv' /\ AwaitedInv' /\ AnsweredInv'
  BY <1>2 DEF RotationInv, TransfersInv, AwaitedInv, AnsweredInv
<1>4. KeysRecoverable'
  <2>1. step = "keys" => \A n \in KeySets : ~(keyFile.readable /\ keyFile.set = n)
    BY KeySetsAre DEF RotationInv, FileInv, noKeys
  <2>2. step = "rewrite" => \A n \in KeySets : keyFile.set = n => n \in printed
    BY RescueSteps DEF RotationInv, FileInv
  <2>3. ASSUME NEW n \in KeySets
        PROVE  \/ keyFile'.readable /\ keyFile'.set = n
               \/ n \in printed
               \/ /\ rescued[n] = none
                  /\ \A a \in Keys : \A i \in 1 .. Len(mempool[a]) : mempool[a][i].call.to # n
    BY <2>1, <2>2 DEF RotationInv, KeysRecoverable
  <2>4. \A a \in Keys : \A i \in 1 .. Len(mempool'[a]) :
          i \in 1 .. Len(mempool[a]) /\ mempool'[a][i].call = mempool[a][i].call
    BY <1>2
  <2> QED
    BY <2>3, <2>4 DEF KeysRecoverable, KeySets
<1>5. FileInv'
  <2>1. keyFile' \in [set: 0 .. Len(rescued), readable: BOOLEAN]
    <3>1. PICK n \in Nat : n = Len(rescued)
      BY KeySetsAre DEF RotationInv
    <3>2. 0 \in 0 .. n
      OBVIOUS
    <3>3. [set |-> 0, readable |-> FALSE] \in [set: 0 .. Len(rescued), readable: BOOLEAN]
      BY <3>1, <3>2
    <3>4. keyFile \in [set: 0 .. Len(rescued), readable: BOOLEAN]
      BY DEF RotationInv, FileInv
    <3> QED
      BY <3>3, <3>4
  <2> QED
    BY <1>2, <2>1, RescueSteps DEF RotationInv, FileInv
<1>6. OldInv'
  <2>1. step' = "down" => \A x \in Rescues : ~Passed(x)'
    BY RescueSteps DEF Passed
  <2>2. step' = "down" => \A a \in Old : ~(\A x \in Rescues : rescueOf[x] = a => Passed(x)')
    BY <2>1, RescueSteps
  <2>3. step' = "down" \/ undone'
    BY <1>2
  <2> QED
    BY <1>2, <2>2, <2>3, RescueSteps DEF RotationInv, OldInv
<1> QED
  BY <1>3, <1>4, <1>5, <1>6 DEF RotationInv

LEMMA RescueLPKeeps ==
  ASSUME RotationInv, rescueLP
  PROVE  RotationInv'
<1>1. /\ step = "lp" /\ receipt = "none"
      /\ UNCHANGED <<lp, oldCoins, rescued, keys, keyFile, printed, incomeSince, undone>>
  BY DEF rescueLP, at, rotationVars, rotationChain
<1>2. lp \in Nat /\ incomeSince \in [Old -> Nat]
  BY DEF RotationInv, OldInv
<1>3. CASE lp > 0 /\ sends(OldDeployer, [type |-> "lp", to |-> keys, amount |-> lp])
  <2>1. PICK c : c = [type |-> "lp", to |-> keys, amount |-> lp]
    OBVIOUS
  <2>2. sends(OldDeployer, c) /\ c.type = "lp" /\ c.amount = lp
        /\ c \in [type: {"lp", "coins", "faucet"}, to: {keys}, amount: Nat]
    BY <1>2, <1>3, <2>1
  <2>3. step' = step
    BY <2>2 DEF sends
  <2>4. OldInv'
    BY <1>1, <2>3 DEF RotationInv, OldInv, Passed, CoinsDone
  <2>5. step \notin Rescues
    BY <1>1, RescueSteps
  <2> QED
    BY <1>1, <1>2, <2>2, <2>4, <2>5, RescueSteps, RotationSends
<1>4. CASE ~(lp > 0) /\ passes("deployer")
  <2>1. step' = "deployer" /\ receipt' = receipt /\ mempool' = mempool /\ lp = 0
    BY <1>2, <1>4 DEF passes
  <2>2. OldInv'
    BY <1>1, <2>1, RescueSteps DEF RotationInv, OldInv, Passed, CoinsDone
  <2> QED
    BY <1>1, <1>2, <2>1, <2>2, RescueSteps, PassesKeeps
<1> QED
  BY <1>3, <1>4 DEF rescueLP

LEMMA RescueKeeps ==
  ASSUME RotationInv, NEW s \in Rescues, rescue(s)
  PROVE  RotationInv'
<1> DEFINE a == rescueOf[s]
<1>1. /\ step = s /\ receipt = "none" /\ incomeSince' = [incomeSince EXCEPT ![a] = 0]
      /\ UNCHANGED <<lp, oldCoins, rescued, keys, keyFile, printed, undone>>
  BY DEF rescue, at, rotationChain
<1>2. a \in Old /\ a \in Keys
  BY RescueSteps
<1>3. /\ oldCoins[a] \in Int /\ incomeSince'[a] = 0 /\ incomeSince' \in [Old -> Nat]
      /\ \A b \in Old : b # a => incomeSince'[b] = incomeSince[b]
  BY <1>1, <1>2 DEF RotationInv, OldInv
<1>4. DUST \in Nat
  BY RescueSteps
<1> HIDE DEF a
\* The account itself is not done before the step is over; the others are as they were.
<1>5. \A b \in Old : b # a /\ CoinsDone(b) => CoinsDone(b)'
  BY <1>1, <1>3 DEF CoinsDone
<1>6. ~Passed(s)
  BY <1>1, RescueSteps DEF Passed
<1>7. CASE /\ oldCoins[a] > DUST /\ mempool[a] = <<>>
           /\ sends(a, [type |-> "coins", to |-> keys, amount |-> oldCoins[a]])
  <2>1. PICK c : c = [type |-> "coins", to |-> keys, amount |-> oldCoins[a]]
    OBVIOUS
  <2>2. sends(a, c) /\ c.type = "coins" /\ c.amount = oldCoins[a] /\ c.amount \in Nat
        /\ c \in [type: {"lp", "coins", "faucet"}, to: {keys}, amount: Nat]
    BY <1>3, <1>4, <1>7, <2>1
  <2>3. step' = step
    BY <2>2 DEF sends
  <2>4. OldInv'
    <3>1. \A b \in Old : (\A x \in Rescues : rescueOf[x] = b => Passed(x)) => b # a
      BY <1>6 DEF a
    <3>2. \A x \in Rescues : Passed(x)' <=> Passed(x)
      BY <2>3 DEF Passed
    <3>3. /\ oldCoins' \in [Old -> Int] /\ incomeSince' \in [Old -> Nat] /\ lp' \in Nat
          /\ ~undone' /\ step' \in {"faucet", "print", "rewrite", "done"} \cup Rescues => lp' = 0
      BY <1>1, <1>3, <2>3 DEF RotationInv, OldInv
    <3>4. ASSUME ~undone, NEW b \in Old, \A x \in Rescues : rescueOf[x] = b => Passed(x)
          PROVE  CoinsDone(b)'
      <4>1. b # a /\ CoinsDone(b)
        BY <3>1, <3>4 DEF RotationInv, OldInv
      <4> QED
        BY <1>5, <4>1
    <3> QED
      BY <1>1, <3>2, <3>3, <3>4 DEF OldInv
  <2>5. step # "lp" /\ step \in {"lp", "faucet"} \cup Rescues
    BY <1>1, RescueSteps
  <2>6. step \in Rescues => /\ a = rescueOf[step] /\ c.type = "coins" /\ mempool[a] = <<>>
                            /\ c.amount + incomeSince'[a] = oldCoins[a]
    BY <1>1, <1>3, <1>7, <2>2 DEF a
  <2> QED
    BY <1>1, <1>2, <1>3, <2>2, <2>4, <2>5, <2>6, RotationSends
<1>8. CASE oldCoins[a] > DUST /\ leaves("down")
  BY <1>1, <1>3, <1>8, RotationLeaves
<1>9. CASE ~(oldCoins[a] > DUST) /\ passes(afterStep[s])
  <2>1. step' = afterStep[s] /\ receipt' = receipt /\ mempool' = mempool
    BY <1>9 DEF passes
  <2>2. CoinsDone(a)'
    BY <1>1, <1>3, <1>4, <1>9 DEF CoinsDone
  <2>3. \A x \in Rescues : Passed(x)' => Passed(x) \/ x = s
    BY <1>1, <2>1, RescueSteps DEF Passed
  <2>4. ASSUME ~undone, NEW b \in Old, \A x \in Rescues : rescueOf[x] = b => Passed(x)'
        PROVE  CoinsDone(b)'
    <3>1. CASE b = a
      BY <2>2, <3>1
    <3>2. CASE b # a
      <4>1. \A x \in Rescues : rescueOf[x] = b => Passed(x)
        BY <2>3, <2>4, <3>2 DEF a
      <4>2. CoinsDone(b)
        BY <2>4, <4>1 DEF RotationInv, OldInv
      <4> QED
        BY <1>5, <3>2, <4>2
    <3> QED
      BY <3>1, <3>2
  <2>5. OldInv'
    <3>1. ~undone => lp = 0
      BY <1>1 DEF RotationInv, OldInv
    <3> QED
      BY <1>1, <1>3, <2>4, <3>1 DEF RotationInv, OldInv
  <2> QED
    BY <1>1, <1>3, <2>1, <2>5, RescueSteps, PassesKeeps
<1> QED
  BY <1>7, <1>8, <1>9, Zenon DEF rescue, a, worthRescuing, sign_and_send, nonceTaken, raises

LEMMA FundFaucetKeeps ==
  ASSUME RotationInv, fundFaucet
  PROVE  RotationInv'
<1>1. /\ step = "faucet" /\ receipt = "none"
      /\ UNCHANGED <<lp, oldCoins, rescued, keys, keyFile, printed, incomeSince, undone>>
  BY DEF fundFaucet, at, rotationVars, rotationChain
<1>2. incomeSince \in [Old -> Nat]
  BY DEF RotationInv, OldInv
<1>3. ASSUME sends(NewDeployer, [type |-> "faucet", to |-> keys, amount |-> FAUCET_FUNDING])
      PROVE  RotationInv'
  <2>1. PICK c : c = [type |-> "faucet", to |-> keys, amount |-> FAUCET_FUNDING]
    OBVIOUS
  <2>2. sends(NewDeployer, c) /\ c \in [type: {"lp", "coins", "faucet"}, to: {keys}, amount: Nat]
    BY <1>3, <2>1, RescueSteps
  <2>3. step' = step
    BY <2>2 DEF sends
  <2>4. OldInv'
    BY <1>1, <2>3 DEF RotationInv, OldInv, Passed, CoinsDone
  <2>5. step \notin Rescues /\ step # "lp"
    BY <1>1, RescueSteps
  <2> QED
    BY <1>1, <1>2, <2>2, <2>4, <2>5, RescueSteps, RotationSends
<1>4. ASSUME leaves("down") PROVE RotationInv'
  BY <1>1, <1>2, <1>4, RotationLeaves
<1>5. ASSUME passes("print") PROVE RotationInv'
  <2>1. step' = "print" /\ receipt' = receipt /\ mempool' = mempool
    BY <1>5 DEF passes
  <2>2. OldInv'
    BY <1>1, <2>1, RescueSteps DEF RotationInv, OldInv, Passed, CoinsDone
  <2> QED
    BY <1>1, <1>2, <2>1, <2>2, RescueSteps, PassesKeeps
<1> QED
  BY <1>3, <1>4, <1>5, Zenon DEF fundFaucet, sign_and_send, raises

LEMMA RotationAnsweredKeeps ==
  ASSUME RotationInv, NEW s \in DOMAIN afterStep, rotationAnswered(s)
  PROVE  RotationInv'
<1>1. /\ step = s /\ s \in {"lp", "faucet"} \cup Rescues
      /\ UNCHANGED <<lp, oldCoins, rescued, keys, keyFile, printed, incomeSince>>
  BY RescueSteps DEF rotationAnswered, rotationChain
<1>2. incomeSince \in [Old -> Nat]
  BY DEF RotationInv, OldInv
<1>3. CASE succeeds(s) /\ answered(afterStep[s]) /\ UNCHANGED undone
  <2>1. receipt = "ok" /\ receipt' = "none" /\ step' = afterStep[s] /\ mempool' = mempool
    BY <1>3 DEF succeeds, answered
  <2>2. s \in Rescues => CoinsDone(rescueOf[s])
    BY <1>1, <2>1 DEF RotationInv, AnsweredInv
  <2>3. ~undone => lp = 0
    BY <1>1, <2>1 DEF RotationInv, AnsweredInv, OldInv
  <2>4. \A x \in Rescues : Passed(x)' => Passed(x) \/ x = s
    BY <1>1, <2>1, RescueSteps DEF Passed
  <2>5. ASSUME ~undone, NEW b \in Old, \A x \in Rescues : rescueOf[x] = b => Passed(x)'
        PROVE  CoinsDone(b)
    <3>1. CASE s \in Rescues /\ rescueOf[s] = b
      BY <2>2, <3>1
    <3>2. CASE ~(s \in Rescues /\ rescueOf[s] = b)
      BY <2>4, <2>5, <3>2 DEF RotationInv, OldInv
    <3> QED
      BY <3>1, <3>2
  <2>6. OldInv'
    <3>1. \A b \in Old : CoinsDone(b)' <=> CoinsDone(b)
      BY <1>1 DEF CoinsDone
    <3>2. undone' = undone
      BY <1>3
    <3> QED
      BY <1>1, <2>3, <2>5, <3>1, <3>2 DEF RotationInv, OldInv
  <2> QED
    BY <1>1, <1>2, <2>1, <2>6, PassesKeeps
<1>4. CASE receipt = "reverted" /\ answered(afterStep[s]) /\ undone' = TRUE
  <2>1. receipt' = "none" /\ step' = afterStep[s] /\ mempool' = mempool
    BY <1>4 DEF answered
  <2>2. OldInv'
    BY <1>1, <1>4 DEF RotationInv, OldInv
  <2> QED
    BY <1>1, <1>2, <1>4, <2>1, <2>2, PassesKeeps
<1>5. CASE timesOut(afterStep[s]) /\ undone' = TRUE
  <2>1. leaves(afterStep[s])
    BY <1>5 DEF timesOut
  <2> QED
    BY <1>1, <1>2, <1>5, <2>1, RotationLeaves
<1> QED
  BY <1>3, <1>4, <1>5 DEF rotationAnswered

LEMMA KeyFileStepsKeep ==
  ASSUME RotationInv, printKeys \/ rewriteKeyFile \/ cutRotation
  PROVE  RotationInv'
<1>1. incomeSince \in [Old -> Nat]
  BY DEF RotationInv, OldInv
<1>2. CASE printKeys
  <2>1. /\ step = "print" /\ step' = "rewrite" /\ receipt = "none" /\ receipt' = receipt
        /\ mempool' = mempool /\ printed' = printed \cup {keys}
        /\ UNCHANGED <<lp, oldCoins, rescued, keys, keyFile, incomeSince, undone>>
    BY <1>2 DEF printKeys, at, passes, rotationChain
  <2>2. OldInv'
    BY <2>1, RescueSteps DEF RotationInv, OldInv, Passed, CoinsDone
  <2>3. printed \subseteq printed' /\ keys \in printed'
    BY <2>1
  <2> QED
    BY <1>1, <2>1, <2>2, <2>3, PassesKeeps
<1>3. CASE rewriteKeyFile
  <2>1. /\ step = "rewrite" /\ step' = "done" /\ receipt = "none" /\ receipt' = receipt
        /\ mempool' = mempool /\ keyFile' = [set |-> keys, readable |-> TRUE]
        /\ UNCHANGED <<lp, oldCoins, rescued, keys, printed, incomeSince, undone>>
    BY <1>3 DEF rewriteKeyFile, at, passes, rotationChain
  <2>2. OldInv' /\ AnsweredInv'
    BY <2>1, RescueSteps DEF RotationInv, OldInv, AnsweredInv, Passed, CoinsDone
  <2>3. TransfersInv' /\ AwaitedInv'
    BY <2>1, RotationQuiet, KeySetsAre DEF RotationInv
  <2>4. KeysRecoverable' /\ FileInv'
    <3>1. keyFile' = keyFile
      BY <2>1 DEF RotationInv, FileInv
    <3>2. FileInv'
      BY <2>1, <3>1, RescueSteps DEF RotationInv, FileInv
    <3> QED
      BY <2>1, <3>1, <3>2, RecoverableKept
  <2> QED
    BY <2>2, <2>3, <2>4 DEF RotationInv
<1>4. CASE cutRotation
  <2>1. /\ leaves("down")
        /\ UNCHANGED <<lp, oldCoins, rescued, keys, printed, incomeSince, undone>>
        /\ \/ keyFile' = keyFile
           \/ /\ step \in {"keys", "rewrite"}
              /\ keyFile' = [set |-> 0, readable |-> FALSE]
    BY <1>4 DEF cutRotation, isStopped, rotationChain
  <2> QED
    BY <1>1, <2>1, RotationLeaves
<1> QED
  BY <1>2, <1>3, <1>4

\* The new state of the accounts when a transfer is included: of LP tokens either all of
\* the call's or none are moved, of coins all.
LEMMA TransferKeeps ==
  ASSUME RotationInv, NEW k \in Keys, NEW type, includable(k, type), NEW ok \in BOOLEAN,
         includes(k, ok, 0), UNCHANGED <<keys, keyFile, printed, incomeSince, undone>>,
         rescued' \in Seq(KeyFunds), Len(rescued') = Len(rescued),
         \A n \in 1 .. Len(rescued) : n # Head(mempool[k]).call.to => rescued'[n] = rescued[n],
         \/ lp' = lp
         \/ lp' = lp - Head(mempool[k]).call.amount /\ lp' \in Nat,
         type = "lp" /\ ok => lp' = lp - Head(mempool[k]).call.amount,
         \/ oldCoins' = oldCoins
         \/ k \in Old /\ oldCoins' = [oldCoins EXCEPT ![k] = @ - Head(mempool[k]).call.amount],
         type = "coins" => /\ k \in Old
                           /\ oldCoins' = [oldCoins EXCEPT ![k] = @ - Head(mempool[k]).call.amount]
  PROVE  RotationInv'
<1> DEFINE h == Head(mempool[k])
<1>1. mempool[k] # <<>> /\ h.call.type = type
  BY DEF includable
<1>2. /\ Queues(RotationEntries)' /\ step' = step
      /\ h \in RotationEntries /\ h = mempool[k][1]
      /\ Len(mempool[k]) \in Nat \ {0} /\ Len(mempool'[k]) = Len(mempool[k]) - 1
      /\ \A l \in Keys : l # k => mempool'[l] = mempool[l]
      /\ \A l \in Keys : \A i \in 1 .. Len(mempool'[l]) :
           \E j \in 1 .. Len(mempool[l]) :
             /\ mempool'[l][i] = mempool[l][j]
             /\ j = IF l = k THEN i + 1 ELSE i
      /\ \/ ~h.awaited /\ UNCHANGED <<receipt, address>>
         \/ /\ h.awaited /\ receipt = "pending" /\ address' = 0
            /\ receipt' = IF ok THEN "ok" ELSE "reverted"
  BY <1>1, QueuesInclude DEF RotationInv, TransfersInv
<1>3. 1 \in 1 .. Len(mempool[k])
  BY <1>2
<1>4. PICK n : n = h.call.amount
  OBVIOUS
<1>5. n \in Nat
  BY <1>2, <1>4 DEF RotationEntries, RotationCalls
<1>6. /\ lp \in Nat /\ lp' \in Nat /\ lp' <= lp
      /\ oldCoins' \in [Old -> Int] /\ incomeSince \in [Old -> Nat]
      /\ \A a \in Old : oldCoins'[a] <= oldCoins[a] /\ (a # k => oldCoins'[a] = oldCoins[a])
  BY <1>4, <1>5 DEF RotationInv, OldInv
<1>7. \A a \in Old : CoinsDone(a) => CoinsDone(a)'
  <2>1. ASSUME NEW a \in Old, CoinsDone(a) PROVE CoinsDone(a)'
    <3>1. /\ oldCoins[a] \in Int /\ oldCoins'[a] \in Int /\ oldCoins'[a] <= oldCoins[a]
          /\ incomeSince[a] \in Nat /\ incomeSince'[a] = incomeSince[a]
      BY <1>6 DEF RotationInv, OldInv
    <3> QED
      BY <2>1, <3>1, RescueSteps DEF CoinsDone
  <2> QED
    BY <2>1
<1> HIDE DEF h
<1>8. TransfersInv'
  <2>1. ASSUME NEW l \in Keys, NEW i \in 1 .. Len(mempool'[l])
        PROVE  mempool'[l][i].call.to \in 1 .. Len(rescued')
    <3>1. PICK j \in 1 .. Len(mempool[l]) : mempool'[l][i] = mempool[l][j]
      BY <1>2
    <3> QED
      BY <3>1 DEF RotationInv, TransfersInv
  <2> QED
    BY <1>2, <2>1 DEF TransfersInv
<1>9. AwaitedInv'
  <2>1. SUFFICES ASSUME NEW l \in Keys, NEW i \in 1 .. Len(mempool'[l]), mempool'[l][i].awaited
                 PROVE  /\ step \in {"lp", "faucet"} \cup Rescues
                        /\ step = "lp" => /\ mempool'[l][i].call.type = "lp"
                                          /\ mempool'[l][i].call.amount >= lp'
                        /\ step \in Rescues =>
                             /\ l = rescueOf[step] /\ i = 1 /\ Len(mempool'[l]) = 1
                             /\ mempool'[l][i].call.type = "coins"
                             /\ mempool'[l][i].call.amount + incomeSince[l] = oldCoins'[l]
    BY <1>2 DEF AwaitedInv
  <2>2. PICK j \in 1 .. Len(mempool[l]) :
          mempool'[l][i] = mempool[l][j] /\ j = IF l = k THEN i + 1 ELSE i
    BY <1>2
  <2>3. /\ step \in {"lp", "faucet"} \cup Rescues
        /\ step = "lp" => mempool'[l][i].call.type = "lp" /\ mempool'[l][i].call.amount >= lp
        /\ step \in Rescues =>
             /\ l = rescueOf[step] /\ j = 1 /\ Len(mempool[l]) = 1
             /\ mempool'[l][i].call.type = "coins"
             /\ mempool'[l][i].call.amount + incomeSince[l] = oldCoins[l]
    BY <2>1, <2>2 DEF RotationInv, AwaitedInv
  <2>4. mempool'[l][i].call.amount \in Nat
    <3>1. mempool'[l] \in Seq(RotationEntries)
      BY <1>8 DEF TransfersInv, Queues
    <3>2. mempool'[l][i] \in RotationEntries
      BY <3>1, ElementOfSeq
    <3> QED
      BY <3>2 DEF RotationEntries, RotationCalls
  <2>5. step = "lp" => mempool'[l][i].call.amount >= lp'
    BY <1>6, <2>3, <2>4
  <2>6. step \in Rescues => l # k
    <3>1. ASSUME l = k, step \in Rescues PROVE FALSE
      <4>1. j = i + 1 /\ j = 1 /\ i \in Nat \ {0}
        <5>1. Len(mempool'[l]) \in Nat
          BY <1>2, <3>1
        <5> QED
          BY <2>2, <2>3, <3>1, <5>1
      <4> QED
        BY <4>1
    <3> QED
      BY <3>1
  <2>7. step \in Rescues => l \in Old /\ mempool'[l] = mempool[l] /\ oldCoins'[l] = oldCoins[l]
    BY <1>2, <1>6, <2>3, <2>6, RescueSteps
  <2> QED
    BY <2>2, <2>3, <2>5, <2>6, <2>7
<1>10. AnsweredInv'
  <2>1. receipt' = receipt \/ (h.awaited /\ receipt = "pending")
    BY <1>2
  <2>2. step \in {"down", "done", "keys", "print", "rewrite"} => receipt' = "none"
    BY <2>1, <1>2 DEF RotationInv, AnsweredInv
  <2>3. ASSUME receipt' = "ok", h.awaited, ok, receipt = "pending"
        PROVE  /\ step = "lp" => lp' = 0
               /\ step \in Rescues => CoinsDone(rescueOf[step])'
    <3>1. mempool[k][1].awaited
      BY <1>2, <2>3
    <3>2. /\ step = "lp" => type = "lp" /\ n >= lp
          /\ step \in Rescues => k = rescueOf[step] /\ type = "coins" /\ n + incomeSince[k] = oldCoins[k]
      BY <1>1, <1>2, <1>3, <1>4, <3>1 DEF RotationInv, AwaitedInv
    <3>3. step = "lp" => lp' = 0
      BY <1>4, <1>5, <1>6, <2>3, <3>2 DEF h
    <3>4. step \in Rescues => CoinsDone(k)'
      <4>1. ASSUME step \in Rescues PROVE CoinsDone(k)'
        <5>1. /\ k \in Old /\ oldCoins'[k] = oldCoins[k] - n /\ oldCoins[k] \in Int
              /\ incomeSince[k] \in Nat
          BY <1>4, <3>2, <4>1 DEF h, RotationInv, OldInv
        <5> QED
          BY <1>5, <3>2, <4>1, <5>1, RescueSteps DEF CoinsDone
      <4> QED
        BY <4>1
    <3> QED
      BY <1>2, <3>2, <3>3, <3>4 DEF CoinsDone
  <2>4. receipt' = "ok" => receipt = "ok" \/ (h.awaited /\ ok /\ receipt = "pending")
    BY <1>2
  <2>5. receipt = "ok" /\ step = "lp" => lp' = 0
    BY <1>6 DEF RotationInv, AnsweredInv
  <2>6. receipt = "ok" /\ step \in Rescues => CoinsDone(rescueOf[step])'
    <3>1. ASSUME receipt = "ok", step \in Rescues PROVE CoinsDone(rescueOf[step])'
      <4>1. PICK a \in Old : a = rescueOf[step]
        BY <3>1, RescueSteps
      <4>2. CoinsDone(a)'
        BY <1>7, <3>1, <4>1 DEF RotationInv, AnsweredInv
      <4> QED
        BY <1>2, <4>1, <4>2 DEF CoinsDone
    <3> QED
      BY <3>1
  <2> QED
    BY <1>2, <2>2, <2>3, <2>4, <2>5, <2>6 DEF AnsweredInv
<1>11. FileInv'
  BY <1>2 DEF RotationInv, FileInv
<1>12. KeysRecoverable'
  <2>1. ASSUME NEW m \in 1 .. Len(rescued)
        PROVE  \/ keyFile.readable /\ keyFile.set = m
               \/ m \in printed
               \/ /\ rescued'[m] = none
                  /\ \A a \in Keys : \A i \in 1 .. Len(mempool'[a]) : mempool'[a][i].call.to # m
    <3>1. ASSUME rescued[m] = none,
                 \A a \in Keys : \A i \in 1 .. Len(mempool[a]) : mempool[a][i].call.to # m
          PROVE  /\ rescued'[m] = none
                 /\ \A a \in Keys : \A i \in 1 .. Len(mempool'[a]) : mempool'[a][i].call.to # m
      <4>1. h.call.to # m
        BY <1>2, <1>3, <3>1
      <4>2. rescued'[m] = none
        BY <3>1, <4>1 DEF h
      <4>3. ASSUME NEW a \in Keys, NEW i \in 1 .. Len(mempool'[a])
            PROVE  mempool'[a][i].call.to # m
        <5>1. PICK j \in 1 .. Len(mempool[a]) : mempool'[a][i] = mempool[a][j]
          BY <1>2
        <5> QED
          BY <3>1, <5>1
      <4> QED
        BY <4>2, <4>3
    <3> QED
      BY <2>1, <3>1, KeySetsAre DEF RotationInv, KeysRecoverable
  <2>2. KeySets' = 1 .. Len(rescued)
    BY <1>11, KeySetsAre, LenProperties DEF KeySets, FileInv
  <2> QED
    BY <2>1, <2>2 DEF KeysRecoverable
<1>13. OldInv'
  <2>1. ~undone /\ step \in {"faucet", "print", "rewrite", "done"} \cup Rescues => lp' = 0
    BY <1>6 DEF RotationInv, OldInv
  <2>2. \A s \in Rescues : Passed(s)' <=> Passed(s)
    BY <1>2 DEF Passed
  <2> QED
    BY <1>2, <1>6, <1>7, <2>1, <2>2 DEF RotationInv, OldInv
<1> QED
  BY <1>8, <1>9, <1>10, <1>11, <1>12, <1>13 DEF RotationInv

LEMMA RescuedMoves ==
  ASSUME RotationInv, NEW to \in 1 .. Len(rescued), NEW funds \in KeyFunds,
         NEW new, new = [rescued EXCEPT ![to] = funds]
  PROVE  /\ new \in Seq(KeyFunds) /\ Len(new) = Len(rescued)
         /\ \A n \in 1 .. Len(rescued) : n # to => new[n] = rescued[n]
<1>1. rescued \in Seq(KeyFunds)
  BY DEF RotationInv, FileInv
<1> QED
  BY <1>1, ExceptSeq

LEMMA TransfersMove ==
  ASSUME RotationInv, \/ lpMoved \/ faucetFunded
                      \/ \E a \in Old : coinsMoved(a)
  PROVE  RotationInv'
<1>1. rescued \in Seq(KeyFunds) /\ lp \in Nat
  BY DEF RotationInv, FileInv, OldInv
<1>2. ASSUME NEW k \in Keys, mempool[k] # <<>>
      PROVE  /\ Head(mempool[k]) \in RotationEntries
             /\ Head(mempool[k]).call.to \in 1 .. Len(rescued)
             /\ Head(mempool[k]).call.amount \in Nat
  <2>1. mempool[k] \in Seq(RotationEntries)
    BY DEF RotationInv, TransfersInv, Queues
  <2>2. /\ Head(mempool[k]) = mempool[k][1] /\ 1 \in 1 .. Len(mempool[k])
        /\ Head(mempool[k]) \in RotationEntries
    BY <1>2, <2>1, HeadTailProperties, EmptySeq, LenProperties
  <2> QED
    BY <2>2 DEF RotationInv, TransfersInv, RotationEntries, RotationCalls
<1>3. \A n \in 1 .. Len(rescued) : rescued[n] \in KeyFunds
  BY <1>1, ElementOfSeq
<1>4. CASE lpMoved
  <2>1. PICK call : call = Head(mempool[OldDeployer]).call
    OBVIOUS
  <2>2. /\ includable(OldDeployer, "lp")
        /\ UNCHANGED <<oldCoins, keys, keyFile, printed, incomeSince, undone>>
    BY <1>4 DEF lpMoved
  <2>3. call.to \in 1 .. Len(rescued) /\ call.amount \in Nat
    BY <1>2, <2>1, <2>2, RescueSteps DEF includable
  <2>4. PICK type : type = "lp"
    OBVIOUS
  <2>5. includable(OldDeployer, type) /\ type # "coins"
    BY <2>2, <2>4
  <2>6. CASE call.amount <= lp
    <3>1. /\ includes(OldDeployer, TRUE, 0) /\ lp' = lp - call.amount
          /\ rescued' = [rescued EXCEPT ![call.to].lp = @ + call.amount]
      BY <1>4, <2>1, <2>6 DEF lpMoved, includes
    <3>2. PICK funds : funds = [rescued[call.to] EXCEPT !.lp = @ + call.amount]
      OBVIOUS
    <3>3. funds \in KeyFunds
      BY <1>3, <2>3, <3>2 DEF KeyFunds
    <3>4. rescued' = [rescued EXCEPT ![call.to] = funds]
      BY <3>1, <3>2
    <3>5. /\ rescued' \in Seq(KeyFunds) /\ Len(rescued') = Len(rescued)
          /\ \A n \in 1 .. Len(rescued) : n # call.to => rescued'[n] = rescued[n]
      BY <2>3, <3>3, <3>4, RescuedMoves
    <3>6. lp' \in Nat /\ TRUE \in BOOLEAN
      BY <1>1, <2>3, <2>6, <3>1
    <3> QED
      BY <2>1, <2>2, <2>5, <3>1, <3>5, <3>6, RescueSteps, TransferKeeps
  <2>7. CASE ~(call.amount <= lp)
    <3>1. includes(OldDeployer, FALSE, 0) /\ lp' = lp /\ rescued' = rescued /\ FALSE \in BOOLEAN
      BY <1>4, <2>1, <2>7 DEF lpMoved, includes
    <3> QED
      BY <1>1, <2>1, <2>2, <2>5, <3>1, RescueSteps, TransferKeeps
  <2> QED
    BY <2>6, <2>7
<1>5. CASE faucetFunded
  <2>1. PICK call : call = Head(mempool[NewDeployer]).call
    OBVIOUS
  <2>2. /\ includable(NewDeployer, "faucet") /\ includes(NewDeployer, TRUE, 0)
        /\ rescued' = [rescued EXCEPT ![call.to].coins = @ - call.amount,
                                      ![call.to].faucet = @ + call.amount]
        /\ UNCHANGED <<oldCoins, lp, keys, keyFile, printed, incomeSince, undone>>
    BY <1>5, <2>1 DEF faucetFunded
  <2>3. call.to \in 1 .. Len(rescued) /\ call.amount \in Nat
    BY <1>2, <2>1, <2>2, RescueSteps DEF includable
  <2>4. /\ rescued' \in Seq(KeyFunds) /\ Len(rescued') = Len(rescued)
        /\ \A n \in 1 .. Len(rescued) : n # call.to => rescued'[n] = rescued[n]
    <3>1. PICK paid : paid = [rescued[call.to] EXCEPT !.coins = @ - call.amount]
      OBVIOUS
    <3>2. PICK funds : funds = [paid EXCEPT !.faucet = @ + call.amount]
      OBVIOUS
    <3>3. paid \in KeyFunds
      BY <1>3, <2>3, <3>1 DEF KeyFunds
    <3>5. funds \in KeyFunds
      BY <2>3, <3>2, <3>3 DEF KeyFunds
    <3>4. rescued' = [rescued EXCEPT ![call.to] = funds]
      <4>1. PICK mid : mid = [rescued EXCEPT ![call.to] = paid]
        OBVIOUS
      <4>2. mid[call.to] = paid
        BY <1>1, <2>3, <4>1
      <4>3. rescued' = [mid EXCEPT ![call.to] = funds]
        BY <2>2, <3>1, <3>2, <4>1, <4>2
      <4> QED
        BY <1>1, <2>3, <4>1, <4>3
    <3> QED
      BY <2>3, <3>4, <3>5, RescuedMoves
  <2>5. PICK type : type = "faucet"
    OBVIOUS
  <2>6. includable(NewDeployer, type) /\ type # "coins" /\ type # "lp" /\ TRUE \in BOOLEAN
    BY <2>2, <2>5
  <2> QED
    BY <2>1, <2>2, <2>4, <2>6, RescueSteps, TransferKeeps
<1>6. ASSUME NEW a \in Old, coinsMoved(a) PROVE RotationInv'
  <2>1. PICK call : call = Head(mempool[a]).call
    OBVIOUS
  <2>2. /\ includable(a, "coins") /\ includes(a, TRUE, 0)
        /\ oldCoins' = [oldCoins EXCEPT ![a] = @ - call.amount]
        /\ rescued' = [rescued EXCEPT ![call.to].coins = @ + call.amount]
        /\ UNCHANGED <<lp, keys, keyFile, printed, incomeSince, undone>>
    BY <1>6, <2>1 DEF coinsMoved
  <2>3. call.to \in 1 .. Len(rescued) /\ call.amount \in Nat
    BY <1>2, <2>1, <2>2, RescueSteps DEF includable
  <2>4. /\ rescued' \in Seq(KeyFunds) /\ Len(rescued') = Len(rescued)
        /\ \A n \in 1 .. Len(rescued) : n # call.to => rescued'[n] = rescued[n]
    <3>1. PICK funds : funds = [rescued[call.to] EXCEPT !.coins = @ + call.amount]
      OBVIOUS
    <3>2. funds \in KeyFunds
      BY <1>3, <2>3, <3>1 DEF KeyFunds
    <3>3. rescued' = [rescued EXCEPT ![call.to] = funds]
      BY <2>2, <3>1
    <3> QED
      BY <2>3, <3>2, <3>3, RescuedMoves
  <2>5. PICK type : type = "coins"
    OBVIOUS
  <2>6. includable(a, type) /\ type # "lp" /\ TRUE \in BOOLEAN
    BY <2>2, <2>5
  <2> QED
    BY <2>1, <2>2, <2>4, <2>6, RescueSteps, TransferKeeps
<1> QED
  BY <1>4, <1>5, <1>6

LEMMA EarnsKeeps ==
  ASSUME RotationInv, NEW a \in Old, earns(a)
  PROVE  RotationInv'
<1>1. /\ oldCoins' = [oldCoins EXCEPT ![a] = @ + 1]
      /\ incomeSince' = [incomeSince EXCEPT ![a] = @ + 1]
      /\ UNCHANGED <<step, mempool, receipt, lp, rescued, keys, keyFile, printed, undone>>
  BY DEF earns, scriptVars
<1>2. /\ oldCoins' \in [Old -> Int] /\ incomeSince' \in [Old -> Nat]
      /\ oldCoins \in [Old -> Int] /\ incomeSince \in [Old -> Nat]
      /\ \A b \in Old : oldCoins'[b] - oldCoins[b] = incomeSince'[b] - incomeSince[b]
  BY <1>1 DEF RotationInv, OldInv
<1>3. \A b \in Old : CoinsDone(b) => CoinsDone(b)'
  <2>1. ASSUME NEW b \in Old, CoinsDone(b) PROVE CoinsDone(b)'
    <3>1. /\ oldCoins'[b] \in Int /\ oldCoins[b] \in Int /\ incomeSince[b] \in Nat
          /\ incomeSince'[b] \in Nat
          /\ oldCoins'[b] - oldCoins[b] = incomeSince'[b] - incomeSince[b]
      BY <1>2
    <3> QED
      BY <2>1, <3>1, RescueSteps DEF CoinsDone
  <2> QED
    BY <2>1
<1>4. TransfersInv' /\ FileInv' /\ KeysRecoverable'
  BY <1>1 DEF RotationInv, TransfersInv, Queues, FileInv, KeysRecoverable, KeySets
<1>5. AwaitedInv'
  <2>1. SUFFICES ASSUME NEW l \in Keys, NEW i \in 1 .. Len(mempool[l]), mempool[l][i].awaited,
                        step \in Rescues
                 PROVE  mempool[l][i].call.amount + incomeSince'[l] = oldCoins'[l]
    BY <1>1 DEF RotationInv, AwaitedInv
  <2>2. l \in Old /\ mempool[l][i].call.amount + incomeSince[l] = oldCoins[l]
    BY <2>1, RescueSteps DEF RotationInv, AwaitedInv
  <2>3. mempool[l][i].call.amount \in Nat
    <3>1. mempool[l] \in Seq(RotationEntries)
      BY DEF RotationInv, TransfersInv, Queues
    <3>2. mempool[l][i] \in RotationEntries
      BY <3>1, ElementOfSeq
    <3> QED
      BY <3>2 DEF RotationEntries, RotationCalls
  <2>4. PICK n \in Nat : n = mempool[l][i].call.amount
    BY <2>3
  <2>5. /\ oldCoins'[l] \in Int /\ oldCoins[l] \in Int /\ incomeSince[l] \in Nat
        /\ incomeSince'[l] \in Nat
        /\ oldCoins'[l] - oldCoins[l] = incomeSince'[l] - incomeSince[l]
    BY <1>2, <2>2
  <2>6. n + incomeSince[l] = oldCoins[l]
    BY <2>2, <2>4
  <2>7. n + incomeSince'[l] = oldCoins'[l]
    BY <2>5, <2>6
  <2> QED
    BY <2>4, <2>7
<1>6. AnsweredInv'
  <2>1. ASSUME receipt = "ok", step \in Rescues PROVE CoinsDone(rescueOf[step])'
    <3>1. PICK b \in Old : b = rescueOf[step]
      BY <2>1, RescueSteps
    <3>2. CoinsDone(b)'
      BY <1>3, <2>1, <3>1 DEF RotationInv, AnsweredInv
    <3> QED
      BY <1>1, <3>1, <3>2 DEF CoinsDone
  <2> QED
    BY <1>1, <2>1 DEF RotationInv, AnsweredInv
<1>7. OldInv'
  BY <1>1, <1>2, <1>3 DEF RotationInv, OldInv, Passed
<1> QED
  BY <1>4, <1>5, <1>6, <1>7 DEF RotationInv

LEMMA RotationStart ==
  ASSUME Init
  PROVE  RotationInv
<1>1. /\ step = "down" /\ receipt = "none" /\ mempool = [k \in Keys |-> <<>>]
      /\ oldCoins = [a \in Old |-> InitialOld] /\ lp = 1 /\ rescued = <<>>
      /\ keys = 0 /\ keyFile = [set |-> 0, readable |-> TRUE] /\ undone = FALSE
      /\ incomeSince = [a \in Old |-> 0]
  BY DEF Init, ScriptInit, RotationInit, noKeys
<1>2. Len(rescued) = 0 /\ rescued \in Seq(KeyFunds)
  BY <1>1
<1>3. \A i \in 1 .. 0 : FALSE
  OBVIOUS
<1>4. /\ mempool \in [Keys -> Seq(RotationEntries)]
      /\ \A k \in Keys : Len(mempool[k]) = 0
  BY <1>1
<1>5. TransfersInv /\ AwaitedInv
  BY <1>1, <1>3, <1>4 DEF TransfersInv, AwaitedInv, Queues
<1>6. AnsweredInv
  BY <1>1 DEF AnsweredInv
<1>7. FileInv
  BY <1>1, <1>2, RescueSteps DEF FileInv
<1>8. KeysRecoverable
  BY <1>2, <1>3, <1>7, KeySetsAre DEF KeysRecoverable
<1>9. OldInv
  BY <1>1, RescueSteps DEF OldInv, Passed
<1> QED
  BY <1>5, <1>6, <1>7, <1>8, <1>9 DEF RotationInv

LEMMA RotationKeeps ==
  ASSUME RotationInv, RotationNext
  PROVE  RotationInv'
  BY RemoveKeyFileKeeps, BeginRotationKeeps, SaveNewKeysKeeps, RescueLPKeeps, FundFaucetKeeps,
     RescueKeeps, RotationAnsweredKeeps, KeyFileStepsKeep, TransfersMove, EarnsKeeps
     DEF RotationNext

RotationIInv ==
  \/ script = "emergency-rotate-keys" /\ RotationInv
  \/ script # "emergency-rotate-keys" /\ rescued = <<>> /\ keys = 0

LEMMA RotationStep ==
  ASSUME RotationIInv, [Next]_vars
  PROVE  RotationIInv'
<1>1. CASE UNCHANGED vars
  BY <1>1 DEF vars, scriptVars, rotationVars, rotationChain, RotationIInv, RotationInv, TransfersInv,
              Queues, AwaitedInv, AnsweredInv, CoinsDone, FileInv, KeysRecoverable, KeySets,
              OldInv, Passed
<1>2. CASE Next /\ script = "emergency-rotate-keys"
  <2>1. RotationNext /\ script' = script
    BY <1>2 DEF Next, Rotate
  <2> QED
    BY <1>2, <2>1, RotationKeeps DEF RotationIInv
<1>3. CASE Next /\ script # "emergency-rotate-keys"
  BY <1>3 DEF Next, Dex, Migrate, HandOver, rotationVars, rotationChain, RotationIInv
<1> QED
  BY <1>1, <1>2, <1>3

LEMMA RotationAlways == Spec => []RotationIInv
<1>1. Init => RotationIInv
  BY RotationStart DEF Init, RotationInit, RotationIInv
<1>2. RotationIInv /\ [Next]_vars => RotationIInv'
  BY RotationStep
<1> QED
  BY <1>1, <1>2, PTL DEF Spec

\* No coin or token is ever where nobody has the key: the file names the set before the
\* first transfer to it is sent, and is rewritten only after the set was printed
\* (emergency-rotate-keys.py:45-71, 240-268).
THEOREM RotationRecoverable == Spec => []KeysRecoverable
<1>1. RotationIInv => KeysRecoverable
  <2>1. rescued = <<>> => KeySets = {}
    BY DEF KeySets
  <2> QED
    BY <2>1 DEF RotationIInv, RotationInv, KeysRecoverable
<1> QED
  BY <1>1, RotationAlways, PTL

\* A run that ends with every transfer confirmed has emptied the old accounts, whatever
\* earlier runs left pending: a transfer of coins is the account's only one, so that the
\* amount it was sent with is still there (emergency-rotate-keys.py:125-138, 165-214).
THEOREM RotationRescues == Spec => []RescueComplete
<1>1. RotationIInv => RescueComplete
  <2>1. SUFFICES ASSUME RotationInv, keys # 0, step \in {"faucet", "print", "rewrite", "done"},
                        ~undone
                 PROVE  lp = 0 /\ \A a \in Old : CoinsDone(a)
    BY DEF RotationIInv, RescueComplete, CoinsDone
  <2>2. \A s \in Rescues : Passed(s)
    BY <2>1 DEF Passed
  <2> QED
    BY <2>1, <2>2 DEF RotationInv, OldInv
<1> QED
  BY <1>1, RotationAlways, PTL


-----------------------------------------------------------------------------
(* The migration to v4                                                       *)

MigrationCalls ==
  [type: {"deployV4"}, mined: Nat] \cup [type: {"withdraw", "refill"}, amount: Nat]
    \cup [type: {"fund"}, to: Nat, amount: Nat]
MigrationEntries == [call: MigrationCalls, awaited: BOOLEAN]
Mines == [pool: Nat, mined: Nat]
HistoryTypes == [withdrawn: Nat, refilled: Nat, named: SUBSET Nat]

MigrationTypes ==
  /\ v3 \in Mines /\ v4 \in Seq(Mines) /\ coins \in Nat
  /\ pool_balance \in Nat /\ fund_amount \in Int
  /\ v4_address \in 0 .. Len(v4)
  /\ history \in HistoryTypes /\ history.named \subseteq 0 .. Len(v4)
  /\ step \in {"down", "done", "deploy", "withdraw", "fund", "save", "env"}

\* The owner has one pending transaction at most, since neither the script nor the
\* watchdog sends a second one.
PendingInv ==
  /\ Queues(MigrationEntries)
  /\ \A i \in 1 .. Len(mempool[Owner]) :
       LET call == mempool[Owner][i].call
       IN  /\ i = 1
           /\ call.type = "deployV4" => call.mined <= v3.mined
           /\ call.type = "fund" => call.to \in 1 .. Len(v4)
           /\ mempool[Owner][i].awaited =>
                \/ step = "deploy" /\ call.type = "deployV4"
                \/ step = "withdraw" /\ call.type = "withdraw" /\ call.amount = pool_balance
                \/ /\ step = "fund" /\ call.type = "fund"
                   /\ call.to = v4_address /\ call.amount = fund_amount

Arrived == v4[v4_address].pool + RESERVE + history.refilled >= history.withdrawn

\* What was withdrawn is with the deployer, then in the amount to be paid, then in the new
\* pool; in between the watchdog alone spends.
WithdrawnInv ==
  /\ step \in {"down", "done", "save", "env"} => receipt = "none"
  /\ step = "withdraw" /\ receipt = "ok" =>
       /\ history.withdrawn = pool_balance /\ coins + history.refilled >= history.withdrawn
       /\ \A i \in 1 .. Len(mempool[Owner]) : mempool[Owner][i].call.type = "refill"
  /\ step = "fund" => fund_amount + RESERVE + history.refilled >= history.withdrawn
  /\ step = "fund" /\ receipt = "ok" => Arrived
  /\ step \in {"save", "env", "done"} => Arrived

NamedInv ==
  /\ total_mined \in Nat /\ total_mined <= v3.mined
  /\ \A c \in 1 .. Len(v4) : v4[c].mined <= v3.mined
  /\ step = "deploy" /\ receipt = "ok" => address \in 1 .. Len(v4)
  /\ step \in {"withdraw", "fund", "save", "env", "done"} => v4_address \in 1 .. Len(v4)
  /\ step = "save" => v4[v4_address].pool > 0
  /\ step = "env" => v4_address \in history.named
  /\ dotEnv \in history.named \cup {Torn}
  /\ \A c \in history.named \ {0} : v4[c].pool > 0

MigrationInv == MigrationTypes /\ PendingInv /\ WithdrawnInv /\ NamedInv

LEMMA MigrationNats ==
  /\ Owner \in Keys /\ RESERVE \in Nat /\ GAS_RESERVE \in Nat /\ POOL_REFILL \in Nat
  /\ InitialPool \in Nat /\ InitialCoins \in Nat
  BY MigrationAssumption

LEMMA MinesAre ==
  ASSUME MigrationTypes
  PROVE  /\ Len(v4) \in Nat /\ \A c \in 1 .. Len(v4) : v4[c] \in Mines
         /\ v3.pool \in Nat /\ v3.mined \in Nat
         /\ history.withdrawn \in Nat /\ history.refilled \in Nat
  BY LenProperties, ElementOfSeq DEF MigrationTypes, Mines, HistoryTypes

\* A step that sends nothing: the queue and the chain stay.
LEMMA MigrationQuiet ==
  ASSUME MigrationInv, receipt # "pending", receipt' = "none", mempool' = mempool,
         UNCHANGED <<v3, v4>>
  PROVE  PendingInv'
<1>1. Queues(MigrationEntries)'
  BY QueuesQuiet DEF MigrationInv, PendingInv
<1>2. \A i \in 1 .. Len(mempool[Owner]) : ~mempool[Owner][i].awaited
  BY MigrationNats DEF MigrationInv, PendingInv, Queues
<1> QED
  BY <1>1, <1>2 DEF MigrationInv, PendingInv

LEMMA BeginMigrationKeeps ==
  ASSUME MigrationInv, beginMigration
  PROVE  MigrationInv'
<1>1. /\ step = "down" /\ step' = "deploy" /\ receipt' = receipt /\ mempool' = mempool
      /\ total_mined' = v3.mined /\ pool_balance' = v3.pool /\ fund_amount' = 0 /\ v4_address' = 0
      /\ history' = [history EXCEPT !.withdrawn = 0, !.refilled = 0]
      /\ UNCHANGED <<v3, v4, coins, deployedJson, dotEnv, address>>
  BY DEF beginMigration, begins, migrationChain, migrationFiles
<1>2. receipt = "none"
  BY <1>1 DEF MigrationInv, WithdrawnInv
<1>3. PendingInv'
  BY <1>1, <1>2, MigrationQuiet
<1>4. history' \in HistoryTypes /\ history'.named = history.named
  BY <1>1 DEF MigrationInv, MigrationTypes, HistoryTypes
<1>5. MigrationTypes'
  BY <1>1, <1>4, MinesAre DEF MigrationInv, MigrationTypes
<1>6. WithdrawnInv' /\ NamedInv'
  BY <1>1, <1>2, <1>4, MinesAre DEF MigrationInv, WithdrawnInv, NamedInv
<1> QED
  BY <1>3, <1>5, <1>6 DEF MigrationInv

LEMMA MigrationSends ==
  ASSUME MigrationInv, NEW c, mempool[Owner] = <<>>, sends(Owner, c), receipt = "none",
         c \in MigrationCalls, UNCHANGED migrationVars,
         \/ step = "deploy" /\ c.type = "deployV4" /\ c.mined = total_mined
         \/ step = "withdraw" /\ c.type = "withdraw" /\ c.amount = pool_balance
         \/ step = "fund" /\ c.type = "fund" /\ c.to = v4_address /\ c.amount = fund_amount
  PROVE  MigrationInv'
<1>1. UNCHANGED <<v3, v4, coins, total_mined, pool_balance, fund_amount, v4_address,
                  deployedJson, dotEnv, history>>
  BY DEF migrationVars, migrationChain, migrationLocals, migrationFiles
<1>2. PICK e : e = [call |-> c, awaited |-> TRUE]
  OBVIOUS
<1>3. e \in MigrationEntries /\ e.call = c
  BY <1>2 DEF MigrationEntries
<1>4. /\ Queues(MigrationEntries)' /\ receipt' = "pending" /\ step' = step
      /\ Len(mempool'[Owner]) = Len(mempool[Owner]) + 1
      /\ \A l \in Keys : \A i \in 1 .. Len(mempool'[l]) :
           \/ l = Owner /\ i = Len(mempool[Owner]) + 1 /\ mempool'[l][i] = e
           \/ i \in 1 .. Len(mempool[l]) /\ mempool'[l][i] = mempool[l][i]
  <2>1. Queues(MigrationEntries)
    BY DEF MigrationInv, PendingInv
  <2>2. [call |-> c, awaited |-> TRUE] \in MigrationEntries
    BY <1>2, <1>3
  <2>3. PICK k \in Keys : k = Owner
    BY MigrationNats
  <2>4. sends(k, c)
    BY <2>3
  <2>5. /\ Queues(MigrationEntries)' /\ receipt' = "pending" /\ step' = step
        /\ Len(mempool'[k]) = Len(mempool[k]) + 1
        /\ \A l \in Keys : \A i \in 1 .. Len(mempool'[l]) :
             \/ /\ l = k /\ i = Len(mempool[k]) + 1
                /\ mempool'[l][i] = [call |-> c, awaited |-> TRUE]
             \/ /\ i \in 1 .. Len(mempool[l]) /\ mempool'[l][i] = mempool[l][i]
                /\ ~mempool'[l][i].awaited
    BY <2>1, <2>2, <2>4, QueuesSend
  <2> QED
    BY <1>2, <2>3, <2>5
<1>5. Len(mempool[Owner]) = 0
  OBVIOUS
<1>6. \A i \in 1 .. Len(mempool'[Owner]) : i = 1 /\ mempool'[Owner][i] = e
  BY <1>4, <1>5, MigrationNats
<1>7. PendingInv'
  <2>1. c.type = "deployV4" => c.mined <= v3.mined
    BY DEF MigrationInv, NamedInv
  <2>2. c.type = "fund" => c.to \in 1 .. Len(v4)
    BY DEF MigrationInv, NamedInv
  <2> QED
    BY <1>1, <1>3, <1>4, <1>6, <2>1, <2>2 DEF PendingInv
<1>8. MigrationTypes' /\ WithdrawnInv' /\ NamedInv'
  BY <1>1, <1>4 DEF MigrationInv, MigrationTypes, WithdrawnInv, NamedInv, Arrived
<1> QED
  BY <1>7, <1>8 DEF MigrationInv

LEMMA MigrationLeaves ==
  ASSUME MigrationInv, leaves("down"), UNCHANGED <<migrationChain, migrationLocals, history>>,
         dotEnv' \in {dotEnv, Torn}
  PROVE  MigrationInv'
<1>1. UNCHANGED <<v3, v4, coins, total_mined, pool_balance, fund_amount, v4_address, history>>
  BY DEF migrationChain, migrationLocals
<1>2. \A e \in MigrationEntries : /\ [e EXCEPT !.awaited = FALSE] \in MigrationEntries
                                  /\ [e EXCEPT !.awaited = FALSE].awaited = FALSE
                                  /\ [e EXCEPT !.awaited = FALSE].call = e.call
  BY DEF MigrationEntries
<1>3. /\ Queues(MigrationEntries)' /\ step' = "down" /\ receipt' = "none"
      /\ Len(mempool'[Owner]) = Len(mempool[Owner])
      /\ \A i \in 1 .. Len(mempool[Owner]) :
           /\ mempool'[Owner][i].call = mempool[Owner][i].call
           /\ ~mempool'[Owner][i].awaited
  BY <1>2, QueuesLeave, MigrationNats DEF MigrationInv, PendingInv
<1>4. PendingInv'
  BY <1>1, <1>3 DEF MigrationInv, PendingInv
<1>5. MigrationTypes' /\ WithdrawnInv' /\ NamedInv'
  BY <1>1, <1>3 DEF MigrationInv, MigrationTypes, WithdrawnInv, NamedInv
<1> QED
  BY <1>4, <1>5 DEF MigrationInv

\* An error leaves the files alone.
LEMMA MigrationRaises ==
  ASSUME MigrationInv, leaves("down"), UNCHANGED migrationVars
  PROVE  MigrationInv'
  BY MigrationLeaves DEF migrationVars, migrationFiles

LEMMA SendsTxKeeps ==
  ASSUME MigrationInv, deployV4 \/ withdrawV3 \/ fundV4
  PROVE  MigrationInv'
<1>1. receipt = "none" /\ UNCHANGED migrationVars
  BY DEF deployV4, withdrawV3, fundV4, at
<1>2. /\ total_mined \in Nat /\ pool_balance \in Nat
      /\ fund_amount \in Int /\ v4_address \in Nat
  BY MinesAre DEF MigrationInv, MigrationTypes, NamedInv
<1>3. CASE raises
  BY <1>1, <1>3, MigrationRaises DEF raises
<1>4. CASE /\ step = "deploy" /\ mempool[Owner] = <<>>
           /\ sends(Owner, [type |-> "deployV4", mined |-> total_mined])
  <2>1. PICK c : c = [type |-> "deployV4", mined |-> total_mined]
    OBVIOUS
  <2>2. c \in MigrationCalls /\ c.type = "deployV4" /\ c.mined = total_mined
    BY <1>2, <2>1 DEF MigrationCalls
  <2> QED
    BY <1>1, <1>4, <2>1, <2>2, MigrationSends
<1>5. CASE /\ step = "withdraw" /\ mempool[Owner] = <<>>
           /\ sends(Owner, [type |-> "withdraw", amount |-> pool_balance])
  <2>1. PICK c : c = [type |-> "withdraw", amount |-> pool_balance]
    OBVIOUS
  <2>2. c \in MigrationCalls /\ c.type = "withdraw" /\ c.amount = pool_balance
    BY <1>2, <2>1 DEF MigrationCalls
  <2> QED
    BY <1>1, <1>5, <2>1, <2>2, MigrationSends
<1>6. CASE /\ step = "fund" /\ mempool[Owner] = <<>> /\ fund_amount >= 0
           /\ sends(Owner, [type |-> "fund", to |-> v4_address, amount |-> fund_amount])
  <2>1. PICK c : c = [type |-> "fund", to |-> v4_address, amount |-> fund_amount]
    OBVIOUS
  <2>2. fund_amount \in Nat
    BY <1>2, <1>6
  <2>3. c \in MigrationCalls /\ c.type = "fund" /\ c.to = v4_address /\ c.amount = fund_amount
    BY <1>2, <2>1, <2>2 DEF MigrationCalls
  <2> QED
    BY <1>1, <1>6, <2>1, <2>3, MigrationSends
<1> QED
  BY <1>3, <1>4, <1>5, <1>6, Zenon DEF deployV4, withdrawV3, fundV4, send_tx, at, nonceTaken


LEMMA ReadPoolKeeps ==
  ASSUME MigrationInv, readPool
  PROVE  MigrationInv'
<1>1. /\ step = "deploy" /\ receipt = "ok" /\ step' = "withdraw" /\ receipt' = "none"
      /\ mempool' = mempool /\ v4_address' = address /\ pool_balance' = v3.pool
      /\ UNCHANGED <<v3, v4, coins, total_mined, fund_amount, dotEnv, history>>
  BY DEF readPool, succeeds, answered, migrationChain, migrationFiles
<1>2. address \in 1 .. Len(v4)
  BY <1>1 DEF MigrationInv, NamedInv
<1>3. PendingInv'
  BY <1>1, MigrationQuiet
<1>4. MigrationTypes' /\ WithdrawnInv' /\ NamedInv'
  BY <1>1, <1>2, MinesAre DEF MigrationInv, MigrationTypes, WithdrawnInv, NamedInv
<1> QED
  BY <1>3, <1>4 DEF MigrationInv

\* All that was withdrawn is paid on, or all but the reserve.
LEMMA ReadBalanceKeeps ==
  ASSUME MigrationInv, readBalance
  PROVE  MigrationInv'
<1>1. /\ step = "withdraw" /\ receipt = "ok" /\ step' = "fund" /\ receipt' = "none"
      /\ mempool' = mempool /\ fund_amount' = amountToFund(coins)
      /\ UNCHANGED <<v3, v4, coins, total_mined, pool_balance, v4_address, dotEnv, history>>
  BY DEF readBalance, succeeds, answered, migrationChain, migrationFiles
<1>2. /\ history.withdrawn = pool_balance /\ coins + history.refilled >= history.withdrawn
      /\ coins \in Nat /\ pool_balance \in Nat /\ history.refilled \in Nat
      /\ history.withdrawn \in Nat
  BY <1>1, MinesAre DEF MigrationInv, MigrationTypes, WithdrawnInv
<1>3. /\ fund_amount' \in Int
      /\ fund_amount' + RESERVE + history.refilled >= history.withdrawn
  BY <1>1, <1>2, MigrationNats DEF amountToFund
<1>4. PendingInv'
  BY <1>1, MigrationQuiet
<1>5. MigrationTypes' /\ WithdrawnInv' /\ NamedInv'
  BY <1>1, <1>3 DEF MigrationInv, MigrationTypes, WithdrawnInv, NamedInv
<1> QED
  BY <1>4, <1>5 DEF MigrationInv

LEMMA VerifyKeeps ==
  ASSUME MigrationInv, verifyV4
  PROVE  MigrationInv'
<1>1. CASE raises
  BY <1>1, MigrationRaises DEF raises, verifyV4
<1>2. CASE verified /\ answered("save")
  <2>1. /\ step = "fund" /\ receipt = "ok" /\ step' = "save" /\ receipt' = "none"
        /\ mempool' = mempool /\ v4[v4_address].pool > 0
        /\ UNCHANGED <<v3, v4, coins, total_mined, pool_balance, fund_amount, v4_address, dotEnv,
                       history>>
    BY <1>2 DEF verifyV4, verified, succeeds, answered, migrationVars, migrationChain,
                migrationLocals, migrationFiles
  <2>2. PendingInv'
    BY <2>1, MigrationQuiet
  <2>3. MigrationTypes' /\ WithdrawnInv' /\ NamedInv'
    BY <2>1 DEF MigrationInv, MigrationTypes, WithdrawnInv, NamedInv, Arrived
  <2> QED
    BY <2>2, <2>3 DEF MigrationInv
<1> QED
  BY <1>1, <1>2, Zenon DEF verifyV4

LEMMA SaveFilesKeeps ==
  ASSUME MigrationInv, saveDeployed \/ saveEnv
  PROVE  MigrationInv'
<1>3. CASE saveDeployed /\ deployedJson = Torn
  <2>1. leaves("down") /\ UNCHANGED <<migrationChain, migrationLocals, history>> /\ dotEnv' = dotEnv
    BY <1>3 DEF saveDeployed, raises
  <2> QED
    BY <2>1, MigrationLeaves
<1>1. CASE saveDeployed /\ deployedJson # Torn
  <2>1. /\ step = "save" /\ receipt = "none" /\ step' = "env" /\ receipt' = receipt
        /\ mempool' = mempool /\ history' = [history EXCEPT !.named = @ \cup {v4_address}]
        /\ UNCHANGED <<v3, v4, coins, total_mined, pool_balance, fund_amount, v4_address, dotEnv>>
    BY <1>1 DEF saveDeployed, at, passes, migrationChain, migrationLocals
  <2>2. PendingInv'
    BY <2>1, MigrationQuiet
  <2>3. /\ history'.named = history.named \cup {v4_address}
        /\ history'.withdrawn = history.withdrawn /\ history'.refilled = history.refilled
        /\ v4_address \in 1 .. Len(v4) /\ v4[v4_address].pool > 0
    BY <2>1 DEF MigrationInv, NamedInv, MigrationTypes, HistoryTypes
  <2>4. history' \in HistoryTypes /\ history'.named \subseteq 0 .. Len(v4)
    BY <2>1, <2>3, MinesAre DEF MigrationInv, MigrationTypes, HistoryTypes
  <2>5. MigrationTypes'
    BY <2>1, <2>4 DEF MigrationInv, MigrationTypes
  <2>6. WithdrawnInv'
    BY <2>1, <2>3 DEF MigrationInv, WithdrawnInv, Arrived
  <2>7. NamedInv'
    BY <2>1, <2>3 DEF MigrationInv, NamedInv
  <2> QED
    BY <2>2, <2>5, <2>6, <2>7 DEF MigrationInv
<1>2. CASE saveEnv
  <2>1. /\ step = "env" /\ receipt = "none" /\ step' = "done" /\ receipt' = receipt
        /\ mempool' = mempool /\ dotEnv' = v4_address
        /\ UNCHANGED <<v3, v4, coins, total_mined, pool_balance, fund_amount, v4_address, history>>
    BY <1>2 DEF saveEnv, at, passes, migrationChain, migrationLocals
  <2>2. PendingInv'
    BY <2>1, MigrationQuiet
  <2>3. MigrationTypes' /\ WithdrawnInv' /\ NamedInv'
    BY <2>1 DEF MigrationInv, MigrationTypes, WithdrawnInv, NamedInv, Arrived
  <2> QED
    BY <2>2, <2>3 DEF MigrationInv
<1> QED
  BY <1>1, <1>2, <1>3

\* The watchdog sends only when the owner has nothing pending.
LEMMA RefillSentKeeps ==
  ASSUME MigrationInv, check_and_refill
  PROVE  MigrationInv'
<1>1. /\ mempool[Owner] = <<>> /\ refill_wei > 0
      /\ sendsAside(Owner, [type |-> "refill", amount |-> refill_wei])
      /\ UNCHANGED <<step, receipt, address>>
      /\ UNCHANGED <<v3, v4, coins, total_mined, pool_balance, fund_amount, v4_address, dotEnv,
                     history>>
  BY DEF check_and_refill, nonceTaken, sendsAside, migrationVars, migrationChain,
         migrationLocals, migrationFiles
<1>2. refill_wei \in Nat
  BY <1>1, MigrationNats DEF refill_wei, MigrationInv, MigrationTypes
<1>3. PICK c : c = [type |-> "refill", amount |-> refill_wei]
  OBVIOUS
<1>4. c \in MigrationCalls /\ c.type = "refill"
  BY <1>2, <1>3 DEF MigrationCalls
<1>5. PICK e : e = [call |-> c, awaited |-> FALSE]
  OBVIOUS
<1>6. e \in MigrationEntries /\ e.call = c /\ ~e.awaited
  BY <1>4, <1>5 DEF MigrationEntries
<1>7. mempool' = [mempool EXCEPT ![Owner] = Append(@, e)]
  BY <1>1, <1>3, <1>5 DEF sendsAside
<1>8. Queues(MigrationEntries)
  BY DEF MigrationInv, PendingInv
<1>9. PICK k \in Keys : k = Owner
  BY MigrationNats
<1>10. /\ mempool' \in [Keys -> Seq(MigrationEntries)]
       /\ Len(mempool'[k]) = Len(mempool[k]) + 1
       /\ \A l \in Keys : \A i \in 1 .. Len(mempool'[l]) :
            \/ l = k /\ i = Len(mempool[k]) + 1 /\ mempool'[l][i] = e
            \/ i \in 1 .. Len(mempool[l]) /\ mempool'[l][i] = mempool[l][i]
  BY <1>6, <1>7, <1>8, <1>9, QueueAppend DEF Queues
<1>11. Queues(MigrationEntries)'
  <2>1. \A l \in Keys : \A i \in 1 .. Len(mempool'[l]) : mempool'[l][i].awaited =>
          i \in 1 .. Len(mempool[l]) /\ mempool'[l][i] = mempool[l][i]
    BY <1>6, <1>10
  <2>2. /\ receipt' \in {"none", "pending", "ok", "reverted"}
        /\ \A l \in Keys : \A i \in 1 .. Len(mempool'[l]) :
             mempool'[l][i].awaited => receipt' = "pending"
    <3>1. receipt' = receipt
      BY <1>1
    <3>2. /\ receipt \in {"none", "pending", "ok", "reverted"}
          /\ \A l \in Keys : \A i \in 1 .. Len(mempool[l]) :
               mempool[l][i].awaited => receipt = "pending"
      BY <1>8 DEF Queues
    <3> QED
      BY <2>1, <3>1, <3>2
  <2>3. \A l, m \in Keys : \A i \in 1 .. Len(mempool'[l]), j \in 1 .. Len(mempool'[m]) :
          mempool'[l][i].awaited /\ mempool'[m][j].awaited => l = m /\ i = j
    <3>1. SUFFICES ASSUME NEW l \in Keys, NEW m \in Keys, NEW i \in 1 .. Len(mempool'[l]),
                          NEW j \in 1 .. Len(mempool'[m]),
                          mempool'[l][i].awaited, mempool'[m][j].awaited
                   PROVE  l = m /\ i = j
      OBVIOUS
    <3>2. /\ i \in 1 .. Len(mempool[l]) /\ mempool[l][i].awaited
          /\ j \in 1 .. Len(mempool[m]) /\ mempool[m][j].awaited
      BY <2>1, <3>1
    <3> QED
      BY <1>8, <3>2 DEF Queues
  <2> QED
    BY <1>10, <2>2, <2>3 DEF Queues
<1>12. Len(mempool[Owner]) = 0
  BY <1>1
<1>13. \A i \in 1 .. Len(mempool'[Owner]) : i = 1 /\ mempool'[Owner][i] = e
  <2>1. Len(mempool'[k]) = 1 /\ Len(mempool[k]) = 0
    BY <1>9, <1>10, <1>12
  <2>2. \A i \in 1 .. 0 : FALSE
    OBVIOUS
  <2>3. ASSUME NEW i \in 1 .. Len(mempool'[k]) PROVE i = 1 /\ mempool'[k][i] = e
    BY <1>10, <2>1, <2>2
  <2> QED
    BY <1>9, <2>3
<1>14. PendingInv'
  BY <1>4, <1>6, <1>11, <1>13 DEF PendingInv
<1>15. MigrationTypes' /\ WithdrawnInv' /\ NamedInv'
  BY <1>1, <1>4, <1>6, <1>13 DEF MigrationInv, MigrationTypes, WithdrawnInv, NamedInv, Arrived
<1> QED
  BY <1>14, <1>15 DEF MigrationInv

LEMMA MineV3Keeps ==
  ASSUME MigrationInv, mineV3
  PROVE  MigrationInv'
<1>1. /\ v3.pool > 0 /\ v3' = [pool |-> v3.pool - 1, mined |-> v3.mined + 1]
      /\ UNCHANGED <<step, receipt, address, mempool, v4, coins, total_mined, pool_balance,
                     fund_amount, v4_address, dotEnv, history>>
  BY DEF mineV3, scriptVars, migrationLocals, migrationFiles
<1>2. v3' \in Mines /\ v3'.mined = v3.mined + 1 /\ v3.mined \in Nat
  BY <1>1, MinesAre DEF MigrationInv, Mines
<1>3. PendingInv'
  <2>1. Queues(MigrationEntries)'
    BY <1>1 DEF MigrationInv, PendingInv, Queues
  <2>2. ASSUME NEW i \in 1 .. Len(mempool[Owner]), mempool[Owner][i].call.type = "deployV4"
        PROVE  mempool[Owner][i].call.mined <= v3.mined + 1
    <3>1. mempool[Owner] \in Seq(MigrationEntries)
      BY MigrationNats DEF MigrationInv, PendingInv, Queues
    <3>2. mempool[Owner][i] \in MigrationEntries
      BY <3>1, ElementOfSeq
    <3>3. mempool[Owner][i].call.mined \in Nat /\ mempool[Owner][i].call.mined <= v3.mined
      BY <2>2, <3>2 DEF MigrationInv, PendingInv, MigrationEntries, MigrationCalls
    <3> QED
      BY <1>2, <3>3
  <2> QED
    BY <1>1, <1>2, <2>1, <2>2 DEF MigrationInv, PendingInv
<1>4. MigrationTypes' /\ WithdrawnInv'
  BY <1>1, <1>2 DEF MigrationInv, MigrationTypes, WithdrawnInv, Arrived
<1>5. NamedInv'
  <2>1. \A c \in 1 .. Len(v4) : v4[c].mined <= v3.mined + 1
    BY <1>2, MinesAre DEF MigrationInv, NamedInv, Mines
  <2>2. total_mined <= v3.mined + 1
    BY <1>2 DEF MigrationInv, NamedInv
  <2> QED
    BY <1>1, <1>2, <2>1, <2>2 DEF MigrationInv, NamedInv
<1> QED
  BY <1>3, <1>4, <1>5 DEF MigrationInv

\* What every inclusion does: the owner's only transaction is gone.
LEMMA OwnerIncluded ==
  ASSUME MigrationInv, NEW type, includable(Owner, type), NEW ok \in BOOLEAN, NEW made,
         includes(Owner, ok, made)
  PROVE  /\ Queues(MigrationEntries)' /\ step' = step
         /\ \A i \in 1 .. Len(mempool'[Owner]) : FALSE
         /\ Head(mempool[Owner]) = mempool[Owner][1] /\ 1 \in 1 .. Len(mempool[Owner])
         /\ Head(mempool[Owner]).call.type = type
         /\ Head(mempool[Owner]).call \in MigrationCalls
         /\ \/ ~Head(mempool[Owner]).awaited /\ UNCHANGED <<receipt, address>>
            \/ /\ Head(mempool[Owner]).awaited /\ receipt = "pending" /\ address' = made
               /\ receipt' = IF ok THEN "ok" ELSE "reverted"
<1>1. PICK k \in Keys : k = Owner
  BY MigrationNats
<1>2. mempool[k] # <<>> /\ Head(mempool[k]).call.type = type /\ includes(k, ok, made)
  BY <1>1 DEF includable
<1>3. Queues(MigrationEntries)
  BY DEF MigrationInv, PendingInv
<1>4. /\ Queues(MigrationEntries)' /\ step' = step
      /\ Head(mempool[k]) \in MigrationEntries /\ Head(mempool[k]) = mempool[k][1]
      /\ Len(mempool[k]) \in Nat \ {0} /\ Len(mempool'[k]) = Len(mempool[k]) - 1
      /\ \/ ~Head(mempool[k]).awaited /\ UNCHANGED <<receipt, address>>
         \/ /\ Head(mempool[k]).awaited /\ receipt = "pending" /\ address' = made
            /\ receipt' = IF ok THEN "ok" ELSE "reverted"
  BY <1>2, <1>3, QueuesInclude
<1>5. \A i \in 1 .. Len(mempool[k]) : i = 1
  BY <1>1 DEF MigrationInv, PendingInv
<1>6. Len(mempool[k]) = 1
  <2>1. PICK n \in Nat \ {0} : n = Len(mempool[k])
    BY <1>4
  <2>2. n \in 1 .. n
    OBVIOUS
  <2> QED
    BY <1>5, <2>1, <2>2
<1> QED
  BY <1>1, <1>2, <1>4, <1>6 DEF MigrationEntries

LEMMA Deployed4Keeps ==
  ASSUME MigrationInv, deployed4
  PROVE  MigrationInv'
<1>1. PICK call, type, made : /\ call = Head(mempool[Owner]).call
                              /\ type = "deployV4" /\ made = Len(v4) + 1
  OBVIOUS
<1>2. /\ includable(Owner, type) /\ includes(Owner, TRUE, made) /\ TRUE \in BOOLEAN
      /\ v4' = Append(v4, [pool |-> 0, mined |-> call.mined])
      /\ UNCHANGED <<v3, coins, total_mined, pool_balance, fund_amount, v4_address, dotEnv, history>>
  BY <1>1 DEF deployed4, migrationLocals, migrationFiles
<1>3. /\ Queues(MigrationEntries)' /\ step' = step
      /\ \A i \in 1 .. Len(mempool'[Owner]) : FALSE
      /\ Head(mempool[Owner]) = mempool[Owner][1] /\ 1 \in 1 .. Len(mempool[Owner])
      /\ call.type = type /\ call \in MigrationCalls
      /\ \/ ~Head(mempool[Owner]).awaited /\ UNCHANGED <<receipt, address>>
         \/ /\ Head(mempool[Owner]).awaited /\ receipt = "pending" /\ address' = made
            /\ receipt' = IF TRUE THEN "ok" ELSE "reverted"
  BY <1>1, <1>2, OwnerIncluded
<1>4. call.mined \in Nat /\ call.mined <= v3.mined
  BY <1>1, <1>3 DEF MigrationInv, PendingInv, MigrationCalls
<1>5. [pool |-> 0, mined |-> call.mined] \in Mines
  BY <1>4 DEF Mines
<1>6. /\ v4' \in Seq(Mines) /\ Len(v4') = Len(v4) + 1 /\ Len(v4) \in Nat
      /\ \A c \in 1 .. Len(v4) : v4'[c] = v4[c]
      /\ v4'[Len(v4) + 1] = [pool |-> 0, mined |-> call.mined]
  BY <1>2, <1>5, AppendProperties, MinesAre DEF MigrationInv, MigrationTypes
<1>7. PendingInv'
  BY <1>3 DEF PendingInv
<1>8. MigrationTypes'
  BY <1>2, <1>3, <1>6 DEF MigrationInv, MigrationTypes
\* The script awaits it in its first step, which claims nothing yet.
<1>9. receipt' # receipt => step = "deploy"
  BY <1>1, <1>3 DEF MigrationInv, PendingInv
<1>10. v4_address \in 1 .. Len(v4) => v4'[v4_address] = v4[v4_address]
  BY <1>6
<1>11. WithdrawnInv'
  <2>1. step \in {"fund", "save", "env", "done"} => v4_address \in 1 .. Len(v4)
    BY DEF MigrationInv, NamedInv
  <2> QED
    BY <1>2, <1>3, <1>9, <1>10, <2>1 DEF MigrationInv, WithdrawnInv, Arrived
<1>12. NamedInv'
  <2>1. \A c \in 1 .. Len(v4') : v4'[c].mined <= v3.mined
    <3>1. ASSUME NEW c \in 1 .. Len(v4') PROVE v4'[c].mined <= v3.mined
      <4>1. c \in 1 .. Len(v4) \/ c = Len(v4) + 1
        BY <1>6
      <4> QED
        BY <1>4, <1>6, <4>1 DEF MigrationInv, NamedInv
    <3> QED
      BY <3>1
  <2>2. step = "deploy" /\ receipt' = "ok" => address' \in 1 .. Len(v4')
    BY <1>1, <1>3, <1>6 DEF MigrationInv, NamedInv
  <2>3. \A c \in history.named \ {0} : c \in 1 .. Len(v4) /\ v4'[c].pool > 0
    BY <1>6 DEF MigrationInv, MigrationTypes, NamedInv
  <2>4. step \in {"withdraw", "fund", "save", "env", "done"} =>
          v4_address \in 1 .. Len(v4) /\ v4_address \in 1 .. Len(v4')
    BY <1>6 DEF MigrationInv, NamedInv
  <2>5. step = "save" => v4'[v4_address].pool > 0
    BY <1>10, <2>4 DEF MigrationInv, NamedInv
  <2> QED
    BY <1>2, <1>3, <2>1, <2>2, <2>3, <2>4, <2>5 DEF MigrationInv, NamedInv
<1> QED
  BY <1>7, <1>8, <1>11, <1>12 DEF MigrationInv

LEMMA Withdrawn3Keeps ==
  ASSUME MigrationInv, withdrawn3
  PROVE  MigrationInv'
<1>1. PICK call, type : call = Head(mempool[Owner]).call /\ type = "withdraw"
  OBVIOUS
<1>2. PICK paid : paid = IF call.amount <= v3.pool THEN call.amount ELSE 0
  OBVIOUS
<1>3. PICK ok \in BOOLEAN : ok <=> call.amount <= v3.pool
  <2>1. CASE call.amount <= v3.pool
    BY <2>1
  <2>2. CASE ~(call.amount <= v3.pool)
    BY <2>2
  <2> QED
    BY <2>1, <2>2
<1>4. /\ includable(Owner, type)
      /\ v3' = [v3 EXCEPT !.pool = @ - paid] /\ coins' = coins + paid
      /\ history' = IF Head(mempool[Owner]).awaited
                    THEN [history EXCEPT !.withdrawn = paid] ELSE history
      /\ UNCHANGED <<v4, total_mined, pool_balance, fund_amount, v4_address, dotEnv>>
  BY <1>1, <1>2 DEF withdrawn3, migrationLocals, migrationFiles
<1>5. includes(Owner, ok, 0)
  BY <1>1, <1>3 DEF withdrawn3, includes
<1>6. /\ Queues(MigrationEntries)' /\ step' = step
      /\ \A i \in 1 .. Len(mempool'[Owner]) : FALSE
      /\ Head(mempool[Owner]) = mempool[Owner][1] /\ 1 \in 1 .. Len(mempool[Owner])
      /\ call.type = type /\ call \in MigrationCalls
      /\ \/ ~Head(mempool[Owner]).awaited /\ UNCHANGED <<receipt, address>>
         \/ /\ Head(mempool[Owner]).awaited /\ receipt = "pending" /\ address' = 0
            /\ receipt' = IF ok THEN "ok" ELSE "reverted"
  BY <1>1, <1>4, <1>5, OwnerIncluded
<1>7. call.amount \in Nat
  BY <1>1, <1>6 DEF MigrationCalls
<1>8. paid \in Nat /\ paid <= v3.pool /\ v3' \in Mines /\ v3'.mined = v3.mined /\ coins' \in Nat
  <2>1. v3.pool \in Nat /\ v3.mined \in Nat /\ coins \in Nat /\ v3 \in Mines
    BY MinesAre DEF MigrationInv, MigrationTypes
  <2>2. paid \in Nat /\ paid <= v3.pool
    BY <1>2, <1>7, <2>1
  <2>3. v3.pool - paid \in Nat /\ coins' \in Nat
    BY <1>4, <2>1, <2>2
  <2> QED
    BY <1>4, <2>1, <2>2, <2>3 DEF Mines
<1>9. /\ history' \in HistoryTypes /\ history'.named = history.named
      /\ history'.refilled = history.refilled
      /\ Head(mempool[Owner]).awaited => history'.withdrawn = paid
      /\ ~Head(mempool[Owner]).awaited => history'.withdrawn = history.withdrawn
  BY <1>4, <1>8 DEF MigrationInv, MigrationTypes, HistoryTypes
<1>10. PendingInv' /\ MigrationTypes'
  BY <1>4, <1>6, <1>8, <1>9 DEF MigrationInv, PendingInv, MigrationTypes
<1>11. Head(mempool[Owner]).awaited => step = "withdraw" /\ call.amount = pool_balance
  BY <1>1, <1>6 DEF MigrationInv, PendingInv
<1>12. WithdrawnInv'
  <2>1. CASE Head(mempool[Owner]).awaited
    <3>1. /\ step' = "withdraw" /\ receipt' = (IF ok THEN "ok" ELSE "reverted")
          /\ history'.withdrawn = paid /\ call.amount = pool_balance
      BY <1>6, <1>9, <1>11, <2>1
    <3>2. ok => /\ history'.withdrawn = pool_balance
                /\ coins' + history'.refilled >= history'.withdrawn
      BY <1>2, <1>3, <1>4, <1>7, <1>8, <1>9, <3>1, MinesAre DEF MigrationInv, MigrationTypes
    <3> QED
      BY <1>4, <1>6, <3>1, <3>2 DEF WithdrawnInv
  <2>2. CASE ~Head(mempool[Owner]).awaited
    <3>1. history' = history /\ receipt' = receipt
      BY <1>4, <1>6, <2>2
    <3>2. ~(step = "withdraw" /\ receipt = "ok")
      BY <1>1, <1>6 DEF MigrationInv, WithdrawnInv
    <3> QED
      BY <1>4, <1>6, <3>1, <3>2 DEF MigrationInv, WithdrawnInv, Arrived
  <2> QED
    BY <2>1, <2>2
<1>13. NamedInv'
  BY <1>4, <1>6, <1>8, <1>9, <1>11 DEF MigrationInv, NamedInv
<1> QED
  BY <1>10, <1>12, <1>13 DEF MigrationInv

LEMMA MoreArrives ==
  ASSUME NEW p \in Nat, NEW q \in Nat, NEW h \in Nat, NEW g \in Nat, NEW w \in Nat,
         q >= p, g >= h, p + RESERVE + h >= w
  PROVE  q + RESERVE + g >= w
  BY MigrationNats

LEMMA Funded4Keeps ==
  ASSUME MigrationInv, funded4
  PROVE  MigrationInv'
<1>1. PICK call, type : call = Head(mempool[Owner]).call /\ type = "fund"
  OBVIOUS
<1>2. /\ includable(Owner, type) /\ includes(Owner, TRUE, 0) /\ TRUE \in BOOLEAN
      /\ call.amount <= coins /\ coins' = coins - call.amount
      /\ v4' = [v4 EXCEPT ![call.to].pool = @ + call.amount]
      /\ UNCHANGED <<v3, total_mined, pool_balance, fund_amount, v4_address, dotEnv, history>>
  BY <1>1 DEF funded4, migrationLocals, migrationFiles
<1>3. /\ Queues(MigrationEntries)' /\ step' = step
      /\ \A i \in 1 .. Len(mempool'[Owner]) : FALSE
      /\ Head(mempool[Owner]) = mempool[Owner][1] /\ 1 \in 1 .. Len(mempool[Owner])
      /\ call.type = type /\ call \in MigrationCalls
      /\ \/ ~Head(mempool[Owner]).awaited /\ UNCHANGED <<receipt, address>>
         \/ /\ Head(mempool[Owner]).awaited /\ receipt = "pending" /\ address' = 0
            /\ receipt' = IF TRUE THEN "ok" ELSE "reverted"
  BY <1>1, <1>2, OwnerIncluded
<1>4. call.amount \in Nat /\ call.to \in 1 .. Len(v4)
  BY <1>1, <1>3 DEF MigrationInv, PendingInv, MigrationCalls
<1>5. PICK t \in 1 .. Len(v4), n \in Nat : t = call.to /\ n = call.amount
  BY <1>4
<1>6. /\ Len(v4) \in Nat /\ v4 \in Seq(Mines) /\ \A c \in 1 .. Len(v4) : v4[c] \in Mines
      /\ v3.mined \in Nat /\ coins \in Nat
      /\ history.withdrawn \in Nat /\ history.refilled \in Nat
  BY MinesAre DEF MigrationInv, MigrationTypes
<1>7. PICK mine : mine = [v4[t] EXCEPT !.pool = @ + n]
  OBVIOUS
<1>8. mine \in Mines /\ mine.pool = v4[t].pool + n /\ mine.mined = v4[t].mined
  <2>1. PICK old \in Mines : old = v4[t]
    BY <1>6
  <2>2. PICK pool \in Nat : pool = old.pool + n
    BY <2>1 DEF Mines
  <2>3. mine = [old EXCEPT !.pool = pool]
    BY <1>7, <2>1, <2>2
  <2> QED
    BY <2>1, <2>2, <2>3 DEF Mines
<1>9. v4' = [v4 EXCEPT ![t] = mine]
  BY <1>2, <1>5, <1>7
<1>10. /\ v4' \in Seq(Mines) /\ Len(v4') = Len(v4)
       /\ \A c \in 1 .. Len(v4) : v4'[c] = IF c = t THEN mine ELSE v4[c]
  BY <1>6, <1>8, <1>9, ExceptSeq
<1>11. \A c \in 1 .. Len(v4) : /\ v4'[c].mined = v4[c].mined
                               /\ v4[c].pool \in Nat /\ v4'[c].pool \in Nat
                               /\ v4'[c].pool >= v4[c].pool
  <2>1. ASSUME NEW c \in 1 .. Len(v4)
        PROVE  /\ v4'[c].mined = v4[c].mined
               /\ v4[c].pool \in Nat /\ v4'[c].pool \in Nat /\ v4'[c].pool >= v4[c].pool
    <3>1. v4[c] \in Mines /\ v4[c].pool \in Nat
      BY <1>6 DEF Mines
    <3>2. CASE c = t
      BY <1>8, <1>10, <3>1, <3>2
    <3>3. CASE c # t
      BY <1>10, <3>1, <3>3
    <3> QED
      BY <3>1, <3>2, <3>3
  <2> QED
    BY <2>1
<1>12. PendingInv' /\ MigrationTypes'
  BY <1>2, <1>3, <1>5, <1>6, <1>10 DEF MigrationInv, PendingInv, MigrationTypes
<1>13. step \in {"withdraw", "fund", "save", "env", "done"} => v4_address \in 1 .. Len(v4)
  BY DEF MigrationInv, NamedInv
\* The payment of the run arrives in its own contract.
<1>14. Head(mempool[Owner]).awaited =>
         step = "fund" /\ t = v4_address /\ n = fund_amount
  BY <1>1, <1>3, <1>5 DEF MigrationInv, PendingInv
<1>15. ASSUME Arrived, v4_address \in 1 .. Len(v4) PROVE Arrived'
  <2>1. PICK p \in Nat, q \in Nat : p = v4[v4_address].pool /\ q = v4'[v4_address].pool /\ q >= p
    BY <1>11, <1>15
  <2>2. p + RESERVE + history.refilled >= history.withdrawn
    BY <1>15, <2>1 DEF Arrived
  <2>3. q + RESERVE + history.refilled >= history.withdrawn
    <3>1. PICK h \in Nat, w \in Nat : h = history.refilled /\ w = history.withdrawn
      BY <1>6
    <3>2. p + RESERVE + h >= w /\ h >= h
      BY <2>2, <3>1
    <3>3. q + RESERVE + h >= w
      BY <2>1, <3>2, MoreArrives
    <3> QED
      BY <3>1, <3>3
  <2> QED
    BY <1>2, <2>1, <2>3 DEF Arrived
<1>16. ASSUME Head(mempool[Owner]).awaited PROVE Arrived'
  <2>1. v4'[v4_address].pool = v4[v4_address].pool + n /\ v4[v4_address].pool \in Nat
    BY <1>8, <1>10, <1>11, <1>14, <1>16
  <2>2. n + RESERVE + history.refilled >= history.withdrawn
    BY <1>14, <1>16 DEF MigrationInv, WithdrawnInv
  <2>3. PICK q \in Nat : q = v4'[v4_address].pool /\ q >= n
    BY <2>1
  <2>4. q + RESERVE + history.refilled >= history.withdrawn
    BY <1>6, <2>2, <2>3, MoreArrives
  <2> QED
    BY <1>2, <2>3, <2>4 DEF Arrived
<1>17. WithdrawnInv'
  <2>1. step = "withdraw" /\ receipt' = "ok" => FALSE
    <3>1. step = "withdraw" => ~(receipt = "ok")
      BY <1>1, <1>3 DEF MigrationInv, WithdrawnInv
    <3> QED
      BY <1>3, <1>14, <3>1
  <2>2. step \in {"down", "done", "save", "env"} => receipt' = "none"
    BY <1>3, <1>14 DEF MigrationInv, WithdrawnInv
  <2>3. step = "fund" => fund_amount + RESERVE + history.refilled >= history.withdrawn
    BY DEF MigrationInv, WithdrawnInv
  <2>4. step = "fund" /\ receipt' = "ok" => Arrived'
    BY <1>3, <1>13, <1>15, <1>16 DEF MigrationInv, WithdrawnInv
  <2>5. step \in {"save", "env", "done"} => Arrived'
    BY <1>13, <1>15 DEF MigrationInv, WithdrawnInv
  <2> QED
    BY <1>2, <1>3, <2>1, <2>2, <2>3, <2>4, <2>5 DEF WithdrawnInv
<1>18. NamedInv'
  <2>1. step = "deploy" /\ receipt' = "ok" => address' \in 1 .. Len(v4)
    BY <1>3, <1>14 DEF MigrationInv, NamedInv
  <2>2. step = "save" => v4'[v4_address].pool > 0
    BY <1>11, <1>13 DEF MigrationInv, NamedInv
  <2>3. \A c \in history.named \ {0} : v4'[c].pool > 0
    <3>1. ASSUME NEW c \in history.named \ {0} PROVE v4'[c].pool > 0
      <4>1. c \in 1 .. Len(v4) /\ v4[c].pool > 0
        BY <1>6 DEF MigrationInv, MigrationTypes, NamedInv
      <4> QED
        BY <1>11, <4>1
    <3> QED
      BY <3>1
  <2> QED
    BY <1>2, <1>3, <1>10, <1>11, <2>1, <2>2, <2>3 DEF MigrationInv, NamedInv
<1> QED
  BY <1>12, <1>17, <1>18 DEF MigrationInv

LEMMA Refilled3Keeps ==
  ASSUME MigrationInv, refilled3
  PROVE  MigrationInv'
<1>1. PICK call, type : call = Head(mempool[Owner]).call /\ type = "refill"
  OBVIOUS
<1>2. /\ includable(Owner, type) /\ includes(Owner, TRUE, 0) /\ TRUE \in BOOLEAN
      /\ call.amount <= coins /\ coins' = coins - call.amount
      /\ v3' = [v3 EXCEPT !.pool = @ + call.amount]
      /\ history' = [history EXCEPT !.refilled = @ + call.amount]
      /\ UNCHANGED <<v4, total_mined, pool_balance, fund_amount, v4_address, dotEnv>>
  BY <1>1 DEF refilled3, migrationLocals, migrationFiles
<1>3. /\ Queues(MigrationEntries)' /\ step' = step
      /\ \A i \in 1 .. Len(mempool'[Owner]) : FALSE
      /\ Head(mempool[Owner]) = mempool[Owner][1] /\ 1 \in 1 .. Len(mempool[Owner])
      /\ call.type = type /\ call \in MigrationCalls
      /\ \/ ~Head(mempool[Owner]).awaited /\ UNCHANGED <<receipt, address>>
         \/ /\ Head(mempool[Owner]).awaited /\ receipt = "pending" /\ address' = 0
            /\ receipt' = IF TRUE THEN "ok" ELSE "reverted"
  BY <1>1, <1>2, OwnerIncluded
<1>4. ~Head(mempool[Owner]).awaited /\ UNCHANGED <<receipt, address>>
  BY <1>1, <1>3 DEF MigrationInv, PendingInv
<1>5. PICK n \in Nat : n = call.amount
  BY <1>1, <1>3 DEF MigrationCalls
<1>6. /\ v3 \in Mines /\ v3.pool \in Nat /\ coins \in Nat /\ history \in HistoryTypes
      /\ history.withdrawn \in Nat /\ history.refilled \in Nat /\ Len(v4) \in Nat
      /\ \A c \in 1 .. Len(v4) : v4[c].pool \in Nat
  BY MinesAre DEF MigrationInv, MigrationTypes, Mines
<1>7. v3' \in Mines /\ v3'.mined = v3.mined /\ coins' \in Nat /\ coins' = coins - n
  BY <1>2, <1>5, <1>6 DEF Mines
<1>8. /\ history' \in HistoryTypes /\ history'.named = history.named
      /\ history'.withdrawn = history.withdrawn /\ history'.refilled = history.refilled + n
  BY <1>2, <1>5, <1>6 DEF HistoryTypes
<1>9. PendingInv' /\ MigrationTypes'
  BY <1>2, <1>3, <1>7, <1>8 DEF MigrationInv, PendingInv, MigrationTypes
<1>10. NamedInv'
  BY <1>2, <1>3, <1>4, <1>7, <1>8 DEF MigrationInv, NamedInv
<1>11. WithdrawnInv'
  <2>1. step = "withdraw" /\ receipt = "ok" =>
          history.withdrawn = pool_balance /\ coins' + history'.refilled >= history'.withdrawn
    BY <1>6, <1>7, <1>8 DEF MigrationInv, WithdrawnInv
  <2>2. step = "fund" => fund_amount + RESERVE + history'.refilled >= history'.withdrawn
    BY <1>6, <1>8, MigrationNats DEF MigrationInv, MigrationTypes, WithdrawnInv
  <2>3. ASSUME Arrived, step \in {"fund", "save", "env", "done"} PROVE Arrived'
    <3>1. v4[v4_address].pool \in Nat
      BY <1>6, <2>3 DEF MigrationInv, NamedInv
    <3> QED
      <4>1. PICK p \in Nat : p = v4[v4_address].pool
        BY <3>1
      <4>2. p + RESERVE + history.refilled >= history.withdrawn
        BY <2>3, <4>1 DEF Arrived
      <4>3. history'.refilled \in Nat /\ history'.refilled >= history.refilled
        BY <1>6, <1>8
      <4>4. p + RESERVE + history'.refilled >= history.withdrawn
        BY <1>6, <4>2, <4>3, MoreArrives
      <4> QED
        BY <1>2, <1>8, <4>1, <4>4 DEF Arrived
  <2> QED
    BY <1>2, <1>3, <1>4, <1>8, <2>1, <2>2, <2>3 DEF MigrationInv, WithdrawnInv
<1> QED
  BY <1>9, <1>10, <1>11 DEF MigrationInv

LEMMA CutMigrationKeeps ==
  ASSUME MigrationInv, cutMigration \/ killMigration
  PROVE  MigrationInv'
<1>1. CASE cutMigration
  <2>1. leaves("down") /\ UNCHANGED migrationVars
    BY <1>1 DEF cutMigration, raises, timesOut
  <2> QED
    BY <2>1, MigrationRaises
<1>2. CASE killMigration
  <2>1. /\ leaves("down") /\ UNCHANGED <<migrationChain, migrationLocals, history>>
        /\ dotEnv' \in {dotEnv, Torn}
    BY <1>2 DEF killMigration, isStopped
  <2> QED
    BY <2>1, MigrationLeaves
<1> QED
  BY <1>1, <1>2

\* MigrationInv does not speak of deployed.json itself, only of what it has named.
LEMMA MigrationStays ==
  ASSUME MigrationInv, UNCHANGED <<step, mempool, receipt, address, v3, v4, coins>>,
         UNCHANGED <<total_mined, pool_balance, fund_amount, v4_address, dotEnv, history>>
  PROVE  MigrationInv'
<1>1. MigrationTypes'
  BY DEF MigrationInv, MigrationTypes
<1>2. PendingInv'
  BY DEF MigrationInv, PendingInv, Queues
<1>3. WithdrawnInv'
  BY DEF MigrationInv, WithdrawnInv, Arrived
<1>4. NamedInv'
  BY DEF MigrationInv, NamedInv
<1> QED
  BY <1>1, <1>2, <1>3, <1>4 DEF MigrationInv

LEMMA RemoveDeployedKeeps ==
  ASSUME MigrationInv, removeDeployed
  PROVE  MigrationInv'
  BY MigrationStays DEF removeDeployed, scriptVars, migrationChain, migrationLocals

LEMMA MigrationKeeps ==
  ASSUME MigrationInv, MigrationNext
  PROVE  MigrationInv'
  BY BeginMigrationKeeps, SendsTxKeeps, ReadPoolKeeps, ReadBalanceKeeps, VerifyKeeps,
     SaveFilesKeeps, CutMigrationKeeps, Deployed4Keeps, Withdrawn3Keeps, Funded4Keeps,
     RefillSentKeeps, Refilled3Keeps, MineV3Keeps, RemoveDeployedKeeps DEF MigrationNext

LEMMA MigrationStart ==
  ASSUME Init
  PROVE  MigrationInv
<1>1. /\ step = "down" /\ receipt = "none" /\ mempool = [k \in Keys |-> <<>>]
      /\ v3 = [pool |-> InitialPool, mined |-> 0] /\ v4 = <<>> /\ coins = InitialCoins
      /\ total_mined = 0 /\ pool_balance = 0 /\ fund_amount = 0 /\ v4_address = 0 /\ dotEnv = 0
      /\ history = [withdrawn |-> 0, refilled |-> 0, named |-> {0}]
  BY DEF Init, ScriptInit, MigrationInit
<1>2. Len(v4) = 0 /\ v4 \in Seq(Mines)
  BY <1>1
<1>3. \A i \in 1 .. 0 : FALSE
  OBVIOUS
<1>4. /\ mempool \in [Keys -> Seq(MigrationEntries)]
      /\ \A k \in Keys : Len(mempool[k]) = 0
  BY <1>1
<1>5. PendingInv
  BY <1>1, <1>3, <1>4, MigrationNats DEF PendingInv, Queues
<1>6. MigrationTypes
  BY <1>1, <1>2, MigrationNats DEF MigrationTypes, Mines, HistoryTypes
<1>7. WithdrawnInv
  BY <1>1 DEF WithdrawnInv
<1>8. NamedInv
  BY <1>1, <1>2, <1>3 DEF NamedInv
<1> QED
  BY <1>5, <1>6, <1>7, <1>8 DEF MigrationInv

MigrationIInv ==
  \/ script = "migrate_to_v4" /\ MigrationInv
  \/ script # "migrate_to_v4" /\ dotEnv = 0 /\ v4_address = 0 /\ history.named = {0}

LEMMA MigrationStep ==
  ASSUME MigrationIInv, [Next]_vars
  PROVE  MigrationIInv'
<1>1. CASE UNCHANGED vars
  <2>1. /\ UNCHANGED <<step, mempool, receipt, address, v3, v4, coins>>
        /\ UNCHANGED <<total_mined, pool_balance, fund_amount, v4_address, dotEnv, history, script>>
    BY <1>1 DEF vars, scriptVars, migrationVars, migrationChain, migrationLocals, migrationFiles
  <2>2. MigrationInv => MigrationInv'
    BY <2>1, MigrationStays
  <2> QED
    BY <2>1, <2>2 DEF MigrationIInv
<1>2. CASE Next /\ script = "migrate_to_v4"
  <2>1. MigrationNext /\ script' = script
    BY <1>2 DEF Next, Migrate
  <2> QED
    BY <1>2, <2>1, MigrationKeeps DEF MigrationIInv
<1>3. CASE Next /\ script # "migrate_to_v4"
  BY <1>3 DEF Next, Dex, Rotate, HandOver, migrationVars, migrationLocals, migrationFiles,
              MigrationIInv
<1> QED
  BY <1>1, <1>2, <1>3

LEMMA MigrationAlways == Spec => []MigrationIInv
<1>1. Init => MigrationIInv
  BY MigrationStart DEF Init, MigrationInit, MigrationIInv
<1>2. MigrationIInv /\ [Next]_vars => MigrationIInv'
  BY MigrationStep
<1> QED
  BY <1>1, <1>2, PTL DEF Spec

\* The files never name a contract that is empty or counts proofs v3 never had, wherever
\* a run is cut: the pool is verified before the first file is written, and pools of v4
\* only grow (migrate_to_v4.py:175-226).
THEOREM MigrationSaves == Spec => []SavedIsFunded
<1>1. MigrationInv => SavedIsFunded
  BY MinesAre DEF MigrationInv, MigrationTypes, NamedInv, SavedIsFunded
<1>2. MigrationIInv => SavedIsFunded
  BY <1>1 DEF MigrationIInv, SavedIsFunded
<1> QED
  BY <1>2, MigrationAlways, PTL

\* What a run withdraws is in the new pool when the run saves its address, up to the
\* reserve and what the watchdog sent back, since nothing else the deployer signs can be
\* pending meanwhile (migrate_to_v4.py:124-173).
THEOREM MigrationPays == Spec => []PoolArrives
<1>1. MigrationIInv => PoolArrives
  BY DEF MigrationIInv, MigrationInv, WithdrawnInv, Arrived, PoolArrives
<1> QED
  BY <1>1, MigrationAlways, PTL


-----------------------------------------------------------------------------
(* The bUSDT the deployer holds                                              *)

MintEntries == {e \in Entries : e.call.type = "mint"}
pendingMints == Hits(mempool[BridgeOp], MintEntries)
awaitsMint == IF step = "mint" /\ receipt = "pending" THEN 1 ELSE 0

\* The whole pools' worths that lie with the deployer, leftovers aside, and what is
\* still to be minted for him.
Batches(pools) ==
  /\ pools \in Nat /\ balanceOf[Deployer] < LIQUIDITY * (pools + 1)
  /\ pools + pendingMints <= 1 + strayMints

\* Of the pending mints the runs have given up all but the awaited one.
BatchInv ==
  /\ strayMints \in Nat /\ balanceOf \in [Holders -> Int]
  /\ pendingMints <= strayMints + awaitsMint
  /\ \E m : Batches(m)
  /\ \A k \in Keys : \A i \in 1 .. Len(mempool[k]) :
       mempool[k][i].awaited /\ step = "mint" => k = BridgeOp /\ mempool[k][i].call.type = "mint"

LEMMA OneMorePool ==
  ASSUME NEW L \in Nat, NEW m \in Nat
  PROVE  L * ((m + 1) + 1) = L * (m + 1) + L /\ L * (m + 1) \in Nat
<1>1. PICK n \in Nat : n = m + 1
  OBVIOUS
<1>2. L * (n + 1) = L * n + L /\ L * n \in Nat
  BY <1>1
<1> QED
  BY <1>1, <1>2

LEMMA PoolsAre ==
  ASSUME DexInv, BatchInv
  PROVE  /\ LIQUIDITY \in Nat \ {0} /\ Deployer \in Holders /\ BridgeOp \in Keys
         /\ mempool[BridgeOp] \in Seq(Entries) /\ pendingMints \in Nat
         /\ awaitsMint \in {0, 1}
<1>1. LIQUIDITY \in Nat \ {0} /\ Deployer \in Holders /\ BridgeOp \in Keys
  BY DexAssumption
<1>2. mempool[BridgeOp] \in Seq(Entries)
  BY <1>1 DEF DexInv, MempoolInv, Queues
<1>3. PICK n \in Nat : n = Len(mempool[BridgeOp])
  BY <1>2, LenProperties
<1>4. pendingMints \in 0 .. n
  BY <1>2, <1>3, HitsBounds DEF pendingMints
<1> QED
  BY <1>1, <1>2, <1>4 DEF awaitsMint

\* A step that sends nothing and waits for nothing.
LEMMA BatchQuiet ==
  ASSUME DexInv, BatchInv, receipt # "pending", receipt' # "pending", mempool' = mempool,
         UNCHANGED <<balanceOf, strayMints>>
  PROVE  BatchInv'
<1>1. pendingMints' = pendingMints /\ awaitsMint = 0 /\ awaitsMint' = 0
  BY DEF pendingMints, awaitsMint
<1>2. \A m : Batches(m)' <=> Batches(m)
  BY <1>1 DEF Batches
<1>3. \A k \in Keys : \A i \in 1 .. Len(mempool[k]) : ~mempool[k][i].awaited
  BY DEF DexInv, MempoolInv, Queues
<1> QED
  BY <1>1, <1>2, <1>3 DEF BatchInv

\* A mint is sent only when the deployer has less than a pool.
LEMMA BatchSends ==
  ASSUME DexInv, BatchInv, NEW k \in Keys, NEW c \in Calls, sends(k, c), receipt = "none",
         UNCHANGED <<balanceOf, strayMints>>,
         c.type = "mint" => k = BridgeOp /\ step = "mint" /\ balanceOf[Deployer] < LIQUIDITY,
         c.type # "mint" => step # "mint"
  PROVE  BatchInv'
<1>1. PICK e : e = [call |-> c, awaited |-> TRUE]
  OBVIOUS
<1>2. e \in Entries /\ e.call = c
  BY <1>1 DEF Entries
<1>3. /\ receipt' = "pending" /\ step' = step
      /\ mempool' = [mempool EXCEPT ![k] = Append(@, e)]
  BY <1>1 DEF sends
<1>4. mempool \in [Keys -> Seq(Entries)]
  BY DEF DexInv, MempoolInv, Queues
<1>5. /\ LIQUIDITY \in Nat \ {0} /\ BridgeOp \in Keys
      /\ mempool[BridgeOp] \in Seq(Entries) /\ pendingMints \in Nat
  BY PoolsAre
<1>6. pendingMints' = pendingMints + IF c.type = "mint" THEN 1 ELSE 0
  <2>1. CASE k = BridgeOp
    <3>1. mempool'[BridgeOp] = Append(mempool[BridgeOp], e)
      BY <1>3, <1>4, <1>5, <2>1
    <3>2. Hits(Append(mempool[BridgeOp], e), MintEntries)
            = Hits(mempool[BridgeOp], MintEntries) + IF e \in MintEntries THEN 1 ELSE 0
      BY <1>2, <1>5, HitsAppend
    <3>3. e \in MintEntries <=> c.type = "mint"
      BY <1>2 DEF MintEntries
    <3> QED
      BY <3>1, <3>2, <3>3 DEF pendingMints
  <2>2. CASE k # BridgeOp
    <3>1. mempool'[BridgeOp] = mempool[BridgeOp] /\ c.type # "mint"
      BY <1>3, <1>4, <1>5, <2>2
    <3> QED
      BY <1>5, <3>1 DEF pendingMints
  <2> QED
    BY <2>1, <2>2
<1>7. awaitsMint = 0 /\ awaitsMint' = IF c.type = "mint" THEN 1 ELSE 0
  BY <1>3 DEF awaitsMint
<1>8. PICK m : Batches(m)
  BY DEF BatchInv
<1>9. pendingMints <= strayMints /\ strayMints \in Nat
  BY <1>5, <1>7 DEF BatchInv
<1>10. \E x : Batches(x)'
  <2>1. CASE c.type = "mint"
    <3>1. balanceOf[Deployer] < LIQUIDITY * (0 + 1)
      BY <1>5, <2>1
    <3>2. Batches(0)'
      BY <1>5, <1>6, <1>9, <2>1, <3>1 DEF Batches
    <3> QED
      BY <3>2
  <2>2. CASE c.type # "mint"
    <3>1. pendingMints' = pendingMints
      BY <1>5, <1>6, <2>2
    <3>2. Batches(m)'
      BY <1>8, <3>1 DEF Batches
    <3> QED
      BY <3>2
  <2> QED
    BY <2>1, <2>2
<1>11. pendingMints' <= strayMints' + awaitsMint'
  BY <1>5, <1>6, <1>7, <1>9
<1>12. ASSUME NEW l \in Keys, NEW i \in 1 .. Len(mempool'[l]), mempool'[l][i].awaited,
              step = "mint"
       PROVE  l = BridgeOp /\ mempool'[l][i].call.type = "mint"
  <2>1. \/ l = k /\ i = Len(mempool[k]) + 1 /\ mempool'[l][i] = e
        \/ i \in 1 .. Len(mempool[l]) /\ mempool'[l][i] = mempool[l][i]
    BY <1>2, <1>3, <1>4, <1>12, QueueAppend
  <2>2. \A j \in 1 .. Len(mempool[l]) : ~mempool[l][j].awaited
    BY DEF DexInv, MempoolInv, Queues
  <2> QED
    BY <1>2, <1>12, <2>1, <2>2
<1> QED
  BY <1>3, <1>10, <1>11, <1>12 DEF BatchInv

\* A run that ends counts the mint it was waiting for as stray.
LEMMA BatchLeaves ==
  ASSUME DexInv, BatchInv, leaves("down"), balanceOf' = balanceOf,
         strayMints' = strayMints + awaitsMint
  PROVE  BatchInv'
<1>1. \A e \in Entries : /\ [e EXCEPT !.awaited = FALSE] \in Entries
                         /\ [e EXCEPT !.awaited = FALSE].awaited = FALSE
                         /\ [e EXCEPT !.awaited = FALSE].call = e.call
  BY DEF Entries
<1>2. /\ Queues(Entries)' /\ step' = "down" /\ receipt' = "none"
      /\ \A k \in Keys : /\ Len(mempool'[k]) = Len(mempool[k])
                         /\ \A i \in 1 .. Len(mempool[k]) :
                              mempool'[k][i].call = mempool[k][i].call
  BY <1>1, QueuesLeave DEF DexInv, MempoolInv
<1>3. /\ BridgeOp \in Keys /\ mempool[BridgeOp] \in Seq(Entries)
      /\ pendingMints \in Nat /\ awaitsMint \in {0, 1}
  BY PoolsAre
<1>4. mempool'[BridgeOp] \in Seq(Entries)
  BY <1>2, <1>3 DEF Queues
<1>5. PICK n \in Nat : n = Len(mempool[BridgeOp])
  BY <1>3, LenProperties
<1>6. \A i \in 1 .. n : mempool'[BridgeOp][i] \in MintEntries <=> mempool[BridgeOp][i] \in MintEntries
  <2>1. ASSUME NEW i \in 1 .. n
        PROVE  mempool'[BridgeOp][i] \in MintEntries <=> mempool[BridgeOp][i] \in MintEntries
    <3>1. mempool[BridgeOp][i] \in Entries /\ mempool'[BridgeOp][i] \in Entries
      BY <1>2, <1>3, <1>4, <1>5, ElementOfSeq
    <3> QED
      BY <1>2, <1>3, <1>5, <3>1 DEF MintEntries
  <2> QED
    BY <2>1
<1>7. pendingMints' = pendingMints
  <2>1. Places(mempool'[BridgeOp], MintEntries, n) = Places(mempool[BridgeOp], MintEntries, n)
    BY <1>6 DEF Places
  <2> QED
    BY <1>2, <1>3, <1>5, <2>1 DEF pendingMints, Hits
<1>8. awaitsMint' = 0 /\ strayMints \in Nat /\ strayMints' \in Nat /\ strayMints' >= strayMints
  BY <1>2, <1>3 DEF awaitsMint, BatchInv
<1>9. PICK m : Batches(m)
  BY DEF BatchInv
<1>10. Batches(m)'
  BY <1>3, <1>7, <1>8, <1>9 DEF Batches
<1>11. pendingMints' <= strayMints' + awaitsMint'
  BY <1>3, <1>7, <1>8 DEF BatchInv
<1> QED
  BY <1>2, <1>8, <1>10, <1>11 DEF BatchInv

\* What an inclusion does to the pending mints and to what the script waits for.
LEMMA MintsIncluded ==
  ASSUME DexInv, BatchInv, NEW k \in Keys, NEW type, includable(k, type), NEW ok \in BOOLEAN,
         NEW made, includes(k, ok, made), type = "mint" => k = BridgeOp
  PROVE  /\ pendingMints' = pendingMints - IF type = "mint" THEN 1 ELSE 0
         /\ pendingMints' \in Nat /\ awaitsMint' \in {0, 1}
         /\ awaitsMint' = awaitsMint \/ (type = "mint" /\ awaitsMint = 1 /\ awaitsMint' = 0)
         /\ \A l \in Keys : \A i \in 1 .. Len(mempool'[l]) :
              mempool'[l][i].awaited /\ step' = "mint"
                => l = BridgeOp /\ mempool'[l][i].call.type = "mint"
<1>1. mempool[k] # <<>> /\ Head(mempool[k]).call.type = type
  BY DEF includable
<1>2. /\ Queues(Entries)' /\ step' = step
      /\ Head(mempool[k]) \in Entries /\ Head(mempool[k]) = mempool[k][1]
      /\ Len(mempool[k]) \in Nat \ {0} /\ mempool'[k] = Tail(mempool[k])
      /\ \A l \in Keys : l # k => mempool'[l] = mempool[l]
      /\ \A l \in Keys : \A i \in 1 .. Len(mempool'[l]) :
           \E j \in 1 .. Len(mempool[l]) : mempool'[l][i] = mempool[l][j]
      /\ \/ ~Head(mempool[k]).awaited /\ UNCHANGED <<receipt, address>>
         \/ /\ Head(mempool[k]).awaited /\ receipt = "pending"
            /\ receipt' = IF ok THEN "ok" ELSE "reverted"
  BY <1>1, QueuesInclude DEF DexInv, MempoolInv
<1>3. /\ BridgeOp \in Keys /\ mempool[BridgeOp] \in Seq(Entries) /\ pendingMints \in Nat
      /\ awaitsMint \in {0, 1}
  BY PoolsAre
<1>4. pendingMints' \in Nat
  <2>1. mempool'[BridgeOp] \in Seq(Entries)
    BY <1>2, <1>3 DEF Queues
  <2>2. PICK n \in Nat : n = Len(mempool'[BridgeOp])
    BY <2>1, LenProperties
  <2>3. PICK q : q = mempool'[BridgeOp]
    OBVIOUS
  <2>4. Hits(q, MintEntries) \in 0 .. n
    BY <2>1, <2>2, <2>3, HitsBounds
  <2> QED
    BY <2>2, <2>3, <2>4 DEF pendingMints
<1>5. pendingMints' = pendingMints - IF type = "mint" THEN 1 ELSE 0
  <2>1. CASE k = BridgeOp
    <3>1. Hits(mempool[BridgeOp], MintEntries)
            = Hits(Tail(mempool[BridgeOp]), MintEntries)
                + IF Head(mempool[BridgeOp]) \in MintEntries THEN 1 ELSE 0
      BY <1>1, <1>3, <2>1, HitsTail
    <3>2. Head(mempool[BridgeOp]) \in MintEntries <=> type = "mint"
      BY <1>1, <1>2, <2>1 DEF MintEntries
    <3>3. pendingMints' = Hits(Tail(mempool[BridgeOp]), MintEntries)
      BY <1>2, <2>1 DEF pendingMints
    <3> QED
      BY <1>3, <1>4, <3>1, <3>2, <3>3 DEF pendingMints
  <2>2. CASE k # BridgeOp
    <3>1. mempool'[BridgeOp] = mempool[BridgeOp] /\ type # "mint"
      BY <1>2, <1>3, <2>2
    <3> QED
      BY <1>3, <3>1 DEF pendingMints
  <2> QED
    BY <2>1, <2>2
<1>6. Head(mempool[k]).awaited /\ step = "mint" => type = "mint"
  <2>1. 1 \in 1 .. Len(mempool[k])
    BY <1>2
  <2> QED
    BY <1>1, <1>2, <2>1 DEF BatchInv
<1>7. awaitsMint' \in {0, 1}
      /\ (awaitsMint' = awaitsMint \/ (type = "mint" /\ awaitsMint = 1 /\ awaitsMint' = 0))
  <2>1. CASE ~Head(mempool[k]).awaited
    <3>1. awaitsMint' = awaitsMint
      BY <1>2, <2>1 DEF awaitsMint
    <3> QED
      BY <1>3, <3>1
  <2>2. CASE Head(mempool[k]).awaited
    <3>1. receipt = "pending" /\ receipt' # "pending"
      BY <1>2, <2>2
    <3>2. CASE step = "mint"
      <4>1. awaitsMint = 1 /\ awaitsMint' = 0 /\ type = "mint"
        BY <1>2, <1>6, <2>2, <3>1, <3>2 DEF awaitsMint
      <4> QED
        BY <4>1
    <3>3. CASE step # "mint"
      <4>1. awaitsMint = 0 /\ awaitsMint' = 0
        BY <1>2, <3>1, <3>3 DEF awaitsMint
      <4> QED
        BY <4>1
    <3> QED
      BY <3>2, <3>3
  <2> QED
    BY <2>1, <2>2
<1>8. ASSUME NEW l \in Keys, NEW i \in 1 .. Len(mempool'[l]), mempool'[l][i].awaited,
             step = "mint"
      PROVE  l = BridgeOp /\ mempool'[l][i].call.type = "mint"
  <2>1. PICK j \in 1 .. Len(mempool[l]) : mempool'[l][i] = mempool[l][j]
    BY <1>2
  <2> QED
    BY <1>8, <2>1 DEF BatchInv
<1> QED
  BY <1>2, <1>4, <1>5, <1>7, <1>8

\* Nothing but a mint adds to what the deployer holds.
LEMMA BatchIncludes ==
  ASSUME DexInv, BatchInv, NEW k \in Keys, NEW type, type # "mint", includable(k, type),
         NEW ok \in BOOLEAN, NEW made, includes(k, ok, made), strayMints' = strayMints,
         balanceOf' \in [Holders -> Int],
         balanceOf'[Deployer] <= balanceOf[Deployer]
  PROVE  BatchInv'
<1>1. /\ pendingMints' = pendingMints /\ awaitsMint' = awaitsMint
      /\ \A l \in Keys : \A i \in 1 .. Len(mempool'[l]) :
           mempool'[l][i].awaited /\ step' = "mint"
             => l = BridgeOp /\ mempool'[l][i].call.type = "mint"
  BY MintsIncluded, PoolsAre
<1>2. PICK m : Batches(m)
  BY DEF BatchInv
<1>3. /\ m \in Nat /\ LIQUIDITY \in Nat /\ Deployer \in Holders
      /\ balanceOf[Deployer] \in Int /\ balanceOf'[Deployer] \in Int
      /\ balanceOf[Deployer] < LIQUIDITY * (m + 1)
  BY <1>2, PoolsAre DEF Batches, BatchInv
<1>4. LIQUIDITY * (m + 1) \in Nat
  BY <1>3, OneMorePool
<1>5. Batches(m)'
  BY <1>1, <1>2, <1>3, <1>4 DEF Batches
<1> QED
  BY <1>1, <1>5 DEF BatchInv

\* One mint less is pending; whether it was the awaited one makes no difference.
LEMMA OneMintLess ==
  ASSUME NEW p \in Nat, NEW s \in Nat, NEW a \in {0, 1}, NEW b \in {0, 1}, p <= s + a,
         b = a \/ (a = 1 /\ b = 0)
  PROVE  p - 1 <= s + b
OBVIOUS

LEMMA MintedBatches ==
  ASSUME DexInv, BatchInv, minted
  PROVE  BatchInv'
<1>1. PICK type : type = "mint"
  OBVIOUS
<1>2. PICK hash : hash = Head(mempool[BridgeOp]).call.hash
  OBVIOUS
<1>3. PICK ok \in BOOLEAN :
        /\ includable(BridgeOp, type) /\ includes(BridgeOp, ok, 0) /\ strayMints' = strayMints
        /\ \/ balanceOf' = balanceOf
           \/ balanceOf' = [balanceOf EXCEPT ![Deployer] = @ + LIQUIDITY]
  <2>1. CASE mintable(BridgeOp, Deployer, LIQUIDITY, hash)
    <3>1. /\ includable(BridgeOp, type) /\ includes(BridgeOp, TRUE, 0) /\ strayMints' = strayMints
          /\ balanceOf' = [balanceOf EXCEPT ![Deployer] = @ + LIQUIDITY]
      BY <1>1, <1>2, <2>1 DEF minted, bridgeMint, dexVars
    <3> QED
      BY <3>1
  <2>2. CASE ~mintable(BridgeOp, Deployer, LIQUIDITY, hash)
    <3>1. /\ includable(BridgeOp, type) /\ includes(BridgeOp, FALSE, 0) /\ strayMints' = strayMints
          /\ balanceOf' = balanceOf
      BY <1>1, <1>2, <2>2 DEF minted, dexVars, tokenVars
    <3> QED
      BY <3>1
  <2> QED
    BY <2>1, <2>2
<1>4. /\ LIQUIDITY \in Nat \ {0} /\ Deployer \in Holders /\ BridgeOp \in Keys
      /\ pendingMints \in Nat /\ awaitsMint \in {0, 1}
  BY PoolsAre
<1>5. /\ pendingMints' = pendingMints - 1 /\ pendingMints' \in Nat /\ awaitsMint' \in {0, 1}
      /\ awaitsMint' = awaitsMint \/ (awaitsMint = 1 /\ awaitsMint' = 0)
      /\ \A l \in Keys : \A i \in 1 .. Len(mempool'[l]) :
           mempool'[l][i].awaited /\ step' = "mint"
             => l = BridgeOp /\ mempool'[l][i].call.type = "mint"
  BY <1>1, <1>3, <1>4, MintsIncluded
<1>6. PICK m : Batches(m)
  BY DEF BatchInv
<1>7. /\ m \in Nat /\ strayMints \in Nat /\ balanceOf[Deployer] < LIQUIDITY * (m + 1)
      /\ balanceOf \in [Holders -> Int] /\ m + pendingMints <= 1 + strayMints
  BY <1>6 DEF Batches, BatchInv
<1>8. /\ balanceOf' \in [Holders -> Int] /\ balanceOf[Deployer] \in Int
      /\ balanceOf'[Deployer] \in {balanceOf[Deployer], balanceOf[Deployer] + LIQUIDITY}
  BY <1>3, <1>4, <1>7
<1>9. \E x : Batches(x)'
  <2>1. LIQUIDITY * ((m + 1) + 1) = LIQUIDITY * (m + 1) + LIQUIDITY /\ LIQUIDITY * (m + 1) \in Nat
    BY <1>4, <1>7, OneMorePool
  <2>2. balanceOf'[Deployer] < LIQUIDITY * ((m + 1) + 1)
    BY <1>4, <1>7, <1>8, <2>1
  <2>3. (m + 1) + pendingMints' <= 1 + strayMints' /\ m + 1 \in Nat
    BY <1>3, <1>4, <1>5, <1>7
  <2>4. Batches(m + 1)'
    BY <2>2, <2>3 DEF Batches
  <2> QED
    BY <2>4
<1>10. pendingMints' <= strayMints' + awaitsMint'
  <2>1. pendingMints <= strayMints + awaitsMint
    BY DEF BatchInv
  <2>2. PICK b \in {0, 1} : b = awaitsMint'
    BY <1>5
  <2>3. b = awaitsMint \/ (awaitsMint = 1 /\ b = 0)
    BY <1>5, <2>2
  <2>4. pendingMints - 1 <= strayMints + b
    BY <1>4, <1>7, <2>1, <2>3, OneMintLess
  <2>5. strayMints' = strayMints /\ pendingMints' = pendingMints - 1
    BY <1>3, <1>5
  <2> QED
    BY <2>2, <2>4, <2>5
<1> QED
  BY <1>3, <1>5, <1>7, <1>8, <1>9, <1>10 DEF BatchInv

\* What the router may take of a pool's worth.
LEMMA NineTenths ==
  ASSUME NEW L \in Nat
  PROVE  \A amount \in ((L * 9) \div 10) .. L : amount \in Nat
<1>1. PICK n : n = (L * 9) \div 10
  OBVIOUS
<1>2. n \in Nat
  BY <1>1
<1> QED
  BY <1>1, <1>2

LEMMA LiquidityBatches ==
  ASSUME DexInv, BatchInv, liquidityAdded
  PROVE  BatchInv'
<1>1. PICK type : type = "liquidity"
  OBVIOUS
<1>2. balanceOf \in [Holders -> Int] /\ LIQUIDITY \in Nat \ {0} /\ Deployer \in Holders
  BY PoolsAre DEF BatchInv
<1>3. Deployer \in Keys
  BY DexAssumption
<1>4. PICK ok \in BOOLEAN :
        /\ includable(Deployer, type) /\ includes(Deployer, ok, 0) /\ strayMints' = strayMints
        /\ \/ balanceOf' = balanceOf
           \/ \E to, amount : amount \in Nat /\ balanceOf' = Move(balanceOf, Deployer, to, amount)
  <2>1. PICK router : router = Head(mempool[Deployer]).call.router
    OBVIOUS
  <2>2. \A amount : amount \in asked(router) => amount \in Nat
    BY <1>2, NineTenths DEF asked
  <2>3. \/ /\ \E amount \in asked(router) : \E pair : transferFrom(router, Deployer, pair, amount)
           /\ includes(Deployer, TRUE, 0)
        \/ includes(Deployer, FALSE, 0) /\ balanceOf' = balanceOf
    BY <2>1 DEF liquidityAdded, tokenVars, supply
  <2>4. includable(Deployer, type) /\ strayMints' = strayMints
    BY <1>1 DEF liquidityAdded
  <2>5. ASSUME NEW amount, NEW pair, transferFrom(router, Deployer, pair, amount)
        PROVE  balanceOf' = Move(balanceOf, Deployer, pair, amount)
    BY <2>5 DEF transferFrom, _transfer
  <2> QED
    BY <2>2, <2>3, <2>4, <2>5
<1>5. ASSUME NEW to, NEW amount \in Nat, balanceOf' = Move(balanceOf, Deployer, to, amount)
      PROVE  balanceOf' \in [Holders -> Int] /\ balanceOf'[Deployer] <= balanceOf[Deployer]
  <2>1. PICK b : b = [balanceOf EXCEPT ![Deployer] = @ - amount]
    OBVIOUS
  <2>2. b \in [Holders -> Int] /\ b[Deployer] = balanceOf[Deployer] - amount
    BY <1>2, <1>5, <2>1
  <2>3. balanceOf' = [b EXCEPT ![to] = @ + amount]
    BY <1>5, <2>1 DEF Move
  <2>4. balanceOf' \in [Holders -> Int]
    <3>1. \A h \in Holders : b[h] \in Int /\ b[h] + amount \in Int
      BY <1>5, <2>2
    <3>2. PICK f : f = balanceOf'
      OBVIOUS
    <3>3. f = [h \in Holders |-> IF h = to THEN b[h] + amount ELSE b[h]]
      BY <2>2, <2>3, <3>2
    <3>4. f \in [Holders -> Int]
      BY <3>1, <3>3
    <3> QED
      BY <3>2, <3>4
  <2>5. balanceOf'[Deployer] = IF to = Deployer THEN b[Deployer] + amount ELSE b[Deployer]
    BY <1>2, <2>2, <2>3
  <2>6. balanceOf[Deployer] \in Int
    BY <1>2
  <2> QED
    BY <1>5, <2>2, <2>4, <2>5, <2>6
<1>6. balanceOf' \in [Holders -> Int] /\ balanceOf'[Deployer] <= balanceOf[Deployer]
  <2>1. CASE balanceOf' = balanceOf
    BY <1>2, <2>1
  <2>2. CASE \E to, amount : amount \in Nat /\ balanceOf' = Move(balanceOf, Deployer, to, amount)
    BY <1>5, <2>2
  <2> QED
    BY <1>4, <2>1, <2>2
<1> QED
  BY <1>1, <1>3, <1>4, <1>6, BatchIncludes

LEMMA SameHoldings ==
  ASSUME DexInv, BatchInv, balanceOf' = balanceOf
  PROVE  balanceOf' \in [Holders -> Int] /\ balanceOf'[Deployer] <= balanceOf[Deployer]
<1>1. balanceOf \in [Holders -> Int] /\ Deployer \in Holders
  BY PoolsAre DEF BatchInv
<1>2. balanceOf[Deployer] \in Int
  BY <1>1
<1> QED
  BY <1>1, <1>2

LEMMA DeployedBatches ==
  ASSUME DexInv, BatchInv, NEW p \in Parts, deployed(p)
  PROVE  BatchInv'
<1>1. /\ includable(Deployer, p) /\ Deployer \in Keys /\ p # "mint"
      /\ balanceOf' = balanceOf /\ strayMints' = strayMints
  BY DexAssumption DEF deployed, tokenVars, Parts
<1>2. PICK ok \in BOOLEAN : includes(Deployer, ok, contracts + 1)
  BY DEF deployed
<1>3. balanceOf' \in [Holders -> Int] /\ balanceOf'[Deployer] <= balanceOf[Deployer]
  BY <1>1, SameHoldings
<1> QED
  BY <1>1, <1>2, <1>3, BatchIncludes

LEMMA ApprovedBatches ==
  ASSUME DexInv, BatchInv, approved
  PROVE  BatchInv'
<1>1. PICK type : type = "approve"
  OBVIOUS
<1>2. /\ includable(Deployer, type) /\ includes(Deployer, TRUE, 0) /\ Deployer \in Keys
      /\ type # "mint" /\ TRUE \in BOOLEAN
      /\ balanceOf' = balanceOf /\ strayMints' = strayMints
  BY <1>1, DexAssumption DEF approved, approve, supply, dexVars
<1>3. balanceOf' \in [Holders -> Int] /\ balanceOf'[Deployer] <= balanceOf[Deployer]
  BY <1>2, SameHoldings
<1> QED
  BY <1>2, <1>3, BatchIncludes


\* The steps that send, save and answer.
LEMMA SilentBatches ==
  ASSUME DexInv, BatchInv, beginDex \/ removeResume \/ \E p \in Parts : skipPart(p) \/ savePart(p)
  PROVE  BatchInv'
<1>1. CASE beginDex
  <2>1. /\ step = "down" /\ receipt' = receipt /\ mempool' = mempool
        /\ balanceOf' = balanceOf /\ strayMints' = strayMints
    BY <1>1 DEF beginDex, begins, tokenVars, supply
  <2>2. receipt = "none"
    BY <2>1 DEF DexInv, StepInv
  <2> QED
    BY <2>1, <2>2, BatchQuiet
<1>2. CASE removeResume
  <2>1. /\ step = "down" /\ receipt' = receipt /\ mempool' = mempool
        /\ balanceOf' = balanceOf /\ strayMints' = strayMints
    BY <1>2 DEF removeResume, scriptVars, tokenVars, supply
  <2>2. receipt = "none"
    BY <2>1 DEF DexInv, StepInv
  <2> QED
    BY <2>1, <2>2, BatchQuiet
<1>3. ASSUME NEW p \in Parts, skipPart(p)
      PROVE  BatchInv'
  <2>1. /\ receipt = "none" /\ receipt' = receipt /\ mempool' = mempool
        /\ balanceOf' = balanceOf /\ strayMints' = strayMints
    BY <1>3 DEF skipPart, at, passes, tokenVars, supply, dexVars
  <2> QED
    BY <2>1, BatchQuiet
<1>4. ASSUME NEW p \in Parts, savePart(p)
      PROVE  BatchInv'
  <2>1. /\ receipt = "ok" /\ receipt' = "none" /\ mempool' = mempool
        /\ balanceOf' = balanceOf /\ strayMints' = strayMints
    BY <1>4 DEF savePart, succeeds, answered, tokenVars, supply
  <2> QED
    BY <2>1, BatchQuiet
<1> QED
  BY <1>1, <1>2, <1>3, <1>4

\* A run that raises was waiting for no mint.
LEMMA RaisesBatches ==
  ASSUME DexInv, BatchInv, raises, receipt # "pending", UNCHANGED <<balanceOf, strayMints>>
  PROVE  BatchInv'
<1>1. awaitsMint = 0 /\ leaves("down") /\ strayMints \in Nat
  BY DEF awaitsMint, raises, BatchInv
<1> QED
  BY <1>1, BatchLeaves

LEMMA SentBatches ==
  ASSUME DexInv, BatchInv, approveRouter \/ addLiquidity \/ \E p \in Parts : sendPart(p)
  PROVE  BatchInv'
<1>1. Deployer \in Keys /\ resume.router \in Nat
  BY DexAssumption DEF DexInv, Fits, Parts
<1>2. ASSUME NEW p \in Parts, sendPart(p)
      PROVE  BatchInv'
  <2>1. /\ step = p /\ receipt = "none" /\ p # "mint"
        /\ balanceOf' = balanceOf /\ strayMints' = strayMints
    BY <1>2 DEF sendPart, at, tokenVars, supply, dexVars, Parts
  <2>2. PICK c : c = partCall(p)
    OBVIOUS
  <2>3. c \in Calls /\ c.type = p
    BY <2>2 DEF partCall, Calls, DexInv, Fits, Parts
  <2>4. raises \/ sends(Deployer, c)
    BY <1>2, <2>2 DEF sendPart
  <2> QED
    BY <1>1, <2>1, <2>3, <2>4, RaisesBatches, BatchSends
<1>3. ASSUME NEW type \in {"approve", "liquidity"}, step = type, receipt = "none",
             UNCHANGED <<balanceOf, strayMints>>,
             raises \/ sends(Deployer, [type |-> type, router |-> resume.router])
      PROVE  BatchInv'
  <2>1. PICK c : c = [type |-> type, router |-> resume.router]
    OBVIOUS
  <2>2. c \in Calls /\ c.type = type
    BY <1>1, <2>1 DEF Calls
  <2> QED
    BY <1>1, <1>3, <2>1, <2>2, RaisesBatches, BatchSends
<1>4. CASE approveRouter
  <2>1. /\ step = "approve" /\ receipt = "none" /\ UNCHANGED <<balanceOf, strayMints>>
        /\ sends(Deployer, [type |-> "approve", router |-> resume.router])
    BY <1>4 DEF approveRouter, at, tokenVars, supply, dexVars
  <2> QED
    BY <1>3, <2>1
<1>5. CASE addLiquidity
  <2>1. /\ step = "liquidity" /\ receipt = "none" /\ UNCHANGED <<balanceOf, strayMints>>
        /\ raises \/ sends(Deployer, [type |-> "liquidity", router |-> resume.router])
    BY <1>5 DEF addLiquidity, at, tokenVars, supply, dexVars
  <2> QED
    BY <1>3, <2>1
<1> QED
  BY <1>2, <1>4, <1>5

LEMMA MintSentBatches ==
  ASSUME DexInv, BatchInv, mintTokens
  PROVE  BatchInv'
<1>1. /\ step = "mint" /\ receipt = "none"
      /\ balanceOf' = balanceOf /\ strayMints' = strayMints
  BY DEF mintTokens, at, tokenVars, supply, dexVars
<1>2. CASE passes("approve")
  <2>1. receipt' = receipt /\ mempool' = mempool
    BY <1>2 DEF passes
  <2> QED
    BY <1>1, <2>1, BatchQuiet
<1>3. ASSUME NEW t \in EthTxs, tokensShort, sends(BridgeOp, [type |-> "mint", hash |-> t])
      PROVE  BatchInv'
  <2>1. PICK c : c = [type |-> "mint", hash |-> t]
    OBVIOUS
  <2>2. c \in Calls /\ c.type = "mint" /\ BridgeOp \in Keys
    BY <2>1, DexAssumption DEF Calls
  <2>3. balanceOf[Deployer] < LIQUIDITY
    BY <1>3 DEF tokensShort
  <2> QED
    BY <1>1, <1>3, <2>1, <2>2, <2>3, BatchSends
<1>4. CASE raises
  BY <1>1, <1>4, RaisesBatches
<1> QED
  BY <1>2, <1>3, <1>4 DEF mintTokens

LEMMA AnsweredBatches ==
  ASSUME DexInv, BatchInv, dexAnswered
  PROVE  BatchInv'
<1>1. balanceOf' = balanceOf /\ strayMints' = strayMints
  BY DEF dexAnswered, tokenVars, supply, dexVars
<1>2. ASSUME NEW s, succeeds(s), NEW next, answered(next)
      PROVE  BatchInv'
  <2>1. receipt = "ok" /\ receipt' = "none" /\ mempool' = mempool
    BY <1>2 DEF succeeds, answered
  <2> QED
    BY <1>1, <2>1, BatchQuiet
<1>3. CASE receipt = "reverted" /\ raises
  BY <1>1, <1>3, RaisesBatches
<1> QED
  BY <1>2, <1>3 DEF dexAnswered

LEMMA CutBatches ==
  ASSUME DexInv, BatchInv, cutDex
  PROVE  BatchInv'
<1>1. leaves("down") /\ balanceOf' = balanceOf /\ strayMints \in Nat
  BY DEF cutDex, timesOut, isStopped, tokenVars, supply, BatchInv
<1>2. strayMints' = strayMints + awaitsMint
  BY <1>1 DEF cutDex, awaitsMint
<1> QED
  BY <1>1, <1>2, BatchLeaves

LEMMA BatchKeeps ==
  ASSUME DexInv, BatchInv, DexNext
  PROVE  BatchInv'
  BY SilentBatches, SentBatches, MintSentBatches, AnsweredBatches, CutBatches,
     MintedBatches, ApprovedBatches, LiquidityBatches, DeployedBatches DEF DexNext

BatchIInv ==
  IF script = "deploy-dex" THEN DexInv /\ BatchInv
  ELSE balanceOf = [h \in Holders |-> 0] /\ strayMints = 0

LEMMA BatchStart ==
  ASSUME Init
  PROVE  BatchIInv
<1>1. /\ balanceOf = [h \in Holders |-> 0] /\ strayMints = 0
      /\ mempool = [k \in Keys |-> <<>>] /\ step = "down"
  BY DEF Init, TokenInit, DexInit, ScriptInit
<1>2. LIQUIDITY \in Nat /\ Deployer \in Holders /\ BridgeOp \in Keys
  BY DexAssumption
<1>3. pendingMints = 0 /\ awaitsMint = 0
  BY <1>1, <1>2, HitsEmpty DEF pendingMints, awaitsMint
<1>4. Batches(0)
  <2>1. LIQUIDITY * (0 + 1) = LIQUIDITY /\ LIQUIDITY > 0
    BY DexAssumption
  <2>2. balanceOf[Deployer] = 0
    BY <1>1, <1>2
  <2> QED
    BY <1>1, <1>3, <2>1, <2>2 DEF Batches
<1>5. BatchInv
  BY <1>1, <1>3, <1>4 DEF BatchInv
<1> QED
  BY <1>1, <1>5, InitIInv DEF BatchIInv, IInv

LEMMA BatchStep ==
  ASSUME BatchIInv, [Next]_vars
  PROVE  BatchIInv'
<1>1. CASE UNCHANGED vars
  <2>1. UNCHANGED <<script, step, receipt, mempool, balanceOf, strayMints>>
    BY <1>1 DEF vars, scriptVars, tokenVars, supply, dexVars
  <2>2. script = "deploy-dex" => DexInv'
    <3>1. IInv' \/ script # "deploy-dex"
      BY <1>1, NextIInv DEF BatchIInv, IInv
    <3> QED
      BY <2>1, <3>1 DEF IInv
  <2>3. pendingMints' = pendingMints /\ awaitsMint' = awaitsMint
    BY <2>1 DEF pendingMints, awaitsMint
  <2>4. \A m : Batches(m)' <=> Batches(m)
    BY <2>1, <2>3 DEF Batches
  <2>5. BatchInv => BatchInv'
    BY <2>1, <2>3, <2>4 DEF BatchInv
  <2> QED
    BY <2>1, <2>2, <2>5 DEF BatchIInv
<1>2. CASE Next /\ script = "deploy-dex"
  <2>1. DexNext /\ script' = script
    BY <1>2 DEF Next, Dex
  <2> QED
    BY <1>2, <2>1, DexKeeps, BatchKeeps DEF BatchIInv
<1>3. CASE Next /\ script # "deploy-dex"
  <2>1. ASSUME HandoverNext
        PROVE  balanceOf' = balanceOf
    <3>1. CASE UNCHANGED tokenVars
      BY <3>1 DEF tokenVars, supply
    <3>2. ASSUME NEW first, tokenDeployed(first)
          PROVE  balanceOf' = balanceOf
      BY <3>2 DEF tokenDeployed, supply
    <3>3. CASE offered
      BY <3>3 DEF offered, transferOperator, tokenVars, supply
    <3>4. ASSUME NEW key, accepted(key)
          PROVE  balanceOf' = balanceOf
      BY <3>4 DEF accepted, acceptOperator, tokenVars, supply
    <3>5. \/ UNCHANGED tokenVars
          \/ \E first : tokenDeployed(first)
          \/ offered
          \/ \E key : accepted(key)
      BY <2>1 DEF HandoverNext, beginScript, beginHandover, sendGas, deployToken, installToken,
                    offer, accept, setOperator, handoverAnswered, verifyStrict, verifyLax,
                    reportInstalled, stopHandover, gasSent, deployed_busdt
    <3> QED
      BY <3>1, <3>2, <3>3, <3>4, <3>5
  <2>2. balanceOf' = balanceOf /\ strayMints' = strayMints /\ script' = script
    BY <1>3, <2>1 DEF Next, Migrate, Rotate, HandOver, dexVars, tokenVars, supply
  <2> QED
    BY <1>3, <2>2 DEF BatchIInv
<1> QED
  BY <1>1, <1>2, <1>3

LEMMA MorePools ==
  ASSUME NEW L \in Nat, NEW m \in Nat, NEW n \in Nat, m <= n
  PROVE  L * m <= L * n
<1>1. n - m \in Nat /\ n = m + (n - m)
  OBVIOUS
<1>2. L * (n - m) \in Nat
  BY <1>1
<1>3. L * n = L * m + L * (n - m)
  BY <1>1
<1> QED
  BY <1>2, <1>3

\* However often deploy-dex.py is run and cut, and whatever share the pool's price let the
\* router take, the bUSDT it leaves with the deployer is less than two pools' worth, and
\* one more for each mint a run sent and did not see included: a later run mints a whole
\* pool's worth, but only while the deployer holds less than that (deploy-dex.py:371-407).
THEOREM OneBatch == Spec => []OneBatchIdle
<1>1. BatchIInv => OneBatchIdle
  <2>1. CASE script = "deploy-dex" /\ BatchIInv
    <3>1. DexInv /\ BatchInv
      BY <2>1 DEF BatchIInv
    <3>2. PICK m : Batches(m)
      BY <3>1 DEF BatchInv
    <3>3. /\ LIQUIDITY \in Nat /\ m + 1 \in Nat /\ 2 + strayMints \in Nat
          /\ m + 1 <= 2 + strayMints /\ balanceOf[Deployer] < LIQUIDITY * (m + 1)
          /\ balanceOf[Deployer] \in Int
      BY <3>1, <3>2, PoolsAre DEF Batches, BatchInv
    <3>4. LIQUIDITY * (m + 1) <= LIQUIDITY * (2 + strayMints)
      BY <3>3, MorePools
    <3>5. LIQUIDITY * (m + 1) \in Nat /\ LIQUIDITY * (2 + strayMints) \in Nat
      BY <3>3
    <3> QED
      BY <3>3, <3>4, <3>5 DEF OneBatchIdle
  <2>2. CASE script # "deploy-dex" /\ BatchIInv
    <3>1. LIQUIDITY \in Nat /\ Deployer \in Holders /\ LIQUIDITY > 0
      BY DexAssumption
    <3>2. balanceOf[Deployer] = 0 /\ 2 + strayMints = 2
      BY <2>2, <3>1 DEF BatchIInv
    <3>3. LIQUIDITY * (2 + strayMints) = LIQUIDITY + LIQUIDITY
      BY <3>1, <3>2
    <3> QED
      BY <3>1, <3>2, <3>3 DEF OneBatchIdle
  <2> QED
    BY <2>1, <2>2
<1>2. Init => BatchIInv
  BY BatchStart
<1>3. BatchIInv /\ [Next]_vars => BatchIInv'
  BY BatchStep
<1> QED
  BY <1>1, <1>2, <1>3, PTL DEF Spec
=============================================================================
