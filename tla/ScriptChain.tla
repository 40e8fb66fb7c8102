----------------------------- MODULE ScriptChain -----------------------------
(***************************************************************************)
(* What the maintenance scripts under scripts/ share: one script at a time *)
(* goes through its steps, sends a transaction, waits for the receipt and  *)
(* goes on.  The node keeps every accepted transaction, in nonce order per *)
(* account, until a validator includes it, also when the script that sent  *)
(* it has given up or was stopped; somebody then runs the script again.    *)
(***************************************************************************)
EXTENDS Integers, Sequences

CONSTANTS
  Keys,               \* accounts the scripts sign for
  MaxRuns, MaxCuts    \* bounds: runs of a script; waits or runs cut short

ASSUME ScriptAssumption == MaxRuns \in Nat /\ MaxCuts \in Nat

VARIABLES
  step,      \* of the running script; "down" or "done" when none runs
  mempool,   \* of each account: its transactions, and who still waits
  receipt,   \* of the awaited transaction: "none", "pending", "ok", "reverted"
  address,   \* contractAddress of the last receipt
  runs, cuts

scriptVars == <<step, mempool, receipt, address, runs, cuts>>

at(s) == step = s /\ receipt = "none"

begins(first) ==
  /\ step = "down" /\ runs < MaxRuns
  /\ step' = first /\ runs' = runs + 1
  /\ UNCHANGED <<mempool, receipt, address, cuts>>

passes(next) == step' = next /\ UNCHANGED <<mempool, receipt, address, runs, cuts>>

(* The nonce counts pending transactions, or only those included; the node *)
(* refuses a second transaction with the nonce of a pending one.           *)
sends(key, call) ==
  /\ receipt' = "pending"
  /\ mempool' = [mempool EXCEPT ![key] = Append(@, [call |-> call, awaited |-> TRUE])]
  /\ UNCHANGED <<step, address, runs, cuts>>
nonceTaken(key) == mempool[key] # <<>>

(* A background service of the same account sends, unknown to the script.  *)
sendsAside(key, call) ==
  /\ mempool' = [mempool EXCEPT ![key] = Append(@, [call |-> call, awaited |-> FALSE])]
  /\ UNCHANGED <<step, receipt, address, runs, cuts>>

succeeds(s) == step = s /\ receipt = "ok"
answered(next) ==
  /\ receipt' = "none" /\ step' = next
  /\ UNCHANGED <<mempool, address, runs, cuts>>

forgotten == [k \in Keys |->
  [i \in 1 .. Len(mempool[k]) |-> [mempool[k][i] EXCEPT !.awaited = FALSE]]]

leaves(next) == step' = next /\ receipt' = "none" /\ mempool' = forgotten
raises == leaves("down") /\ UNCHANGED <<address, runs, cuts>>

(* Sixty polls without a receipt; or a call to the node fails where no     *)
(* handler is; or the process is killed.                                   *)
timesOut(next) ==
  /\ receipt = "pending" /\ cuts < MaxCuts
  /\ cuts' = cuts + 1 /\ leaves(next)
  /\ UNCHANGED <<address, runs>>
isStopped ==
  /\ step \notin {"down", "done"} /\ cuts < MaxCuts
  /\ cuts' = cuts + 1 /\ leaves("down")
  /\ UNCHANGED <<address, runs>>

(* A validator includes the first transaction of an account.               *)
includable(key, type) == mempool[key] # <<>> /\ Head(mempool[key]).call.type = type
includes(key, ok, created) ==
  /\ mempool' = [mempool EXCEPT ![key] = Tail(@)]
  /\ IF Head(mempool[key]).awaited
     THEN /\ receipt' = IF ok THEN "ok" ELSE "reverted"
          /\ address' = created
     ELSE UNCHANGED <<receipt, address>>
  /\ UNCHANGED <<step, runs, cuts>>

ScriptInit ==
  /\ step = "down" /\ receipt = "none" /\ address = 0
  /\ mempool = [k \in Keys |-> <<>>]
  /\ runs = 0 /\ cuts = 0
=============================================================================
