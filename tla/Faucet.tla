------------------------------- MODULE Faucet -------------------------------
(***************************************************************************)
(* scripts/rpc-filter.py, the faucet (POST /faucet), which pays the gas of *)
(* new wallets.  HTTPServer serves one request at a time; what            *)
(* happens meanwhile is that time passes, that the chain mines what the    *)
(* faucet broadcast and that its users spend it, that an RPC call or its   *)
(* answer is lost, and that the container is restarted.                    *)
(***************************************************************************)
EXTENDS Integers, Sequences, FiniteSets

CONSTANTS
  IPs, Addresses,
  FAUCET_COOLDOWN, FAUCET_IP_LIMIT, IP_WINDOW,  \* IP_WINDOW: 86400 s in the code
  FAUCET_AMOUNT, FAUCET_MAX_BALANCE,
  Uptime,                       \* time.monotonic() when the filter is started
  MaxTime, MaxFaults, MaxRestarts  \* bounds of the model

ASSUME FaucetAssumption ==
  /\ FAUCET_COOLDOWN \in Nat \ {0} /\ FAUCET_IP_LIMIT \in Nat \ {0}
  /\ IP_WINDOW \in Nat \ {0}
  /\ FAUCET_AMOUNT \in Nat \ {0} /\ FAUCET_MAX_BALANCE \in Nat
  /\ Uptime \in Nat /\ MaxTime \in Nat /\ MaxFaults \in Nat /\ MaxRestarts \in Nat

VARIABLES
  now,
  addr_last,    \* _faucet_addr_last, 0 for an address it does not hold
  ip_times,     \* _faucet_ip_times: the claims of each address on the net
  req,          \* the claim being served: its phase, `now', ip and address;
                \* observed: the payments its balance check could not see
  pending, balance,  \* chain 778889: payments not yet mined, and balances
  drips,        \* observed: every payment broadcast, and whether it was recorded
  faults, restarts

memory == <<addr_last, ip_times>>
chain == <<pending, balance>>
faucetVars == <<now, addr_last, ip_times, req, pending, balance,
                drips, faults, restarts>>

Idle == [phase |-> "idle"]
idle == req.phase = "idle"

-----------------------------------------------------------------------------
(* A definition whose name ends in _bug is a plausible mistake in the one    *)
(* that follows it, used by no action.                                       *)

\* Lines 123-125: what a window still holds, as times in order.
Recent(times, width) ==
  LET upTo[k \in 0 .. Len(times)] ==
        IF k = 0 THEN <<>>
        ELSE IF now - times[k] < width THEN Append(upTo[k - 1], times[k]) ELSE upTo[k - 1]
  IN  upTo[Len(times)]

ipAllows_bug(times) == Len(times) <= FAUCET_IP_LIMIT
ipAllows(times) == Len(times) < FAUCET_IP_LIMIT

cooledDown_bug(address) == now - addr_last[address] >= FAUCET_COOLDOWN - 1
cooledDown(address) == now - addr_last[address] >= FAUCET_COOLDOWN

\* Lines 119-135: a well-formed claim passes both limits, or is refused.
claim(ip, address) ==
  LET kept == Recent(ip_times[ip], IP_WINDOW) IN
  /\ idle
  /\ ip_times' = [ip_times EXCEPT ![ip] = kept]
  /\ req' = IF ipAllows(kept) /\ cooledDown(address)
              THEN [phase |-> "balance", at |-> now, ip |-> ip, address |-> address,
                    unseen |-> 0]
              ELSE Idle
  /\ UNCHANGED <<now, addr_last, chain, drips, faults, restarts>>

poor_bug(address) == TRUE
poor(address) == balance[address] < FAUCET_MAX_BALANCE

OnTheWay(address) == Cardinality({i \in 1 .. Len(pending) : pending[i] = address})

\* Lines 137-146: the mined balance, read outside the lock.
readBalance ==
  /\ req.phase = "balance"
  /\ req' = IF poor(req.address)
              THEN [req EXCEPT !.phase = "send", !.unseen = OnTheWay(req.address)]
              ELSE Idle
  /\ UNCHANGED <<now, memory, chain, drips, faults, restarts>>

drip(recorded) ==
  /\ pending' = Append(pending, req.address)
  /\ drips' = Append(drips, [to |-> req.address, ip |-> req.ip, at |-> req.at,
                             recorded |-> recorded, life |-> restarts,
                             unseen |-> req.unseen])

\* Lines 148-158: the payment is broadcast, and recorded under the time at which
\* the claim was checked.
sendAndRecord ==
  /\ req.phase = "send"
  /\ drip(TRUE)
  /\ addr_last' = [addr_last EXCEPT ![req.address] = req.at]
  /\ ip_times' = [ip_times EXCEPT ![req.ip] = Append(@, req.at)]
  /\ req' = Idle
  /\ UNCHANGED <<now, balance, faults, restarts>>

\* Lines 141-142 and 151-152: a call fails, or its answer is lost.
callFails ==
  /\ ~idle
  /\ UNCHANGED <<pending, drips>> \/ (req.phase = "send" /\ drip(FALSE))
  /\ req' = Idle
  /\ faults < MaxFaults /\ faults' = faults + 1
  /\ UNCHANGED <<now, memory, balance, restarts>>

-----------------------------------------------------------------------------
\* time.monotonic() is the host's: it goes on when the container is restarted.
tick ==
  /\ now < MaxTime
  /\ now' = now + 1
  /\ UNCHANGED <<memory, req, chain, drips, faults, restarts>>

minePayment ==
  /\ pending # <<>>
  /\ balance' = [balance EXCEPT ![Head(pending)] = @ + FAUCET_AMOUNT]
  /\ pending' = Tail(pending)
  /\ UNCHANGED <<now, memory, req, drips, faults, restarts>>

spend(address) ==
  /\ balance[address] > 0
  /\ balance' = [balance EXCEPT ![address] = 0]
  /\ UNCHANGED <<now, memory, req, pending, drips, faults, restarts>>

\* Both tables are in memory; a payment may have been broadcast just before.
restart ==
  /\ restarts < MaxRestarts /\ restarts' = restarts + 1
  /\ addr_last' = [a \in Addresses |-> 0]
  /\ ip_times' = [i \in IPs |-> <<>>]
  /\ UNCHANGED <<pending, drips>> \/ (req.phase = "send" /\ drip(FALSE))
  /\ req' = Idle
  /\ UNCHANGED <<now, balance, faults>>

-----------------------------------------------------------------------------
FaucetInit ==
  /\ now = Uptime
  /\ addr_last = [a \in Addresses |-> 0]
  /\ ip_times = [i \in IPs |-> <<>>]
  /\ req = Idle
  /\ pending = <<>> /\ balance = [a \in Addresses |-> 0]
  /\ drips = <<>>
  /\ faults = 0 /\ restarts = 0

FaucetNext ==
  \/ \E i \in IPs, a \in Addresses : claim(i, a)
  \/ readBalance \/ sendAndRecord \/ callFails
  \/ tick \/ minePayment \/ (\E a \in Addresses : spend(a)) \/ restart

FaucetSpec == FaucetInit /\ [][FaucetNext]_faucetVars

-----------------------------------------------------------------------------
(* Properties *)

\* "One claim per address per N seconds" (48): in one run of the filter, a second
\* payment within the cooldown means that the first could not be recorded, since
\* its answer was lost (119-158).
CooldownKept ==
  \A i, j \in 1 .. Len(drips) :
    /\ i < j /\ drips[i].to = drips[j].to /\ drips[i].life = drips[j].life
    /\ drips[i].recorded
    => drips[j].at - drips[i].at >= FAUCET_COOLDOWN

\* "Same IP can only trigger N claims per window" (52): no window of IP_WINDOW
\* holds more recorded payments to one, whatever their addresses (121-127).
WindowOfDrip(j) ==
  {i \in 1 .. j : /\ drips[i].ip = drips[j].ip /\ drips[i].life = drips[j].life
                  /\ drips[i].recorded
                  /\ drips[j].at - drips[i].at < IP_WINDOW}
IpLimitKept ==
  \A j \in 1 .. Len(drips) :
    drips[j].recorded => Cardinality(WindowOfDrip(j)) <= FAUCET_IP_LIMIT

\* "Addresses with more than this amount are rejected" (49): if no check missed a
\* payment still to be mined, the faucet lifts nobody beyond the maximum and one
\* payment, restarts and lost answers notwithstanding (137-149).
SawAll(a) == \A i \in 1 .. Len(drips) : drips[i].to = a => drips[i].unseen = 0
MaxBalanceKept ==
  \A a \in Addresses :
    SawAll(a) => balance[a] + FAUCET_AMOUNT * OnTheWay(a)
                   < FAUCET_MAX_BALANCE + FAUCET_AMOUNT
=============================================================================
