----------------------------- MODULE Faucet_proofs -----------------------------
(***************************************************************************)
(* What holds of Faucet for every value of its constants.                  *)
(***************************************************************************)
EXTENDS Faucet, Collections_proofs

-----------------------------------------------------------------------------
(* Types *)

Claim == [phase : {"balance", "send"}, at : Nat, ip : IPs, address : Addresses,
          unseen : Nat]
Drip == [to : Addresses, ip : IPs, at : Nat, recorded : BOOLEAN, life : Nat, unseen : Nat]

FaucetType ==
  /\ now \in Nat /\ restarts \in Nat
  /\ addr_last \in [Addresses -> Nat]
  /\ ip_times \in [IPs -> Seq(Nat)]
  /\ req \in Claim \cup {Idle}
  /\ pending \in Seq(Addresses)
  /\ balance \in [Addresses -> Nat]
  /\ drips \in Seq(Drip)

\* Times later than T.
After(T) == {t \in Nat : t > T}

LEMMA RecentKeeps ==
  ASSUME now \in Nat, NEW times \in Seq(Nat), NEW width \in Nat
  PROVE  /\ Recent(times, width) \in Seq(Nat)
         /\ \A T \in Int : now - width <= T
              => Hits(Recent(times, width), After(T)) = Hits(times, After(T))
<1>1. PICK N \in Nat : N = Len(times)
  BY LenProperties
<1> DEFINE K == {k \in 0 .. N : now - times[k] < width}
           upTo(g) == g = [k \in 0 .. N |->
                             IF k = 0 THEN <<>>
                             ELSE IF now - times[k] < width THEN Append(g[k - 1], times[k])
                                                            ELSE g[k - 1]]
<1>2. PICK g : Filters(g, times, K, N)
  BY FilterExists
<1>3. \A h : upTo(h) <=> Filters(h, times, K, N)
  BY DEF Filters
<1>4. PICK h : h = CHOOSE f : upTo(f)
  OBVIOUS
<1>5. upTo(h)
  BY <1>2, <1>3, <1>4
<1>6. Recent(times, width) = h[N]
  BY <1>1, <1>4, <1>5 DEF Recent
<1>7. Filters(h, times, K, N)
  BY <1>3, <1>5
<1> HIDE DEF K, upTo
<1>8. ASSUME NEW T \in Int, now - width <= T
      PROVE  h[N] \in Seq(Nat) /\ Hits(h[N], After(T)) = Hits(times, After(T))
  <2>1. \A k \in 1 .. N : times[k] \in After(T) => k \in K
    BY <1>8 DEF K, After
  <2> QED
    BY <1>1, <1>7, <2>1, FilterHits
<1>9. h[N] \in Seq(Nat)
  <2>1. now - width \in Int /\ now - width <= now - width
    OBVIOUS
  <2> QED
    BY <1>8, <2>1
<1> QED
  BY <1>6, <1>8, <1>9


LEMMA OnTheWayHits ==
  ASSUME NEW a
  PROVE  OnTheWay(a) = Hits(pending, {a})
<1>1. {i \in 1 .. Len(pending) : pending[i] = a} = Places(pending, {a}, Len(pending))
  BY DEF Places
<1> QED
  BY <1>1 DEF OnTheWay, Hits

LEMMA OnTheWayNat ==
  ASSUME FaucetType, NEW a
  PROVE  OnTheWay(a) \in Nat
<1>1. Hits(pending, {a}) \in 0 .. Len(pending) /\ Len(pending) \in Nat
  BY HitsBounds, LenProperties DEF FaucetType
<1> QED
  BY <1>1, OnTheWayHits

LEMMA PhaseOfClaim == req \in Claim \cup {Idle} /\ ~idle => req \in Claim
  BY DEF idle, Idle

\* What a payment adds to the mempool and to the record.
LEMMA DripAppends ==
  ASSUME FaucetType, req \in Claim, NEW r \in BOOLEAN, drip(r)
  PROVE  \E d \in Drip :
           /\ d.to = req.address /\ d.ip = req.ip /\ d.at = req.at
           /\ d.recorded = r /\ d.life = restarts /\ d.unseen = req.unseen
           /\ drips' = Append(drips, d) /\ drips' \in Seq(Drip)
           /\ Len(drips') = Len(drips) + 1 /\ drips'[Len(drips) + 1] = d
           /\ \A i \in 1 .. Len(drips) : drips'[i] = drips[i]
<1>1. PICK d : d = [to |-> req.address, ip |-> req.ip, at |-> req.at,
                    recorded |-> r, life |-> restarts, unseen |-> req.unseen]
  OBVIOUS
<1>2. d \in Drip
  BY <1>1 DEF FaucetType, Claim, Drip
<1>3. /\ d.to = req.address /\ d.ip = req.ip /\ d.at = req.at
      /\ d.recorded = r /\ d.life = restarts /\ d.unseen = req.unseen
  BY <1>1
<1>4. drips' = Append(drips, d)
  BY <1>1 DEF drip
<1>5. drips \in Seq(Drip)
  BY DEF FaucetType
<1>6. /\ Append(drips, d) \in Seq(Drip) /\ Len(Append(drips, d)) = Len(drips) + 1
      /\ Append(drips, d)[Len(drips) + 1] = d
      /\ \A i \in 1 .. Len(drips) : Append(drips, d)[i] = drips[i]
  BY <1>2, <1>5, AppendProperties
<1> QED
  BY <1>2, <1>3, <1>4, <1>6

LEMMA DripWaits ==
  ASSUME FaucetType, req \in Claim, NEW r, drip(r)
  PROVE  /\ pending' \in Seq(Addresses)
         /\ \A a : Hits(pending', {a})
                     = Hits(pending, {a}) + IF a = req.address THEN 1 ELSE 0
<1>1. pending \in Seq(Addresses) /\ req.address \in Addresses
      /\ pending' = Append(pending, req.address)
  BY DEF FaucetType, Claim, drip
<1>2. ASSUME NEW a
      PROVE  Hits(pending', {a}) = Hits(pending, {a}) + IF a = req.address THEN 1 ELSE 0
  <2>1. Hits(Append(pending, req.address), {a})
          = Hits(pending, {a}) + IF req.address \in {a} THEN 1 ELSE 0
    BY <1>1, HitsAppend
  <2> QED
    BY <1>1, <2>1
<1> QED
  BY <1>1, <1>2, AppendProperties

-----------------------------------------------------------------------------
(* What the steps do to a claim *)

\* A claim that is let through was checked at `now', against what was kept.
Checked(ip, address) ==
  /\ req' \in Claim /\ req'.phase = "balance" /\ req'.at = now
  /\ req'.ip = ip /\ req'.address = address
  /\ ipAllows(ip_times'[ip]) /\ cooledDown(address)

LEMMA ClaimChecks ==
  ASSUME FaucetAssumption, FaucetType, NEW ip \in IPs, NEW address \in Addresses,
         claim(ip, address)
  PROVE  /\ ip_times' = [ip_times EXCEPT ![ip] = Recent(ip_times[ip], IP_WINDOW)]
         /\ ip_times' \in [IPs -> Seq(Nat)]
         /\ req' = Idle \/ Checked(ip, address)
<1>1. ip_times[ip] \in Seq(Nat) /\ now \in Nat /\ IP_WINDOW \in Nat
  BY DEF FaucetType, FaucetAssumption
<1>2. PICK kept : kept = Recent(ip_times[ip], IP_WINDOW)
  OBVIOUS
<1>3. kept \in Seq(Nat)
  BY <1>1, <1>2, RecentKeeps
<1>4. ip_times' = [ip_times EXCEPT ![ip] = kept]
  BY <1>2 DEF claim
<1>5. ip_times' \in [IPs -> Seq(Nat)] /\ ip_times'[ip] = kept
  BY <1>3, <1>4 DEF FaucetType
<1>6. ASSUME req' # Idle PROVE Checked(ip, address)
  <2>1. /\ ipAllows(kept) /\ cooledDown(address)
        /\ req' = [phase |-> "balance", at |-> now, ip |-> ip, address |-> address,
                   unseen |-> 0]
    BY <1>2, <1>6 DEF claim
  <2>2. req' \in Claim
    BY <1>1, <2>1 DEF Claim
  <2> QED
    BY <1>5, <2>1, <2>2 DEF Checked
<1> QED
  BY <1>2, <1>4, <1>5, <1>6

\* A claim whose balance was read is the same claim, of an address then poor.
LEMMA ReadKeepsClaim ==
  ASSUME FaucetType, readBalance
  PROVE  /\ req \in Claim
         /\ \/ req' = Idle
            \/ /\ req' \in Claim /\ req'.phase = "send"
               /\ req'.at = req.at /\ req'.ip = req.ip /\ req'.address = req.address
               /\ req'.unseen = OnTheWay(req.address)
               /\ poor(req.address)
<1>1. req \in Claim
  BY DEF FaucetType, readBalance, Idle
<1>2. PICK n \in Nat : n = OnTheWay(req.address)
  BY OnTheWayNat
<1>3. req' = IF poor(req.address) THEN [req EXCEPT !.phase = "send", !.unseen = n] ELSE Idle
  BY <1>2 DEF readBalance
<1>4. CASE req' # Idle
  <2>1. poor(req.address) /\ req' = [req EXCEPT !.phase = "send", !.unseen = n]
    BY <1>3, <1>4
  <2>2. /\ req' \in Claim /\ req'.phase = "send" /\ req'.unseen = n
        /\ req'.at = req.at /\ req'.ip = req.ip /\ req'.address = req.address
    BY <1>1, <2>1 DEF Claim
  <2> QED
    BY <1>1, <1>2, <2>1, <2>2
<1> QED
  BY <1>1, <1>4

LEMMA TypeInit == FaucetAssumption /\ FaucetInit => FaucetType
  BY DEF FaucetAssumption, FaucetInit, FaucetType

LEMMA TypeNext ==
  ASSUME FaucetAssumption, FaucetType, [FaucetNext]_faucetVars
  PROVE  FaucetType'
<1> USE DEF memory, chain
<1>1. CASE UNCHANGED faucetVars
  BY <1>1 DEF faucetVars, FaucetType
<1>2. ASSUME NEW ip \in IPs, NEW a \in Addresses, claim(ip, a) PROVE FaucetType'
  <2>1. ip_times' \in [IPs -> Seq(Nat)] /\ (req' = Idle \/ Checked(ip, a))
    BY <1>2, ClaimChecks
  <2>2. req' \in Claim \cup {Idle}
    BY <2>1 DEF Checked
  <2> QED
    BY <1>2, <2>1, <2>2 DEF claim, FaucetType
<1>3. CASE readBalance
  <2>1. req' \in Claim \cup {Idle}
    BY <1>3, ReadKeepsClaim
  <2> QED
    BY <1>3, <2>1 DEF readBalance, FaucetType
<1>4. ASSUME NEW r \in BOOLEAN, req.phase = "send", drip(r)
      PROVE  pending' \in Seq(Addresses) /\ drips' \in Seq(Drip)
  <2>1. req \in Claim
    BY <1>4 DEF FaucetType, Idle
  <2> QED
    BY <1>4, <2>1, DripAppends, DripWaits
<1>5. CASE sendAndRecord
  <2>1. req \in Claim
    BY <1>5 DEF sendAndRecord, FaucetType, Idle
  <2>2. /\ addr_last' \in [Addresses -> Nat]
        /\ ip_times' = [ip_times EXCEPT ![req.ip] = Append(ip_times[req.ip], req.at)]
    BY <1>5, <2>1 DEF sendAndRecord, FaucetType, Claim
  <2>3. ip_times' \in [IPs -> Seq(Nat)]
    <3>1. req.ip \in IPs /\ ip_times[req.ip] \in Seq(Nat) /\ req.at \in Nat
      BY <2>1 DEF FaucetType, Claim
    <3>2. Append(ip_times[req.ip], req.at) \in Seq(Nat)
      BY <3>1, AppendProperties
    <3> QED
      BY <2>2, <3>1, <3>2 DEF FaucetType
  <2>4. pending' \in Seq(Addresses) /\ drips' \in Seq(Drip)
    BY <1>4, <1>5 DEF sendAndRecord
  <2> QED
    BY <1>5, <2>2, <2>3, <2>4 DEF sendAndRecord, FaucetType
<1>6. CASE callFails
  <2>1. pending' \in Seq(Addresses) /\ drips' \in Seq(Drip)
    BY <1>4, <1>6 DEF callFails, FaucetType
  <2> QED
    BY <1>6, <2>1 DEF callFails, FaucetType
<1>7. CASE tick
  BY <1>7 DEF tick, FaucetType
<1>8. CASE minePayment
  <2>1. pending' \in Seq(Addresses) /\ Head(pending) \in Addresses
    BY <1>8, HeadTailProperties DEF minePayment, FaucetType
  <2>2. balance' \in [Addresses -> Nat]
    BY <1>8, <2>1 DEF minePayment, FaucetType, FaucetAssumption
  <2> QED
    BY <1>8, <2>1, <2>2 DEF minePayment, FaucetType
<1>9. ASSUME NEW a \in Addresses, spend(a) PROVE FaucetType'
  BY <1>9 DEF spend, FaucetType
<1>10. CASE restart
  <2>1. pending' \in Seq(Addresses) /\ drips' \in Seq(Drip)
    BY <1>4, <1>10 DEF restart, FaucetType
  <2> QED
    BY <1>10, <2>1 DEF restart, FaucetType
<1> QED
  BY <1>1, <1>2, <1>3, <1>5, <1>6, <1>7, <1>8, <1>9, <1>10 DEF FaucetNext

-----------------------------------------------------------------------------
(* Cooldowns *)

CooldownInv ==
  /\ CooldownKept
  /\ \A i \in 1 .. Len(drips) :
       /\ drips[i].life <= restarts
       /\ drips[i].recorded /\ drips[i].life = restarts
            => drips[i].at <= addr_last[drips[i].to]
  /\ req \in Claim => addr_last[req.address] + FAUCET_COOLDOWN <= req.at

LEMMA CooldownInit == FaucetInit => CooldownInv
<1> SUFFICES ASSUME FaucetInit PROVE CooldownInv
  OBVIOUS
<1>1. Len(drips) = 0 /\ req \notin Claim
  BY DEF FaucetInit, Claim, Idle
<1>2. \A i \in 1 .. 0 : FALSE
  OBVIOUS
<1> QED
  BY <1>1, <1>2 DEF CooldownInv, CooldownKept

\* A payment after the cooldown of the claim it answers.
LEMMA DripKeepsCooldown ==
  ASSUME FaucetAssumption, FaucetType, CooldownInv, req \in Claim, NEW r \in BOOLEAN,
         drip(r)
  PROVE  /\ CooldownKept'
         /\ \A i \in 1 .. Len(drips') : drips'[i].life <= restarts
         /\ \A i \in 1 .. Len(drips') :
              drips'[i].recorded /\ drips'[i].life = restarts
                => \/ r /\ drips'[i].at = req.at /\ drips'[i].to = req.address
                   \/ drips'[i].at <= addr_last[drips'[i].to]
<1>1. PICK d \in Drip :
        /\ d.to = req.address /\ d.at = req.at /\ d.recorded = r /\ d.life = restarts
        /\ Len(drips') = Len(drips) + 1 /\ drips'[Len(drips) + 1] = d
        /\ \A i \in 1 .. Len(drips) : drips'[i] = drips[i]
  BY DripAppends
<1>2. PICK n \in Nat : n = Len(drips)
  BY LenProperties DEF FaucetType
<1>3. \A i \in 1 .. Len(drips') : i \in 1 .. n \/ i = n + 1
  BY <1>1, <1>2
<1>4. \A i \in 1 .. n : drips[i] \in Drip
  BY <1>2, ElementOfSeq DEF FaucetType
<1>5. restarts \in Nat /\ req.at \in Nat /\ FAUCET_COOLDOWN \in Nat
      /\ req.address \in Addresses /\ addr_last[req.address] \in Nat
  BY DEF FaucetType, Claim, FaucetAssumption
<1>6. \A i \in 1 .. n : /\ drips[i].life <= restarts
                        /\ drips[i].recorded /\ drips[i].life = restarts
                             => drips[i].at <= addr_last[drips[i].to]
  BY <1>2 DEF CooldownInv
<1>7. addr_last[req.address] + FAUCET_COOLDOWN <= req.at
  BY DEF CooldownInv
<1>8. \A i, j \in 1 .. n :
        i < j /\ drips[i].to = drips[j].to /\ drips[i].life = drips[j].life
          /\ drips[i].recorded => drips[j].at - drips[i].at >= FAUCET_COOLDOWN
  BY <1>2 DEF CooldownInv, CooldownKept
<1>9. CooldownKept'
  <2>1. SUFFICES ASSUME NEW i \in 1 .. n + 1, NEW j \in 1 .. n + 1, i < j,
                        drips'[i].to = drips'[j].to, drips'[i].life = drips'[j].life,
                        drips'[i].recorded
                 PROVE  drips'[j].at - drips'[i].at >= FAUCET_COOLDOWN
    BY <1>1, <1>2 DEF CooldownKept
  <2>2. i \in 1 .. n /\ drips'[i] = drips[i]
    BY <1>1, <1>2, <2>1
  <2>3. CASE j \in 1 .. n
    <3>1. drips'[j] = drips[j]
      BY <1>1, <1>2, <2>3
    <3> QED
      BY <1>8, <2>1, <2>2, <2>3, <3>1
  <2>4. CASE j = n + 1
    <3>1. drips'[j] = d
      BY <1>1, <1>2, <2>4
    <3>2. /\ drips[i].to = req.address /\ drips[i].life = restarts /\ drips[i].recorded
      BY <1>1, <2>1, <2>2, <3>1
    <3>3. drips[i].at <= addr_last[req.address] /\ drips[i].at \in Nat
      BY <1>4, <1>6, <2>2, <3>2 DEF Drip
    <3> QED
      BY <1>1, <1>5, <1>7, <2>2, <3>1, <3>3
  <2> QED
    BY <2>3, <2>4
<1>10. ASSUME NEW i \in 1 .. Len(drips')
       PROVE  /\ drips'[i].life <= restarts
              /\ drips'[i].recorded /\ drips'[i].life = restarts
                => \/ r /\ drips'[i].at = req.at /\ drips'[i].to = req.address
                   \/ drips'[i].at <= addr_last[drips'[i].to]
  <2>1. CASE i \in 1 .. n
    BY <1>1, <1>2, <1>6, <2>1
  <2>2. CASE i = n + 1
    BY <1>1, <1>2, <1>5, <2>2
  <2> QED
    BY <1>3, <2>1, <2>2
<1> QED
  BY <1>9, <1>10

LEMMA CooldownNext ==
  ASSUME FaucetAssumption, FaucetType, FaucetType', CooldownInv, [FaucetNext]_faucetVars
  PROVE  CooldownInv'
<1> USE DEF memory, chain
<1>1. ASSUME UNCHANGED <<addr_last, drips, restarts>>,
             req' \in Claim => /\ req \in Claim /\ req'.at = req.at
                               /\ req'.address = req.address
      PROVE  CooldownInv'
  BY <1>1 DEF CooldownInv, CooldownKept
<1>2. Idle \notin Claim
  BY DEF Claim, Idle
<1>3. ASSUME NEW ip \in IPs, NEW a \in Addresses, claim(ip, a) PROVE CooldownInv'
  <2>1. UNCHANGED <<addr_last, drips, restarts>>
    BY <1>3 DEF claim
  <2>2. req' \in Claim => addr_last[req'.address] + FAUCET_COOLDOWN <= req'.at
    <3>1. SUFFICES ASSUME req' \in Claim
                   PROVE  addr_last[req'.address] + FAUCET_COOLDOWN <= req'.at
      OBVIOUS
    <3>2. Checked(ip, a)
      BY <1>2, <1>3, <3>1, ClaimChecks
    <3> QED
      BY <3>2 DEF Checked, cooledDown, FaucetType, FaucetAssumption
  <2> QED
    BY <2>1, <2>2 DEF CooldownInv, CooldownKept
<1>4. CASE readBalance
  <2>1. UNCHANGED <<addr_last, drips, restarts>>
    BY <1>4 DEF readBalance
  <2> QED
    BY <1>1, <1>2, <1>4, <2>1, ReadKeepsClaim
<1>5. CASE sendAndRecord
  <2>1. /\ req \in Claim /\ drip(TRUE) /\ req' = Idle /\ restarts' = restarts
        /\ addr_last' = [addr_last EXCEPT ![req.address] = req.at]
    <3>1. req.phase = "send" /\ drip(TRUE) /\ req' = Idle /\ restarts' = restarts
          /\ addr_last' = [addr_last EXCEPT ![req.address] = req.at]
      BY <1>5, Zenon DEF sendAndRecord
    <3>2. req \in Claim
      BY <3>1 DEF FaucetType, Idle
    <3> QED
      BY <3>1, <3>2
  <2>2. /\ CooldownKept'
        /\ \A i \in 1 .. Len(drips') : drips'[i].life <= restarts
        /\ \A i \in 1 .. Len(drips') :
              drips'[i].recorded /\ drips'[i].life = restarts
                => \/ drips'[i].at = req.at /\ drips'[i].to = req.address
                   \/ drips'[i].at <= addr_last[drips'[i].to]
    BY <2>1, DripKeepsCooldown
  <2>3. req.address \in Addresses /\ req.at \in Nat
        /\ \A a \in Addresses : addr_last[a] \in Nat /\ addr_last[a] <= addr_last'[a]
        /\ addr_last'[req.address] = req.at
    <3>1. req.address \in Addresses /\ req.at \in Nat
      BY <2>1 DEF Claim
    <3>2. addr_last[req.address] + FAUCET_COOLDOWN <= req.at
      BY <2>1 DEF CooldownInv
    <3> QED
      BY <2>1, <3>1, <3>2 DEF FaucetType, FaucetAssumption
  <2>4. ASSUME NEW i \in 1 .. Len(drips'), drips'[i].recorded, drips'[i].life = restarts
        PROVE  drips'[i].at <= addr_last'[drips'[i].to]
    <3>1. drips'[i] \in Drip
      BY ElementOfSeq DEF FaucetType
    <3>2. drips'[i].to \in Addresses /\ drips'[i].at \in Nat
      BY <3>1 DEF Drip
    <3>3. addr_last'[drips'[i].to] \in Nat
      BY <3>2 DEF FaucetType
    <3> QED
      BY <2>2, <2>3, <2>4, <3>2, <3>3
  <2> QED
    BY <1>2, <2>1, <2>2, <2>4 DEF CooldownInv
<1>6. ASSUME req' = Idle, restarts' = restarts, addr_last' = addr_last,
             UNCHANGED drips \/ (req \in Claim /\ drip(FALSE))
      PROVE  CooldownInv'
  <2>1. CASE UNCHANGED drips
    BY <1>1, <1>2, <1>6, <2>1
  <2>2. CASE req \in Claim /\ drip(FALSE)
    BY <1>2, <1>6, <2>2, DripKeepsCooldown DEF CooldownInv
  <2> QED
    BY <1>6, <2>1, <2>2
<1>7. CASE callFails
  <2>1. req' = Idle /\ UNCHANGED <<restarts, addr_last>>
    BY <1>7 DEF callFails
  <2>2. UNCHANGED drips \/ (req.phase = "send" /\ drip(FALSE))
    BY <1>7, Zenon DEF callFails
  <2>3. req.phase = "send" => req \in Claim
    BY DEF FaucetType, Idle
  <2> QED
    BY <1>6, <2>1, <2>2, <2>3, Zenon
<1>8. CASE restart
  <2>1. CooldownKept' /\ \A i \in 1 .. Len(drips') : drips'[i].life <= restarts
    <3>1. CASE UNCHANGED drips
      BY <3>1 DEF CooldownInv, CooldownKept
    <3>2. CASE req.phase = "send" /\ drip(FALSE)
      <4>1. req \in Claim
        BY <3>2 DEF FaucetType, Idle
      <4> QED
        BY <3>2, <4>1, DripKeepsCooldown
    <3> QED
      BY <1>8, <3>1, <3>2 DEF restart
  <2>2. \A i \in 1 .. Len(drips') : drips'[i].life \in Nat
    <3> TAKE i \in 1 .. Len(drips')
    <3>1. drips'[i] \in Drip
      BY ElementOfSeq DEF FaucetType
    <3> QED
      BY <3>1 DEF Drip
  <2>3. restarts' = restarts + 1 /\ restarts \in Nat /\ req' = Idle
    BY <1>8 DEF restart, FaucetType
  <2> QED
    BY <1>2, <2>1, <2>2, <2>3 DEF CooldownInv
<1>9. CASE UNCHANGED <<req, addr_last, drips, restarts>>
  BY <1>1, <1>9
<1> QED
  BY <1>3, <1>4, <1>5, <1>7, <1>8, <1>9
     DEF FaucetNext, faucetVars, tick, minePayment, spend

\* "One claim per address per N seconds": the table of addresses is at or behind every
\* claim that is let through by a cooldown and at or ahead of every payment recorded,
\* whatever answers are lost and whenever the filter restarts (119-158).
THEOREM CooldownHolds == FaucetSpec => []CooldownKept
<1> USE FaucetAssumption
<1>1. FaucetInit => FaucetType /\ CooldownInv
  BY TypeInit, CooldownInit
<1>2. FaucetType /\ CooldownInv /\ [FaucetNext]_faucetVars => (FaucetType /\ CooldownInv)'
  BY TypeNext, CooldownNext
<1>3. CooldownInv => CooldownKept
  BY DEF CooldownInv
<1> QED
  BY <1>1, <1>2, <1>3, PTL DEF FaucetSpec

-----------------------------------------------------------------------------
(* The maximum balance *)

\* What an address has and is about to have.
Worth(a) == balance[a] + FAUCET_AMOUNT * Hits(pending, {a})

BalanceInv ==
  /\ \A a \in Addresses : SawAll(a) => Worth(a) < FAUCET_MAX_BALANCE + FAUCET_AMOUNT
  /\ req.phase = "send" /\ req.unseen = 0
       => Hits(pending, {req.address}) = 0 /\ poor(req.address)

LEMMA BalanceInit == FaucetAssumption /\ FaucetInit => BalanceInv
<1> SUFFICES ASSUME FaucetAssumption, FaucetInit PROVE BalanceInv
  OBVIOUS
<1>1. \A a \in Addresses : Hits(pending, {a}) = 0
  BY HitsEmpty DEF FaucetInit
<1> QED
  BY <1>1 DEF FaucetAssumption, FaucetInit, BalanceInv, Worth, Idle

LEMMA OneMoreTimes ==
  ASSUME NEW m \in Nat, NEW n \in Nat
  PROVE  m * n \in Nat /\ m * (n + 1) = m * n + m
  OBVIOUS

LEMMA WorthNat ==
  ASSUME FaucetAssumption, FaucetType, NEW a \in Addresses
  PROVE  /\ Hits(pending, {a}) \in Nat /\ balance[a] \in Nat
         /\ FAUCET_AMOUNT * Hits(pending, {a}) \in Nat /\ Worth(a) \in Nat
<1>1. Hits(pending, {a}) \in Nat /\ balance[a] \in Nat /\ FAUCET_AMOUNT \in Nat
  BY OnTheWayHits, OnTheWayNat DEF FaucetType, FaucetAssumption
<1> QED
  BY <1>1, OneMoreTimes DEF Worth

\* A payment to an address that was poor with nothing on its way keeps the bound.
LEMMA DripKeepsBalance ==
  ASSUME FaucetAssumption, FaucetType, BalanceInv, req.phase = "send", NEW r \in BOOLEAN,
         drip(r), UNCHANGED balance, req' = Idle
  PROVE  BalanceInv'
<1>1. req \in Claim
  BY DEF FaucetType, Idle
<1>2. PICK d \in Drip :
        /\ d.to = req.address /\ d.unseen = req.unseen
        /\ Len(drips') = Len(drips) + 1 /\ drips'[Len(drips) + 1] = d
        /\ \A i \in 1 .. Len(drips) : drips'[i] = drips[i]
  BY <1>1, DripAppends
<1>3. PICK n \in Nat : n = Len(drips)
  BY LenProperties DEF FaucetType
<1>4. \A a : Hits(pending', {a}) = Hits(pending, {a}) + IF a = req.address THEN 1 ELSE 0
  BY <1>1, DripWaits
<1>5. req'.phase # "send"
  BY DEF Idle
<1>6. ASSUME NEW a \in Addresses, SawAll(a)'
      PROVE  Worth(a)' < FAUCET_MAX_BALANCE + FAUCET_AMOUNT
  <2>1. \A i \in 1 .. n + 1 : drips'[i].to = a => drips'[i].unseen = 0
    BY <1>2, <1>3, <1>6 DEF SawAll
  <2>2. /\ Hits(pending, {a}) \in Nat /\ balance[a] \in Nat
        /\ FAUCET_AMOUNT \in Nat \ {0} /\ FAUCET_MAX_BALANCE \in Nat
    BY WorthNat DEF FaucetAssumption
  <2>3. Hits(pending', {a}) = Hits(pending, {a}) + IF a = req.address THEN 1 ELSE 0
    BY <1>4, Zenon
  <2>4. CASE a = req.address
    <3>1. req.unseen = 0
      BY <1>2, <1>3, <2>1, <2>4
    <3>2. Hits(pending, {a}) = 0 /\ balance[a] < FAUCET_MAX_BALANCE
      BY <2>4, <3>1 DEF BalanceInv, poor
    <3>3. Hits(pending', {a}) = 1
      BY <2>3, <2>4, <3>2
    <3> QED
      BY <2>2, <3>2, <3>3 DEF Worth
  <2>5. CASE a # req.address
    <3>1. \A i \in 1 .. n : i \in 1 .. n + 1 /\ drips'[i] = drips[i]
      BY <1>2, <1>3
    <3>2. SawAll(a)
      BY <1>3, <2>1, <3>1 DEF SawAll
    <3>3. Hits(pending', {a}) = Hits(pending, {a})
      BY <2>3, <2>2, <2>5
    <3> QED
      BY <3>2, <3>3 DEF BalanceInv, Worth
  <2> QED
    BY <2>4, <2>5
<1> QED
  BY <1>5, <1>6 DEF BalanceInv

LEMMA BalanceNext ==
  ASSUME FaucetAssumption, FaucetType, BalanceInv, [FaucetNext]_faucetVars
  PROVE  BalanceInv'
<1> USE DEF memory, chain
<1>1. ASSUME UNCHANGED <<pending, balance, drips>>, req' = req \/ req'.phase # "send"
      PROVE  BalanceInv'
  BY <1>1 DEF BalanceInv, Worth, SawAll, poor
<1>2. ASSUME NEW ip \in IPs, NEW a \in Addresses, claim(ip, a) PROVE BalanceInv'
  <2>1. UNCHANGED <<pending, balance, drips>>
    BY <1>2 DEF claim
  <2>2. req'.phase # "send"
    BY <1>2, ClaimChecks DEF Checked, Idle
  <2> QED
    BY <1>1, <2>1, <2>2
<1>3. CASE readBalance
  <2>1. UNCHANGED <<pending, balance, drips>>
    BY <1>3 DEF readBalance
  <2>2. CASE req' = Idle
    BY <1>1, <2>1, <2>2 DEF Idle
  <2>3. CASE req' # Idle
    <3>1. /\ req'.unseen = OnTheWay(req.address) /\ poor(req.address)
          /\ req'.address = req.address
      BY <1>3, <2>3, ReadKeepsClaim
    <3>2. OnTheWay(req.address) = Hits(pending, {req.address})
      BY OnTheWayHits
    <3> QED
      BY <2>1, <3>1, <3>2 DEF BalanceInv, Worth, SawAll, poor
  <2> QED
    BY <2>2, <2>3
<1>4. CASE sendAndRecord
  <2>1. req.phase = "send" /\ drip(TRUE) /\ req' = Idle /\ UNCHANGED balance
    BY <1>4, Zenon DEF sendAndRecord
  <2> QED
    BY <2>1, DripKeepsBalance
<1>5. ASSUME req' = Idle, UNCHANGED balance,
             UNCHANGED <<pending, drips>> \/ (req.phase = "send" /\ drip(FALSE))
      PROVE  BalanceInv'
  <2>1. CASE UNCHANGED <<pending, drips>>
    BY <1>1, <1>5, <2>1 DEF Idle
  <2>2. CASE req.phase = "send" /\ drip(FALSE)
    BY <1>5, <2>2, DripKeepsBalance
  <2> QED
    BY <1>5, <2>1, <2>2
<1>6. CASE callFails
  <2>1. req' = Idle /\ UNCHANGED balance
    BY <1>6 DEF callFails
  <2>2. UNCHANGED <<pending, drips>> \/ (req.phase = "send" /\ drip(FALSE))
    BY <1>6, Zenon DEF callFails
  <2> QED
    BY <1>5, <2>1, <2>2, Zenon
<1>7. CASE restart
  <2>1. req' = Idle /\ UNCHANGED balance
    BY <1>7 DEF restart
  <2>2. UNCHANGED <<pending, drips>> \/ (req.phase = "send" /\ drip(FALSE))
    BY <1>7, Zenon DEF restart
  <2> QED
    BY <1>5, <2>1, <2>2, Zenon
<1>8. CASE minePayment
  <2>1. PICK h \in Addresses : h = Head(pending)
    BY <1>8, HeadTailProperties DEF minePayment, FaucetType
  <2>2. \A a : Hits(pending, {a}) = Hits(pending', {a}) + IF a = h THEN 1 ELSE 0
    <3> TAKE a
    <3>1. Hits(pending, {a}) = Hits(Tail(pending), {a}) + IF Head(pending) \in {a} THEN 1 ELSE 0
      BY <1>8, HitsTail DEF minePayment, FaucetType
    <3> QED
      BY <1>8, <2>1, <3>1 DEF minePayment
  <2>3. \A a : Hits(pending', {a}) \in Nat
    <3> TAKE a
    <3>1. Tail(pending) \in Seq(Addresses)
      BY <1>8, HeadTailProperties DEF minePayment, FaucetType
    <3>2. Hits(Tail(pending), {a}) \in 0 .. Len(Tail(pending)) /\ Len(Tail(pending)) \in Nat
      BY <3>1, HitsBounds, LenProperties
    <3> QED
      BY <1>8, <3>2 DEF minePayment
  <2>4. balance' = [balance EXCEPT ![h] = @ + FAUCET_AMOUNT] /\ UNCHANGED <<req, drips>>
    BY <1>8, <2>1 DEF minePayment
  <2>5. ASSUME NEW a \in Addresses PROVE Worth(a)' = Worth(a)
    <3>1. PICK n \in Nat : n = Hits(pending', {a})
      BY <2>3
    <3>2. FAUCET_AMOUNT \in Nat /\ balance[a] \in Nat
      BY DEF FaucetAssumption, FaucetType
    <3>3. FAUCET_AMOUNT * n \in Nat
          /\ FAUCET_AMOUNT * (n + 1) = FAUCET_AMOUNT * n + FAUCET_AMOUNT
      BY <3>1, <3>2, OneMoreTimes
    <3>4. Hits(pending, {a}) = n + IF a = h THEN 1 ELSE 0
      BY <2>2, <3>1, Zenon
    <3>5. CASE a = h
      <4>1. Hits(pending, {a}) = n + 1 /\ balance'[a] = balance[a] + FAUCET_AMOUNT
        BY <2>4, <3>4, <3>5 DEF FaucetType
      <4> QED
        BY <3>1, <3>2, <3>3, <4>1 DEF Worth
    <3>6. CASE a # h
      <4>1. Hits(pending, {a}) = n /\ balance'[a] = balance[a]
        BY <2>4, <3>4, <3>6 DEF FaucetType
      <4> QED
        BY <3>1, <4>1 DEF Worth
    <3> QED
      BY <3>5, <3>6
  <2>6. ASSUME req'.phase = "send", req'.unseen = 0
        PROVE  Hits(pending', {req'.address}) = 0 /\ poor(req.address)'
    <3>1. /\ req.address \in Addresses
          /\ Hits(pending, {req.address}) = 0 /\ poor(req.address)
      BY <2>4, <2>6 DEF BalanceInv, FaucetType, Claim, Idle
    <3>2. req.address # h /\ Hits(pending', {req.address}) = 0
      <4>1. PICK a : a = req.address
        OBVIOUS
      <4>2. PICK n \in Nat : n = Hits(pending', {a})
        BY <2>3
      <4>3. Hits(pending, {a}) = n + IF a = h THEN 1 ELSE 0
        BY <2>2, <4>2, Zenon
      <4>4. n = 0 /\ a # h
        BY <3>1, <4>1, <4>3
      <4> QED
        BY <4>1, <4>2, <4>4
    <3>3. balance'[req.address] = balance[req.address]
      BY <2>4, <3>2 DEF FaucetType
    <3> QED
      BY <2>4, <3>1, <3>2, <3>3 DEF poor
  <2>7. \A a \in Addresses : SawAll(a)' <=> SawAll(a)
    BY <2>4 DEF SawAll
  <2> QED
    BY <2>4, <2>5, <2>6, <2>7 DEF BalanceInv
<1>9. ASSUME NEW b \in Addresses, spend(b) PROVE BalanceInv'
  <2>1. /\ UNCHANGED <<pending, drips, req>>
        /\ \A a \in Addresses : balance'[a] \in Nat /\ balance'[a] <= balance[a]
    BY <1>9 DEF spend, FaucetType
  <2>2. \A a \in Addresses : Worth(a)' <= Worth(a) /\ Worth(a)' \in Nat
    <3> TAKE a \in Addresses
    <3>1. balance[a] \in Nat /\ FAUCET_AMOUNT * Hits(pending, {a}) \in Nat
      BY WorthNat
    <3> QED
      BY <2>1, <3>1 DEF Worth
  <2>3. \A a \in Addresses : SawAll(a)' <=> SawAll(a)
    BY <2>1 DEF SawAll
  <2>4. ASSUME NEW a \in Addresses, SawAll(a)'
        PROVE  Worth(a)' < FAUCET_MAX_BALANCE + FAUCET_AMOUNT
    <3>1. Worth(a) < FAUCET_MAX_BALANCE + FAUCET_AMOUNT /\ Worth(a) \in Nat
      BY <2>3, <2>4, WorthNat DEF BalanceInv
    <3> QED
      BY <2>2, <3>1 DEF FaucetAssumption
  <2>5. ASSUME req'.phase = "send", req'.unseen = 0
        PROVE  Hits(pending', {req'.address}) = 0 /\ poor(req.address)'
    <3>1. /\ req.address \in Addresses
          /\ Hits(pending, {req.address}) = 0 /\ poor(req.address)
      BY <2>1, <2>5 DEF BalanceInv, FaucetType, Claim, Idle
    <3> QED
      BY <2>1, <3>1 DEF poor, FaucetType, FaucetAssumption
  <2> QED
    BY <2>1, <2>4, <2>5 DEF BalanceInv
<1>10. CASE UNCHANGED <<req, pending, balance, drips>>
  BY <1>1, <1>10
<1> QED
  BY <1>2, <1>3, <1>4, <1>6, <1>7, <1>8, <1>9, <1>10 DEF FaucetNext, faucetVars, tick

\* "Addresses with more than this amount are rejected": the balance is read of a block
\* and the payment sent later, but what reaches an address in between can only come
\* from payments the check could have seen (137-149).
THEOREM MaxBalanceHolds == FaucetSpec => []MaxBalanceKept
<1> USE FaucetAssumption
<1>1. FaucetInit => FaucetType /\ BalanceInv
  BY TypeInit, BalanceInit
<1>2. FaucetType /\ BalanceInv /\ [FaucetNext]_faucetVars => (FaucetType /\ BalanceInv)'
  BY TypeNext, BalanceNext
<1>3. BalanceInv => MaxBalanceKept
  BY OnTheWayHits DEF BalanceInv, MaxBalanceKept, Worth
<1> QED
  BY <1>1, <1>2, <1>3, PTL DEF FaucetSpec

-----------------------------------------------------------------------------
(* The limit of an address on the net *)

\* The recorded payments of this run of the filter to ip, for claims later than T.
Told(ip, T) == {d \in Drip : /\ d.ip = ip /\ d.recorded /\ d.life = restarts
                             /\ d.at > T}

IpInv ==
  /\ IpLimitKept
  /\ \A i \in 1 .. Len(drips) : drips[i].life <= restarts
  /\ \A ip \in IPs : \A T \in Int :
       now - IP_WINDOW <= T => Hits(drips, Told(ip, T)) <= Hits(ip_times[ip], After(T))
  /\ req \in Claim => /\ req.at <= now
                      /\ Hits(drips, Told(req.ip, req.at - IP_WINDOW)) < FAUCET_IP_LIMIT

LEMMA ToldNat ==
  ASSUME FaucetType, NEW R
  PROVE  Hits(drips, R) \in Nat
<1>1. Hits(drips, R) \in 0 .. Len(drips) /\ Len(drips) \in Nat
  BY HitsBounds, LenProperties DEF FaucetType
<1> QED
  BY <1>1

LEMMA TimesNat ==
  ASSUME FaucetType, NEW ip \in IPs, NEW R
  PROVE  Hits(ip_times[ip], R) \in Nat /\ Hits(ip_times[ip], R) <= Len(ip_times[ip])
         /\ Len(ip_times[ip]) \in Nat
<1>1. ip_times[ip] \in Seq(Nat)
  BY DEF FaucetType
<1>2. /\ Hits(ip_times[ip], R) \in 0 .. Len(ip_times[ip])
      /\ Len(ip_times[ip]) \in Nat
  BY <1>1, HitsBounds, LenProperties
<1> QED
  BY <1>2

LEMMA IpInit == FaucetAssumption /\ FaucetInit => IpInv
<1> SUFFICES ASSUME FaucetAssumption, FaucetInit PROVE IpInv
  OBVIOUS
<1>1. Len(drips) = 0 /\ req \notin Claim
  BY DEF FaucetInit, Claim, Idle
<1>2. \A i \in 1 .. 0 : FALSE
  OBVIOUS
<1>3. \A R : Hits(drips, R) = 0
  BY HitsEmpty DEF FaucetInit
<1>4. \A ip \in IPs : \A R : Hits(ip_times[ip], R) = 0
  BY HitsEmpty DEF FaucetInit
<1> QED
  BY <1>1, <1>2, <1>3, <1>4 DEF IpInv, IpLimitKept

\* The window of the last payment holds it and the payments told of since.
LEMMA LastWindow ==
  ASSUME FaucetAssumption, FaucetType', NEW n \in Nat, Len(drips') = n + 1,
         drips'[n + 1].life = restarts, restarts \in Nat,
         drips'[n + 1].recorded
  PROVE  WindowOfDrip(n + 1)'
           = Places(drips', Told(drips'[n + 1].ip, drips'[n + 1].at - IP_WINDOW), n + 1)
<1>1. \A i \in 1 .. n + 1 : drips'[i] \in Drip
  BY ElementOfSeq DEF FaucetType
<1>2. n + 1 \in 1 .. n + 1 /\ drips'[n + 1] \in Drip /\ drips'[n + 1].at \in Nat
  BY <1>1 DEF Drip
<1>3. \A i \in 1 .. n + 1 : drips'[i].at \in Nat
  BY <1>1 DEF Drip
<1>4. IP_WINDOW \in Nat
  BY DEF FaucetAssumption
<1>5. \A i \in 1 .. n + 1 :
        i \in WindowOfDrip(n + 1)'
          <=> drips'[i] \in Told(drips'[n + 1].ip, drips'[n + 1].at - IP_WINDOW)
  BY <1>1, <1>2, <1>3, <1>4 DEF WindowOfDrip, Told
<1>6. WindowOfDrip(n + 1)' \subseteq 1 .. n + 1
  BY DEF WindowOfDrip
<1> QED
  BY <1>5, <1>6 DEF Places

\* A recorded payment is the last its window has room for.
LEMMA DripKeepsLimit ==
  ASSUME FaucetAssumption, FaucetType, FaucetType', IpInv, req \in Claim,
         NEW r \in BOOLEAN, drip(r)
  PROVE  /\ IpLimitKept'
         /\ \A i \in 1 .. Len(drips') : drips'[i].life <= restarts
         /\ \A ip \in IPs : \A T \in Int :
              Hits(drips', Told(ip, T))
                = Hits(drips, Told(ip, T))
                    + IF r /\ ip = req.ip /\ req.at > T THEN 1 ELSE 0
<1>1. PICK d \in Drip :
        /\ d.ip = req.ip /\ d.at = req.at /\ d.recorded = r /\ d.life = restarts
        /\ drips' = Append(drips, d)
        /\ Len(drips') = Len(drips) + 1 /\ drips'[Len(drips) + 1] = d
        /\ \A i \in 1 .. Len(drips) : drips'[i] = drips[i]
  BY DripAppends
<1>2. PICK n \in Nat : n = Len(drips)
  BY LenProperties DEF FaucetType
<1>3. drips \in Seq(Drip) /\ restarts \in Nat /\ req.at \in Nat /\ req.ip \in IPs
  BY DEF FaucetType, Claim
<1>4. \A R : Hits(drips', R) = Hits(drips, R) + IF d \in R THEN 1 ELSE 0
  BY <1>1, <1>3, HitsAppend
<1>5. ASSUME NEW ip \in IPs, NEW T \in Int
      PROVE  Hits(drips', Told(ip, T))
               = Hits(drips, Told(ip, T)) + IF r /\ ip = req.ip /\ req.at > T THEN 1 ELSE 0
  <2>1. d \in Told(ip, T) <=> r /\ ip = req.ip /\ req.at > T
    BY <1>1 DEF Told
  <2>2. PICK R : R = Told(ip, T)
    OBVIOUS
  <2>3. Hits(drips', R) = Hits(drips, R) + IF d \in R THEN 1 ELSE 0
    BY <1>4, Zenon
  <2> QED
    BY <2>1, <2>2, <2>3
<1>6. IpLimitKept'
  <2>1. SUFFICES ASSUME NEW j \in 1 .. n + 1, drips'[j].recorded
                 PROVE  Cardinality(WindowOfDrip(j)') <= FAUCET_IP_LIMIT
    BY <1>1, <1>2 DEF IpLimitKept
  <2>2. CASE j \in 1 .. n
    <3>1. drips'[j] = drips[j] /\ \A i \in 1 .. j : drips'[i] = drips[i]
      BY <1>1, <1>2, <2>2
    <3>2. WindowOfDrip(j)' = WindowOfDrip(j)
      BY <3>1 DEF WindowOfDrip
    <3> QED
      BY <1>2, <2>1, <2>2, <3>1, <3>2 DEF IpInv, IpLimitKept
  <2>3. CASE j = n + 1
    <3>1. drips'[n + 1] = d /\ r = TRUE
      BY <1>1, <1>2, <2>1, <2>3
    <3>2. PICK T \in Int : T = req.at - IP_WINDOW
      BY <1>3 DEF FaucetAssumption
    <3>3. WindowOfDrip(n + 1)' = Places(drips', Told(req.ip, T), n + 1)
      BY <1>1, <1>2, <1>3, <2>1, <2>3, <3>1, <3>2, LastWindow
    <3>4. Hits(drips', Told(req.ip, T)) = Hits(drips, Told(req.ip, T)) + 1
      <4>1. req.at > T
        BY <1>3, <3>2 DEF FaucetAssumption
      <4> QED
        BY <1>3, <1>5, <3>1, <4>1
    <3>5. Hits(drips, Told(req.ip, T)) < FAUCET_IP_LIMIT
          /\ Hits(drips, Told(req.ip, T)) \in Nat
      BY <3>2, ToldNat DEF IpInv
    <3>6. Cardinality(WindowOfDrip(n + 1)') = Hits(drips', Told(req.ip, T))
      BY <1>1, <1>2, <3>3 DEF Hits
    <3> QED
      BY <2>3, <3>4, <3>5, <3>6 DEF FaucetAssumption
  <2> QED
    BY <2>2, <2>3
<1>7. \A i \in 1 .. Len(drips') : drips'[i].life <= restarts
  <2> TAKE i \in 1 .. Len(drips')
  <2>1. CASE i \in 1 .. n
    BY <1>1, <1>2, <2>1 DEF IpInv
  <2>2. CASE i = n + 1
    BY <1>1, <1>2, <1>3, <2>2
  <2> QED
    BY <1>1, <1>2, <2>1, <2>2
<1> QED
  BY <1>5, <1>6, <1>7

LEMMA IpKept ==
  ASSUME FaucetAssumption, FaucetType, IpInv, UNCHANGED <<drips, ip_times, restarts>>,
         now' \in Nat, now <= now',
         req' \in Claim => /\ req \in Claim /\ req'.at = req.at /\ req'.ip = req.ip
  PROVE  IpInv'
<1>1. \A ip, T : Told(ip, T)' = Told(ip, T)
  BY DEF Told
<1>2. IpLimitKept' /\ \A i \in 1 .. Len(drips') : drips'[i].life <= restarts'
  BY DEF IpInv, IpLimitKept, WindowOfDrip
<1>3. \A ip \in IPs : \A T \in Int :
        now' - IP_WINDOW <= T => Hits(drips, Told(ip, T)) <= Hits(ip_times[ip], After(T))
  <2> TAKE ip \in IPs
  <2> TAKE T \in Int
  <2>1. now' - IP_WINDOW <= T => now - IP_WINDOW <= T
    <3>1. now \in Nat /\ IP_WINDOW \in Nat
      BY DEF FaucetType, FaucetAssumption
    <3>2. PICK later \in Nat : later = now'
      OBVIOUS
    <3>3. now <= later
      BY <3>2
    <3>4. later - IP_WINDOW <= T => now - IP_WINDOW <= T
      BY <3>1, <3>3
    <3> QED
      BY <3>2, <3>4
  <2>2. now - IP_WINDOW <= T => Hits(drips, Told(ip, T)) <= Hits(ip_times[ip], After(T))
    BY Zenon DEF IpInv
  <2> QED
    BY <2>1, <2>2
<1>4. req' \in Claim => /\ req'.at <= now'
                        /\ Hits(drips, Told(req'.ip, req'.at - IP_WINDOW)) < FAUCET_IP_LIMIT
  BY DEF IpInv, FaucetType, Claim
<1>5. \A ip \in IPs : \A T \in Int :
        now' - IP_WINDOW <= T
          => Hits(drips', Told(ip, T)') <= Hits(ip_times'[ip], After(T))
  BY <1>1, <1>3, Zenon
<1>6. req' \in Claim
        => /\ req'.at <= now'
           /\ Hits(drips', Told(req.ip, req.at - IP_WINDOW)') < FAUCET_IP_LIMIT
  BY <1>1, <1>4, Zenon
<1> QED
  BY <1>2, <1>5, <1>6, Zenon DEF IpInv

LEMMA IpNext ==
  ASSUME FaucetAssumption, FaucetType, FaucetType', IpInv, [FaucetNext]_faucetVars
  PROVE  IpInv'
<1> USE DEF memory, chain
<1>1. Idle \notin Claim
  BY DEF Claim, Idle
<1>2. now \in Nat /\ now' \in Nat /\ IP_WINDOW \in Nat /\ FAUCET_IP_LIMIT \in Nat
      /\ restarts \in Nat
  BY DEF FaucetType, FaucetAssumption
<1>3. ASSUME NEW i \in IPs, NEW a \in Addresses, claim(i, a) PROVE IpInv'
  <2>1. UNCHANGED <<drips, restarts, now>>
    BY <1>3 DEF claim
  <2>2. /\ ip_times' = [ip_times EXCEPT ![i] = Recent(ip_times[i], IP_WINDOW)]
        /\ req' = Idle \/ Checked(i, a)
    BY <1>3, ClaimChecks
  <2>3. \A ip, T : Told(ip, T)' = Told(ip, T)
    BY <2>1 DEF Told
  <2>4. IpLimitKept' /\ \A k \in 1 .. Len(drips') : drips'[k].life <= restarts'
    BY <2>1 DEF IpInv, IpLimitKept, WindowOfDrip
  <2>5. ASSUME NEW ip \in IPs, NEW T \in Int, now - IP_WINDOW <= T
        PROVE  Hits(drips, Told(ip, T)) <= Hits(ip_times'[ip], After(T))
    <3>1. Hits(drips, Told(ip, T)) <= Hits(ip_times[ip], After(T))
      BY <2>5 DEF IpInv
    <3>2. ip_times[ip] \in Seq(Nat)
      BY DEF FaucetType
    <3>3. Hits(Recent(ip_times[ip], IP_WINDOW), After(T)) = Hits(ip_times[ip], After(T))
      BY <1>2, <2>5, <3>2, RecentKeeps
    <3>4. ip_times'[ip] = IF ip = i THEN Recent(ip_times[ip], IP_WINDOW) ELSE ip_times[ip]
      BY <2>2 DEF FaucetType
    <3> QED
      BY <3>1, <3>3, <3>4
  <2>6. ASSUME req' \in Claim
        PROVE  /\ req'.at <= now
               /\ Hits(drips, Told(req'.ip, req'.at - IP_WINDOW)) < FAUCET_IP_LIMIT
    <3>1. req'.at = now /\ req'.ip = i /\ Len(ip_times'[i]) < FAUCET_IP_LIMIT
      BY <1>1, <2>2, <2>6 DEF Checked, ipAllows
    <3>2. PICK T \in Int : T = now - IP_WINDOW
      BY <1>2
    <3>3. Hits(drips, Told(i, T)) <= Hits(ip_times'[i], After(T))
      BY <1>2, <2>5, <3>2
    <3>4. /\ Hits(ip_times'[i], After(T)) <= Len(ip_times'[i])
          /\ Hits(ip_times'[i], After(T)) \in Nat /\ Len(ip_times'[i]) \in Nat
      <4>1. PICK q \in Seq(Nat) : q = ip_times'[i]
        BY DEF FaucetType
      <4>2. Hits(q, After(T)) \in 0 .. Len(q) /\ Len(q) \in Nat
        BY HitsBounds, LenProperties
      <4> QED
        BY <4>1, <4>2
    <3>5. Hits(drips, Told(i, T)) \in Nat
      BY ToldNat
    <3> QED
      BY <1>2, <3>1, <3>2, <3>3, <3>4, <3>5
  <2>7. \A ip \in IPs : \A T \in Int :
          now' - IP_WINDOW <= T
            => Hits(drips', Told(ip, T)') <= Hits(ip_times'[ip], After(T))
    BY <2>1, <2>3, <2>5
  <2>8. req' \in Claim
          => /\ req'.at <= now'
             /\ Hits(drips', Told(req.ip, req.at - IP_WINDOW)') < FAUCET_IP_LIMIT
    BY <2>1, <2>3, <2>6
  <2> QED
    BY <2>4, <2>7, <2>8, Zenon DEF IpInv
<1>4. CASE readBalance
  <2>1. UNCHANGED <<drips, ip_times, restarts, now>>
    BY <1>4 DEF readBalance
  <2> QED
    BY <1>1, <1>2, <1>4, <2>1, IpKept, ReadKeepsClaim
<1>5. CASE sendAndRecord
  <2>1. /\ req.phase = "send" /\ drip(TRUE) /\ req' = Idle /\ UNCHANGED <<now, restarts>>
        /\ ip_times' = [ip_times EXCEPT ![req.ip] = Append(@, req.at)]
    BY <1>5, Zenon DEF sendAndRecord
  <2>2. req \in Claim /\ req.ip \in IPs /\ req.at \in Nat
    BY <2>1 DEF FaucetType, Claim, Idle
  <2>3. /\ IpLimitKept' /\ \A i \in 1 .. Len(drips') : drips'[i].life <= restarts
        /\ \A ip \in IPs : \A T \in Int :
             Hits(drips', Told(ip, T))
               = Hits(drips, Told(ip, T)) + IF ip = req.ip /\ req.at > T THEN 1 ELSE 0
    BY <2>1, <2>2, DripKeepsLimit
  <2>4. \A ip, T : Told(ip, T)' = Told(ip, T)
    BY <2>1 DEF Told
  <2>5. ASSUME NEW ip \in IPs, NEW T \in Int, now - IP_WINDOW <= T
        PROVE  Hits(drips', Told(ip, T)) <= Hits(ip_times'[ip], After(T))
    <3>1. Hits(drips, Told(ip, T)) <= Hits(ip_times[ip], After(T))
      BY <2>5 DEF IpInv
    <3>2. Hits(drips, Told(ip, T)) \in Nat /\ Hits(ip_times[ip], After(T)) \in Nat
          /\ ip_times[ip] \in Seq(Nat)
      BY ToldNat, TimesNat DEF FaucetType
    <3>3. Hits(Append(ip_times[ip], req.at), After(T))
            = Hits(ip_times[ip], After(T)) + IF req.at \in After(T) THEN 1 ELSE 0
      BY <2>2, <3>2, HitsAppend
    <3>4. ip_times'[ip] = IF ip = req.ip THEN Append(ip_times[ip], req.at) ELSE ip_times[ip]
      BY <2>1 DEF FaucetType
    <3>5. req.at \in After(T) <=> req.at > T
      BY <2>2 DEF After
    <3>6. Hits(drips', Told(ip, T))
            = Hits(drips, Told(ip, T)) + IF ip = req.ip /\ req.at > T THEN 1 ELSE 0
      BY <2>3
    <3> QED
      BY <3>1, <3>2, <3>3, <3>4, <3>5, <3>6
  <2>6. \A ip \in IPs : \A T \in Int :
          now' - IP_WINDOW <= T
            => Hits(drips', Told(ip, T)') <= Hits(ip_times'[ip], After(T))
    BY <2>1, <2>4, <2>5
  <2>7. req' \notin Claim /\ restarts' = restarts
    BY <1>1, <2>1
  <2> QED
    BY <2>3, <2>6, <2>7, Zenon DEF IpInv
<1>6. ASSUME req' = Idle, UNCHANGED <<now, ip_times, restarts>>,
             UNCHANGED drips \/ (req \in Claim /\ drip(FALSE))
      PROVE  IpInv'
  <2>1. CASE UNCHANGED drips
    BY <1>1, <1>2, <1>6, <2>1, IpKept
  <2>2. CASE req \in Claim /\ drip(FALSE)
    <3>1. /\ IpLimitKept' /\ \A i \in 1 .. Len(drips') : drips'[i].life <= restarts
          /\ \A ip \in IPs : \A T \in Int :
               Hits(drips', Told(ip, T)) = Hits(drips, Told(ip, T)) + 0
      BY <2>2, DripKeepsLimit
    <3>2. \A ip, T : Told(ip, T)' = Told(ip, T)
      BY <1>6 DEF Told
    <3>3. ASSUME NEW ip \in IPs, NEW T \in Int, now - IP_WINDOW <= T
          PROVE  Hits(drips', Told(ip, T)) <= Hits(ip_times[ip], After(T))
      <4>1. Hits(drips, Told(ip, T)) <= Hits(ip_times[ip], After(T))
            /\ Hits(drips, Told(ip, T)) \in Nat
        BY <3>3, ToldNat DEF IpInv
      <4>2. Hits(drips', Told(ip, T)) = Hits(drips, Told(ip, T)) + 0
        BY <3>1
      <4> QED
        BY <4>1, <4>2
    <3>4. \A ip \in IPs : \A T \in Int :
            now' - IP_WINDOW <= T
              => Hits(drips', Told(ip, T)') <= Hits(ip_times'[ip], After(T))
      BY <1>6, <3>2, <3>3
    <3>5. req' \notin Claim /\ restarts' = restarts
      BY <1>1, <1>6
    <3> QED
      BY <3>1, <3>4, <3>5, Zenon DEF IpInv
  <2> QED
    BY <1>6, <2>1, <2>2
<1>7. CASE callFails
  <2>1. req' = Idle /\ UNCHANGED <<now, restarts, ip_times>>
    BY <1>7 DEF callFails
  <2>2. UNCHANGED drips \/ (req.phase = "send" /\ drip(FALSE))
    BY <1>7, Zenon DEF callFails
  <2>3. req.phase = "send" => req \in Claim
    BY DEF FaucetType, Idle
  <2> QED
    BY <1>6, <2>1, <2>2, <2>3, Zenon
<1>8. CASE restart
  <2>1. /\ req' = Idle /\ restarts' = restarts + 1 /\ UNCHANGED now
        /\ ip_times' = [i \in IPs |-> <<>>]
    BY <1>8 DEF restart
  <2>2. IpLimitKept' /\ \A i \in 1 .. Len(drips') : drips'[i].life <= restarts
    <3>1. CASE UNCHANGED drips
      BY <3>1 DEF IpInv, IpLimitKept, WindowOfDrip
    <3>2. CASE req.phase = "send" /\ drip(FALSE)
      <4>1. req \in Claim
        BY <3>2 DEF FaucetType, Idle
      <4> QED
        BY <3>2, <4>1, DripKeepsLimit
    <3> QED
      BY <1>8, <3>1, <3>2 DEF restart
  <2>3. \A i \in 1 .. Len(drips') : drips'[i].life \in Nat
    <3> TAKE i \in 1 .. Len(drips')
    <3>1. drips'[i] \in Drip
      BY ElementOfSeq DEF FaucetType
    <3> QED
      BY <3>1 DEF Drip
  <2>4. \A i \in 1 .. Len(drips') : drips'[i].life <= restarts' /\ drips'[i].life # restarts'
    BY <1>2, <2>1, <2>2, <2>3
  <2>5. ASSUME NEW ip \in IPs, NEW T \in Int
        PROVE  Hits(drips', Told(ip, T)') <= Hits(ip_times'[ip], After(T))
    <3>1. Places(drips', Told(ip, T)', Len(drips')) = {}
      BY <2>4 DEF Places, Told
    <3>2. Hits(drips', Told(ip, T)') = 0
      BY <3>1, FS_EmptySet DEF Hits
    <3>3. Hits(ip_times'[ip], After(T)) = 0
      BY <2>1, HitsEmpty
    <3> QED
      BY <3>2, <3>3
  <2>6. req' \notin Claim
    BY <1>1, <2>1
  <2> QED
    BY <2>2, <2>4, <2>5, <2>6, Zenon DEF IpInv
<1>9. CASE tick
  <2>1. UNCHANGED <<drips, ip_times, restarts, req>> /\ now <= now'
    BY <1>2, <1>9 DEF tick
  <2> QED
    BY <1>2, <2>1, IpKept
<1>10. CASE UNCHANGED <<now, req, ip_times, drips, restarts>>
  BY <1>2, <1>10, IpKept
<1> QED
  BY <1>3, <1>4, <1>5, <1>7, <1>8, <1>9, <1>10
     DEF FaucetNext, faucetVars, minePayment, spend

\* "Same IP can only trigger N claims per window": payments that were recorded for an
\* address on the net are all in its list until they leave the window, so the length
\* of what is kept bounds them, restarts apart (121-127, 155-158).
THEOREM IpLimitHolds == FaucetSpec => []IpLimitKept
<1> USE FaucetAssumption
<1>1. FaucetInit => FaucetType /\ IpInv
  BY TypeInit, IpInit
<1>2. FaucetType /\ IpInv /\ [FaucetNext]_faucetVars => (FaucetType /\ IpInv)'
  BY TypeNext, IpNext
<1>3. IpInv => IpLimitKept
  BY DEF IpInv
<1> QED
  BY <1>1, <1>2, <1>3, PTL DEF FaucetSpec
=============================================================================
