----------------------------- MODULE EscrowUSDT -----------------------------
(***************************************************************************)
(* contracts/EscrowUSDT.sol: the escrow that is to hold the bridge's USDT  *)
(* on Ethereum.  A call is one action; one that reverts changes nothing.   *)
(* The USDT contract is external: it moves the amount asked for, or fails. *)
(***************************************************************************)
EXTENDS Integers, Sequences, FiniteSets, SequencesExt

CONSTANTS
  People,        \* callers: depositors, signers, owners
  ZeroAddress,   \* address(0)
  Deployer, FirstSigner,
  UstTxs,        \* hashes of burns on chain 778889
  Amounts,       \* amounts given to deposit, release and setLimits
  MIN_DEPOSIT, MAX_DEPOSIT,  \* the initial limits
  TIMELOCK_DELAY,
  Heirs,         \* candidates for the ownership
  MaxTime, MaxSigners, MaxDeposits

ASSUME EscrowAssumption ==
  /\ Deployer \in People /\ FirstSigner \in People /\ ZeroAddress \notin People
  /\ Heirs \subseteq People /\ Amounts \subseteq Nat
  /\ MIN_DEPOSIT \in Nat /\ MAX_DEPOSIT \in Nat
  /\ TIMELOCK_DELAY \in Nat \ {0}
  /\ MaxTime \in Nat /\ MaxSigners \in Nat /\ MaxDeposits \in Nat

VARIABLES
  owner, pendingOwner, pendingOwnerAt, signers, isSigner, threshold,
  minDeposit, maxDeposit, depositCounter,
  released,  \* the hashes already used
  balance,   \* USDT the escrow holds
  paid,      \* observed: the amounts released for each hash
  noticed,   \* since when pendingOwner has been the one it is
  now

ownership == <<owner, pendingOwner, pendingOwnerAt, noticed>>
membership == <<signers, isSigner, threshold>>
limits == <<minDeposit, maxDeposit>>
funds == <<depositCounter, released, balance, paid>>
escrowVars == <<ownership, membership, limits, funds, now>>

-----------------------------------------------------------------------------
(* A definition whose name ends in _bug is a plausible mistake in the one    *)
(* that follows it, used by no action.                                       *)

deposit(sender, amount) ==
  /\ amount >= minDeposit /\ amount <= maxDeposit
  /\ depositCounter < MaxDeposits
  /\ depositCounter' = depositCounter + 1
  /\ balance' = balance + amount
  /\ UNCHANGED <<ownership, membership, limits, released, paid, now>>

notReleased_bug(hash) == TRUE
notReleased(hash) == hash \notin released

release(sender, amount, hash) ==
  /\ sender \in isSigner
  /\ notReleased(hash)
  /\ balance >= amount
  /\ released' = released \cup {hash}
  /\ balance' = balance - amount
  /\ paid' = [paid EXCEPT ![hash] = Append(@, amount)]
  /\ UNCHANGED <<ownership, membership, limits, depositCounter, now>>

addSigner(sender, signer) ==
  /\ sender = owner
  /\ signer \notin isSigner
  /\ Len(signers) < MaxSigners
  /\ signers' = Append(signers, signer)
  /\ isSigner' = isSigner \cup {signer}
  /\ UNCHANGED <<ownership, threshold, limits, funds, now>>

\* The last signer takes the place of the one that leaves.
dropped_bug(signer) == Front(signers)
dropped(signer) ==
  LET i == CHOOSE i \in 1 .. Len(signers) : signers[i] = signer
  IN Front([signers EXCEPT ![i] = Last(signers)])

removeSigner(sender, signer) ==
  /\ sender = owner
  /\ signer \in isSigner
  /\ isSigner' = isSigner \ {signer}
  /\ signers' = dropped(signer)
  /\ threshold' = IF threshold <= Len(signers') THEN threshold
                  ELSE IF signers' = <<>> THEN 1 ELSE Len(signers')
  /\ UNCHANGED <<ownership, limits, funds, now>>

setThreshold(sender, newThreshold) ==
  /\ sender = owner
  /\ newThreshold # 0 /\ newThreshold <= Len(signers)
  /\ threshold' = newThreshold
  /\ UNCHANGED <<ownership, signers, isSigner, limits, funds, now>>

setLimits(sender, min, max) ==
  /\ sender = owner
  /\ minDeposit' = min /\ maxDeposit' = max
  /\ UNCHANGED <<ownership, membership, funds, now>>

queueKeepsDate_bug ==
  IF pendingOwner # ZeroAddress THEN pendingOwnerAt ELSE now + TIMELOCK_DELAY
executeAfter == now + TIMELOCK_DELAY

queueOwnershipTransfer(sender, newOwner) ==
  /\ sender = owner
  /\ newOwner # ZeroAddress
  /\ pendingOwner' = newOwner
  /\ pendingOwnerAt' = executeAfter
  /\ noticed' = IF newOwner = pendingOwner THEN noticed ELSE now
  /\ UNCHANGED <<owner, membership, limits, funds, now>>

executeOwnershipTransfer(sender) ==
  /\ sender = owner
  /\ pendingOwner # ZeroAddress
  /\ now >= pendingOwnerAt
  /\ owner' = pendingOwner
  /\ pendingOwner' = ZeroAddress
  /\ UNCHANGED <<pendingOwnerAt, noticed, membership, limits, funds, now>>

tick ==
  /\ now < MaxTime
  /\ now' = now + 1
  /\ UNCHANGED <<ownership, membership, limits, funds>>

-----------------------------------------------------------------------------
EscrowInit ==
  /\ owner = Deployer /\ pendingOwner = ZeroAddress /\ pendingOwnerAt = 0
  /\ signers = <<FirstSigner>> /\ isSigner = {FirstSigner} /\ threshold = 1
  /\ minDeposit = MIN_DEPOSIT /\ maxDeposit = MAX_DEPOSIT
  /\ depositCounter = 0 /\ released = {} /\ balance = 0
  /\ paid = [h \in UstTxs |-> <<>>]
  /\ noticed = 0 /\ now = 0

EscrowCall(p) ==
  \/ \E v \in Amounts : deposit(p, v) \/ \E h \in UstTxs : release(p, v, h)
  \/ \E s \in People : addSigner(p, s) \/ removeSigner(p, s)
  \/ \E m \in 1 .. MaxSigners : setThreshold(p, m)
  \/ \E min, max \in Amounts : setLimits(p, min, max)
  \/ \E o \in Heirs : queueOwnershipTransfer(p, o)
  \/ executeOwnershipTransfer(p)

EscrowNext == tick \/ \E p \in People : EscrowCall(p)

EscrowSpec == EscrowInit /\ [][EscrowNext]_escrowVars

-----------------------------------------------------------------------------
(* Properties *)

\* The signer list is the signer set, once each, and the threshold stays one
\* that the list can meet, through any additions, removals and changes of it
\* (132-161).
SignersListed ==
  /\ ToSet(signers) = isSigner
  /\ Len(signers) = Cardinality(isSigner)
  /\ threshold \in 1 .. (IF signers = <<>> THEN 1 ELSE Len(signers))

\* "Each ustTxHash can only be used once" (114): one burn, one payment (122-125).
OneReleasePerBurn == \A h \in UstTxs : Len(paid[h]) <= 1

\* The owner changes only to an address that could be read from the contract,
\* unchanged, for the whole TIMELOCK_DELAY (170-184).
OwnerAnnounced ==
  [][owner' # owner => owner' = pendingOwner
                       /\ now - noticed >= TIMELOCK_DELAY]_escrowVars
=============================================================================
