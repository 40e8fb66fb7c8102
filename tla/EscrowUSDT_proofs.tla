-------------------------- MODULE EscrowUSDT_proofs --------------------------
(***************************************************************************)
(* What holds of EscrowUSDT for every value of its constants.              *)
(***************************************************************************)
EXTENDS EscrowUSDT, FiniteSetTheorems, TLAPS

-----------------------------------------------------------------------------
(* One payment for a burn *)

\* A hash that was never used has not been paid for: what makes
\* OneReleasePerBurn inductive.
PaidOnceUsed ==
  /\ paid \in [UstTxs -> Seq(Int)]
  /\ released \subseteq UstTxs
  /\ \A h \in UstTxs : Len(paid[h]) <= 1
  /\ \A h \in UstTxs \ released : paid[h] = <<>>

LEMMA PaidInit == EscrowInit => PaidOnceUsed
  BY DEF EscrowInit, PaidOnceUsed

\* A release pays for a hash that was not used, and uses it.
LEMMA ReleasePays ==
  ASSUME EscrowAssumption, PaidOnceUsed, NEW p \in People, NEW v \in Amounts, NEW h \in UstTxs,
         release(p, v, h)
  PROVE  PaidOnceUsed'
<1>1. h \notin released /\ paid[h] = <<>>
  BY DEF release, notReleased, PaidOnceUsed
<1>2. v \in Int
  BY DEF EscrowAssumption
<1>3. Append(paid[h], v) \in Seq(Int) /\ Len(Append(paid[h], v)) = 1
  BY <1>1, <1>2
<1>4. paid' = [paid EXCEPT ![h] = Append(paid[h], v)] /\ released' = released \cup {h}
  BY DEF release
<1> QED
  BY <1>3, <1>4 DEF PaidOnceUsed

LEMMA PaidNext ==
  ASSUME EscrowAssumption, PaidOnceUsed, [EscrowNext]_escrowVars
  PROVE  PaidOnceUsed'
<1>1. CASE UNCHANGED <<paid, released>>
  BY <1>1 DEF PaidOnceUsed
<1>2. CASE \E p \in People, v \in Amounts, h \in UstTxs : release(p, v, h)
  BY <1>2, ReleasePays
<1>3. UNCHANGED <<paid, released>>
      \/ \E p \in People, v \in Amounts, h \in UstTxs : release(p, v, h)
  BY DEF EscrowNext, EscrowCall, escrowVars, funds, deposit, addSigner, removeSigner,
         setThreshold, setLimits, queueOwnershipTransfer, executeOwnershipTransfer, tick
<1> QED
  BY <1>1, <1>2, <1>3

\* "Each ustTxHash can only be used once" (114): whoever presents it, however
\* often and in whatever amounts, a burn is paid for at most once (118-129).
THEOREM OnePayment == EscrowSpec => []OneReleasePerBurn
<1>1. PaidOnceUsed => OneReleasePerBurn
  BY DEF PaidOnceUsed, OneReleasePerBurn
<1> QED
  BY <1>1, PaidInit, PaidNext, EscrowAssumption, PTL DEF EscrowSpec

-----------------------------------------------------------------------------
(* The announced owner *)

\* A pending owner has waited since it was noticed, and its date lies a whole
\* delay behind that.
OwnerWaits ==
  /\ now \in Nat /\ noticed \in Nat /\ pendingOwnerAt \in Nat
  /\ noticed <= now
  /\ pendingOwner # ZeroAddress => pendingOwnerAt >= noticed + TIMELOCK_DELAY

LEMMA WaitsInit == EscrowInit => OwnerWaits
  BY DEF EscrowInit, OwnerWaits

LEMMA WaitsNext ==
  ASSUME EscrowAssumption, OwnerWaits, [EscrowNext]_escrowVars
  PROVE  /\ OwnerWaits'
         /\ owner' # owner =>
              owner' = pendingOwner /\ now - noticed >= TIMELOCK_DELAY
<1>0. TIMELOCK_DELAY \in Nat \ {0}
  BY DEF EscrowAssumption
<1>1. CASE UNCHANGED <<ownership, now>>
  BY <1>1 DEF ownership, OwnerWaits
<1>2. CASE tick
  BY <1>0, <1>2 DEF tick, ownership, OwnerWaits
<1>3. ASSUME NEW p \in People, NEW o \in Heirs, queueOwnershipTransfer(p, o)
      PROVE  OwnerWaits' /\ owner' = owner
  BY <1>0, <1>3 DEF queueOwnershipTransfer, executeAfter, OwnerWaits
<1>4. ASSUME NEW p \in People, executeOwnershipTransfer(p)
      PROVE  /\ OwnerWaits'
             /\ owner' = pendingOwner /\ now - noticed >= TIMELOCK_DELAY
  BY <1>0, <1>4 DEF executeOwnershipTransfer, OwnerWaits
<1>5. \/ UNCHANGED <<ownership, now>> \/ tick
      \/ \E p \in People, o \in Heirs : queueOwnershipTransfer(p, o)
      \/ \E p \in People : executeOwnershipTransfer(p)
  BY DEF EscrowNext, EscrowCall, escrowVars, deposit, release, addSigner, removeSigner,
         setThreshold, setLimits
<1> QED
  BY <1>1, <1>2, <1>3, <1>4, <1>5 DEF ownership

\* The owner changes only to an address that was pending, unchanged, for the whole
\* TIMELOCK_DELAY, whatever was queued and re-queued before (170-184).
THEOREM OwnershipAnnounced == EscrowSpec => OwnerAnnounced
<1>1. OwnerWaits /\ [EscrowNext]_escrowVars =>
        [owner' # owner => owner' = pendingOwner
                           /\ now - noticed >= TIMELOCK_DELAY]_escrowVars
  BY WaitsNext, EscrowAssumption
<1> QED
  BY <1>1, WaitsInit, WaitsNext, EscrowAssumption, PTL DEF EscrowSpec, OwnerAnnounced
-----------------------------------------------------------------------------
(* The signer list *)

\* No signer is listed twice.
Once(s) == \A i, j \in 1 .. Len(s) : s[i] = s[j] => i = j

\* Swap-and-pop takes one signer out of a list without repetitions, and nothing
\* else: the list gets shorter by one, repeats nobody and names all the others.
LEMMA DropsOne ==
  ASSUME NEW S, signers \in Seq(S), Once(signers), NEW x, x \in ToSet(signers)
  PROVE  /\ dropped(x) \in Seq(S) /\ Once(dropped(x))
         /\ Len(dropped(x)) = Len(signers) - 1
         /\ ToSet(dropped(x)) = ToSet(signers) \ {x}
<1> DEFINE n == Len(signers)
           i == CHOOSE i \in 1 .. n : signers[i] = x
           swapped == [signers EXCEPT ![i] = signers[n]]
           d == SubSeq(swapped, 1, n - 1)
<1>1. n \in Nat /\ n >= 1 /\ DOMAIN signers = 1 .. n
  BY DEF ToSet
<1>2. i \in 1 .. n /\ signers[i] = x
  BY DEF ToSet
<1>3. signers[n] \in S
  BY <1>1
<1>4. /\ swapped \in Seq(S) /\ Len(swapped) = n
      /\ \A k \in 1 .. n : swapped[k] = IF k = i THEN signers[n] ELSE signers[k]
  BY <1>1, <1>2, <1>3
<1>5. dropped(x) = d
  BY <1>1, <1>4 DEF dropped, Front, Last
<1> HIDE DEF swapped, i, n
<1>6. /\ d \in Seq(S) /\ Len(d) = n - 1 /\ DOMAIN d = 1 .. n - 1
      /\ \A k \in 1 .. n - 1 : d[k] = swapped[k]
  BY <1>1, <1>4
<1> HIDE DEF d
<1>7. \A k \in 1 .. n - 1 : d[k] = IF k = i THEN signers[n] ELSE signers[k]
  BY <1>1, <1>4, <1>6
<1>8. Once(d)
  BY <1>1, <1>2, <1>6, <1>7 DEF Once, n
<1>9. \A k \in 1 .. n - 1 : d[k] \in ToSet(signers) \ {x}
  BY <1>1, <1>2, <1>7 DEF Once, ToSet, n
<1>10. ASSUME NEW k \in 1 .. n, signers[k] # x
       PROVE  \E m \in 1 .. n - 1 : d[m] = signers[k]
  <2>1. CASE k = n
    <3>1. i # n
      BY <1>2, <1>10, <2>1
    <3>2. i \in 1 .. n - 1
      BY <1>1, <1>2, <3>1
    <3> QED
      BY <1>7, <2>1, <3>2
  <2>2. CASE k # n
    BY <1>1, <1>2, <1>7, <1>10, <2>2
  <2> QED
    BY <2>1, <2>2
<1>11. ToSet(d) = ToSet(signers) \ {x}
  <2>1. ToSet(d) \subseteq ToSet(signers) \ {x}
    BY <1>6, <1>9 DEF ToSet
  <2>2. ASSUME NEW y \in ToSet(signers) \ {x} PROVE y \in ToSet(d)
    <3>1. PICK k \in 1 .. n : signers[k] = y
      BY <1>1 DEF ToSet
    <3>2. PICK m \in 1 .. n - 1 : d[m] = y
      BY <1>10, <3>1
    <3> QED
      BY <1>6, <3>2 DEF ToSet
  <2> QED
    BY <2>1, <2>2
<1> QED
  BY <1>5, <1>6, <1>8, <1>11 DEF n

SignersInv ==
  /\ signers \in Seq(People) /\ Once(signers)
  /\ ToSet(signers) = isSigner
  /\ IsFiniteSet(isSigner) /\ Len(signers) = Cardinality(isSigner)
  /\ threshold \in 1 .. (IF signers = <<>> THEN 1 ELSE Len(signers))

LEMMA SignersInit ==
  ASSUME EscrowAssumption, EscrowInit PROVE SignersInv
<1>1. FirstSigner \in People
  BY DEF EscrowAssumption
<1>2. IsFiniteSet({FirstSigner}) /\ Cardinality({FirstSigner}) = 1
  BY FS_Singleton
<1>3. ToSet(<<FirstSigner>>) = {FirstSigner} /\ Once(<<FirstSigner>>)
  BY DEF ToSet, Once
<1> QED
  BY <1>1, <1>2, <1>3 DEF EscrowInit, SignersInv

LEMMA AddKeeps ==
  ASSUME SignersInv, NEW p \in People, NEW s \in People, addSigner(p, s)
  PROVE  SignersInv'
<1>1. /\ s \notin isSigner /\ signers' = Append(signers, s)
      /\ isSigner' = isSigner \cup {s} /\ threshold' = threshold
  BY DEF addSigner
<1>2. IsFiniteSet(isSigner') /\ Cardinality(isSigner') = Cardinality(isSigner) + 1
  BY <1>1, FS_AddElement DEF SignersInv
<1>3. /\ signers' \in Seq(People) /\ Len(signers') = Len(signers) + 1
      /\ \A i \in 1 .. Len(signers) : signers'[i] = signers[i]
      /\ signers'[Len(signers) + 1] = s
      /\ Len(signers) \in Nat /\ DOMAIN signers = 1 .. Len(signers)
      /\ DOMAIN signers' = 1 .. Len(signers) + 1
  BY <1>1 DEF SignersInv
<1>4. \A i \in 1 .. Len(signers) : signers[i] # s
  BY <1>1, <1>3 DEF SignersInv, ToSet
<1>5. Once(signers')
  BY <1>3, <1>4 DEF SignersInv, Once
<1>6. ToSet(signers') = isSigner'
  <2>1. \A i \in 1 .. Len(signers) + 1 : signers'[i] \in isSigner'
    BY <1>1, <1>3 DEF SignersInv, ToSet
  <2>2. ASSUME NEW x \in isSigner' PROVE \E i \in 1 .. Len(signers) + 1 : signers'[i] = x
    BY <1>1, <1>3 DEF SignersInv, ToSet
  <2> QED
    BY <1>3, <2>1, <2>2 DEF ToSet
<1>7. threshold' \in 1 .. (IF signers' = <<>> THEN 1 ELSE Len(signers'))
  BY <1>1, <1>3 DEF SignersInv
<1> QED
  BY <1>2, <1>3, <1>5, <1>6, <1>7 DEF SignersInv

LEMMA RemoveKeeps ==
  ASSUME SignersInv, NEW p \in People, NEW s \in People, removeSigner(p, s)
  PROVE  SignersInv'
<1>1. /\ s \in ToSet(signers) /\ s \in isSigner
      /\ isSigner' = isSigner \ {s} /\ signers' = dropped(s)
  BY DEF removeSigner, SignersInv
<1>2. /\ signers' \in Seq(People) /\ Once(signers')
      /\ Len(signers') = Len(signers) - 1 /\ ToSet(signers') = isSigner'
  BY <1>1, DropsOne DEF SignersInv
<1>3. IsFiniteSet(isSigner') /\ Cardinality(isSigner') = Cardinality(isSigner) - 1
  BY <1>1, FS_RemoveElement DEF SignersInv
<1>4. threshold' = IF threshold <= Len(signers') THEN threshold
                   ELSE IF signers' = <<>> THEN 1 ELSE Len(signers')
  BY DEF removeSigner
<1>5. Len(signers') \in Nat /\ (signers' # <<>> => Len(signers') >= 1)
  BY <1>2
<1>6. threshold \in Nat \ {0}
  BY DEF SignersInv
<1>7. threshold' \in 1 .. (IF signers' = <<>> THEN 1 ELSE Len(signers'))
  BY <1>4, <1>5, <1>6
<1> QED
  BY <1>2, <1>3, <1>7 DEF SignersInv

LEMMA SignersNext ==
  ASSUME EscrowAssumption, SignersInv, [EscrowNext]_escrowVars
  PROVE  SignersInv'
<1>1. CASE UNCHANGED membership
  BY <1>1 DEF membership, SignersInv
<1>2. ASSUME NEW p \in People, NEW m \in 1 .. MaxSigners, setThreshold(p, m)
      PROVE  SignersInv'
  BY <1>2, EscrowAssumption DEF setThreshold, SignersInv, EscrowAssumption
<1>3. \/ UNCHANGED membership
      \/ \E p \in People, s \in People : addSigner(p, s) \/ removeSigner(p, s)
      \/ \E p \in People, m \in 1 .. MaxSigners : setThreshold(p, m)
  BY DEF EscrowNext, EscrowCall, escrowVars, deposit, release, setLimits,
         queueOwnershipTransfer, executeOwnershipTransfer, tick
<1> QED
  BY <1>1, <1>2, <1>3, AddKeeps, RemoveKeeps

\* The list and the mapping name the same signers, once each, and the threshold
\* stays within the list, through any sequence of additions, swap-and-pop
\* removals, re-additions and changes of the threshold (132-161).
THEOREM SignersSound == EscrowSpec => []SignersListed
<1>1. SignersInv => SignersListed
  BY DEF SignersInv, SignersListed
<1> QED
  BY <1>1, SignersInit, SignersNext, EscrowAssumption, PTL DEF EscrowSpec
=============================================================================
