----------------------------- MODULE GPUSearcher -----------------------------
(***************************************************************************)
(* miner/gpu_engine.py and miner/cpu_engine.py: how a miner's program      *)
(* looks through nonces.  The GPU works on two buffers, one batch ahead    *)
(* of what search() returns, and both buffers read the work block from one *)
(* place on the device; the CPU cuts a batch into chunks for its threads.  *)
(* The caller is the loop of miner/usst_miner.py, on a chain that grows    *)
(* and changes its difficulty meanwhile.                                   *)
(***************************************************************************)
EXTENDS Integers, FiniteSets, FiniteSetsExt

CONSTANTS
  Hashes,            \* functions from <<workBlock, nonce>>: what hashing may be
  Targets,           \* targets the contract may ask for
  BASE,              \* base of a limb, 2^64 in the code
  batch_size, Workers,
  Starts,            \* random.randint(0, 2^48)
  INT64_MAX,         \* the sentinel: no nonce reaches it
  WORK_BLOCK_MAX_AGE,
  MaxHeight, MaxTried  \* bounds of the model

ASSUME SearcherAssumption ==
  /\ Targets \subseteq 0 .. BASE * BASE * BASE * BASE - 1 /\ BASE \in Nat \ {0, 1}
  /\ batch_size \in Nat \ {0} /\ Workers \in Nat \ {0}
  /\ \A s \in Starts : s \in Nat /\ s + MaxTried + (Workers + 2) * batch_size < INT64_MAX
  /\ WORK_BLOCK_MAX_AGE \in Nat /\ MaxHeight \in Nat /\ MaxTried \in Nat
  /\ INT64_MAX \in Nat
  /\ Hashes \subseteq [(0 .. MaxHeight) \X (0 .. INT64_MAX - 1) ->
                         0 .. BASE * BASE * BASE * BASE - 1]

VARIABLES
  hash,    \* the hash function, and which searcher create_searcher chose
  chain,   \* height, and the target of today's difficulty
  miner,   \* main(): its place, work block, target, next nonce, last proof
  gpu,     \* _last_work_block (also what is on the device), _hot, _hot_nonce, and
           \* the slot that is collected
  slots,   \* the two streams with their result buffers
  chunks,  \* the chunks of a CPU search that are not finished
  clear    \* observed: nonces declared to be no proofs for the work and target,
           \* and where the next batch of them begins

searcherVars == <<hash, chain, miner, gpu, slots, chunks, clear>>

None == [none |-> TRUE]
Found(nonce) == [none |-> FALSE, nonce |-> nonce]
NoBlock == -1
Batch(start, count) == start .. start + count - 1
HashOf(nonce) == hash.of[<<miner.workBlock, nonce>>]

-----------------------------------------------------------------------------
(* The kernel.  A definition whose name ends in _bug is a plausible mistake  *)
(* in the one that follows it, used by no action.                            *)

\* A 256-bit number as its four limbs of 64 bits, the highest first.
target_to_limbs(n) ==
  [i \in 0 .. 3 |-> (n \div (IF i = 0 THEN BASE * BASE * BASE ELSE
                             IF i = 1 THEN BASE * BASE ELSE
                             IF i = 2 THEN BASE ELSE 1)) % BASE]

\* Compared limb by limb: the first limb that differs decides.
hash_below_target(h, t) ==
  \E i \in 0 .. 3 : h[i] < t[i] /\ \A j \in 0 .. i - 1 : h[j] = t[j]

\* The smallest proof of the batch, by atomic minimum into the result buffer.
kernelResult(slot, workBlock) ==
  LET hits == {n \in Batch(slot.base, batch_size) :
                 hash_below_target(target_to_limbs(hash.of[<<workBlock, n>>]), slot.t)}
  IN Min({slot.val} \cup hits)

\* Stream order: the buffer is reset before the kernel runs.
launched_bug(slot, base) ==
  [running |-> TRUE, base |-> base, t |-> target_to_limbs(miner.target), val |-> slot.val]
launched(slot, base) ==
  [running |-> TRUE, base |-> base, t |-> target_to_limbs(miner.target), val |-> INT64_MAX]

\* A kernel ends.  It reads the work block that is on the device.
kernel(s) ==
  /\ slots[s].running
  /\ slots' = [slots EXCEPT ![s].running = FALSE,
                            ![s].val = kernelResult(slots[s], gpu.workBlock)]
  /\ UNCHANGED <<hash, chain, miner, gpu, chunks, clear>>

-----------------------------------------------------------------------------
(* GPUSearcher.search *)

contextChanged == gpu.workBlock # miner.workBlock

searching == miner.pc = "search" /\ miner.tried < MaxTried

\* Lines 339-364: with a new work block, or at the first call, both slots start
\* afresh; the copy to the device waits for the kernels that still run.
coldStart ==
  /\ searching /\ hash.gpu
  /\ contextChanged
  /\ \A s \in 0 .. 1 : ~slots[s].running
  /\ LET next == miner.nonce + batch_size IN
     /\ slots' = [s \in 0 .. 1 |-> launched(slots[s], miner.nonce + s * batch_size)]
     /\ gpu' = [workBlock |-> miner.workBlock, hot |-> 1, hotNonce |-> next, slot |-> 0]
  /\ miner' = [miner EXCEPT !.pc = "collect"]
  /\ clear' = [clear EXCEPT !.next = miner.nonce]
  /\ UNCHANGED <<hash, chain, chunks>>

\* Lines 366-377: the batch after the hot one is launched on the other slot, and
\* the hot one is collected.  The nonce given by the caller is not used.
hotPath ==
  /\ searching /\ hash.gpu
  /\ ~contextChanged
  /\ LET other == 1 - gpu.hot
         next == gpu.hotNonce + batch_size IN
     /\ slots' = [slots EXCEPT ![other] = launched(@, next)]
     /\ gpu' = [gpu EXCEPT !.hot = other, !.hotNonce = next, !.slot = gpu.hot]
  /\ miner' = [miner EXCEPT !.pc = "collect"]
  /\ UNCHANGED <<hash, chain, chunks, clear>>

\* Lines 321-329: what the kernel found is hashed again, for today's target.
collected_bug(val) == IF val = INT64_MAX THEN None ELSE Found(val)
collected(val) ==
  IF val # INT64_MAX /\ HashOf(val) < miner.target THEN Found(val) ELSE None

\* usst_miner.py 341-391: a proof is submitted and, whatever comes of it, the next
\* work is read; so it is when a block that was checked had become too old.
stale == chain.height - miner.workBlock > WORK_BLOCK_MAX_AGE
returned(r) ==
  \E pc \in {"search", "block"} :
    /\ pc = "search" => r.none
    /\ pc = "block" => ~r.none \/ stale
    /\ miner' = [miner EXCEPT !.pc = pc, !.nonce = @ + batch_size, !.last = r,
                              !.tried = @ + batch_size]

declared(r, sure) ==
  clear' = [next |-> clear.next + batch_size,
            nonces |-> IF r.none /\ sure
                         THEN clear.nonces \cup Batch(clear.next, batch_size)
                         ELSE clear.nonces]

collect ==
  /\ miner.pc = "collect" /\ hash.gpu
  /\ LET slot == slots[gpu.slot]
         r == collected(slot.val) IN
     /\ ~slot.running
     /\ returned(r)
     /\ declared(r, slot.t = target_to_limbs(miner.target))
  /\ UNCHANGED <<hash, chain, gpu, slots, chunks>>

-----------------------------------------------------------------------------
(* CPUSearcher.search *)

chunk == (batch_size + Workers - 1) \div Workers

\* Lines 12-21: the first proof of a chunk.
_search_chunk(i) ==
  LET hits == {n \in Batch(miner.nonce + i * chunk, chunk) : HashOf(n) < miner.target}
  IN IF hits = {} THEN None ELSE Found(Min(hits))

submitChunks ==
  /\ searching /\ ~hash.gpu
  /\ chunks' = 0 .. Workers - 1
  /\ miner' = [miner EXCEPT !.pc = "collect"]
  /\ clear' = [clear EXCEPT !.next = miner.nonce]
  /\ UNCHANGED <<hash, chain, gpu, slots>>

\* Lines 48-57: chunks finish in any order; the first with a proof ends the search.
finishChunk(i) ==
  /\ i \in chunks
  /\ LET r == _search_chunk(i) IN
     IF r.none /\ chunks # {i}
       THEN chunks' = chunks \ {i} /\ UNCHANGED <<miner, clear>>
       ELSE chunks' = {} /\ returned(r) /\ declared(r, TRUE)
  /\ UNCHANGED <<hash, chain, gpu, slots>>

-----------------------------------------------------------------------------
(* usst_miner.py 327-335 and the chain it reads *)

readBlock ==
  /\ miner.pc = "block"
  /\ miner' = [miner EXCEPT !.pc = "target", !.workBlock = chain.height, !.last = None]
  /\ clear' = [clear EXCEPT !.nonces = {}]
  /\ UNCHANGED <<hash, chain, gpu, slots, chunks>>

readTarget ==
  /\ miner.pc = "target"
  /\ \E s \in Starts :
       miner' = [miner EXCEPT !.pc = "search", !.target = chain.target, !.nonce = s]
  /\ UNCHANGED <<hash, chain, gpu, slots, chunks, clear>>

nextBlock ==
  /\ chain.height < MaxHeight
  /\ \E t \in Targets : chain' = [height |-> chain.height + 1, target |-> t]
  /\ UNCHANGED <<hash, miner, gpu, slots, chunks, clear>>

-----------------------------------------------------------------------------
SearcherInit ==
  /\ \E h \in Hashes, g \in BOOLEAN : hash = [of |-> h, gpu |-> g]
  /\ \E t \in Targets : chain = [height |-> 0, target |-> t]
  /\ miner = [pc |-> "block", workBlock |-> 0, target |-> 0, nonce |-> 0,
              last |-> None, tried |-> 0]
  /\ gpu = [workBlock |-> NoBlock, hot |-> 1, hotNonce |-> 0, slot |-> 0]
  /\ slots = [s \in 0 .. 1 |-> [running |-> FALSE, base |-> 0, val |-> INT64_MAX,
                                t |-> target_to_limbs(0)]]
  /\ chunks = {}
  /\ clear = [nonces |-> {}, next |-> 0]

SearcherNext ==
  \/ coldStart \/ hotPath \/ collect \/ (\E s \in 0 .. 1 : kernel(s))
  \/ submitChunks \/ (\E i \in 0 .. Workers - 1 : finishChunk(i))
  \/ readBlock \/ readTarget \/ nextBlock

SearcherSpec == SearcherInit /\ [][SearcherNext]_searcherVars

-----------------------------------------------------------------------------
(* Properties *)

\* What search() returns is a proof for the work block and the target of that
\* call, though its batch was launched by an earlier call, perhaps for another
\* target, next to a buffer that belonged to another block (gpu 321-379, cpu 33-57).
ReturnsProofs == miner.last.none \/ HashOf(miner.last.nonce) < miner.target

\* Batch by batch the nonces from the start of the work on are covered without a
\* gap: when search() says there is none, there is none, but for the batch that
\* was already in flight when the target changed (gpu 176-188, 304-377, cpu 40-57).
NothingPassedOver ==
  miner.pc \in {"search", "collect"} =>
    \A n \in clear.nonces : HashOf(n) >= miner.target
=============================================================================
