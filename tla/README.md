# PSVFSS in TLA+

PSVFSS (`pvfss/`, on the function secret sharing of `vdpf/`) lets a client
post a signal for a recipient to two servers that do not learn for whom it is.
A signal is a pair of shares of a verifiable distributed point function (VDPF):
the recipient's identifier is the point, the location of the message the value.
The servers evaluate their shares at a recipient's identifier, shuffle the
resulting vector of location shares so that positions tell nothing, drop the
empty positions and answer with what is left.

This directory models that program in TLA+, checks it with TLC on small
instances and proves the main invariants with TLAPS for all.  All paths
below are relative to the repository.

## The parts of the system

| part | code | state | operations | peers |
|---|---|---|---|---|
| admission server | `pvfss/src/admission.{h,cc}` | `verified_keys_`; the `PreparedAdmission` objects its callers hold | `Prepare`, `message`, `Finalize`, `Lookup` | evaluates with a DPF object; one message each way to the other server |
| VDPF | `vdpf/src/vdpf.c`, `common.c`, `include/{common,field61}.h` | the arrays of a call; the key pair | `genVDPF`, `batchEvalVDPF`, `fullDomainVDPF` | the two parties hold one share each and never talk |
| plain DPF | `vdpf/src/dpf.c` | the same arrays, outputs under XOR | `genDPF`, `batchEvalDPF`, `fullDomainDPF` | the same |
| DPF object | `pvfss/src/dpf.cc`, `vdpf/src/mmo.c` | context keys, a cipher context, two hash streams with a position | `Gen`, `Eval*`, `VerEval`, `BatchEvalProof`, `Export/ImportContextKeys` | used by admission and session |
| punctured vector | `pvfss/src/opv.cc` | seeds, the queue of `PunctureExpand` | `OblivSetup`, `Expand` | oblivious transfers between the two servers |
| shuffle preprocessing | `pvfss/src/ss_shuffle.cc`, `Offline` and its helpers | layers of small permutations, of `a`, `b` and `delta` | `ShareTranslation`, `PermReconstruct`, `Reallocate`, the offsets | both servers, as sender and as receiver |
| online shuffle | `ss_shuffle.cc`, `SecretSharedShuffle` | `x`, `out0`, `out`, the connection | `PermuteShare` twice | both servers |
| triple and compression | `pvfss/src/server.cpp` | a Beaver triple, opened products | `BTGen`, `Mult`, `CPRS` | both servers |
| session | `pvfss/src/test.cc` | everything above for one run, verdict bytes | `RunBenchmarkCase` | both servers and, as BOB, the recipient |
| drivers | `scripts/`, `pvfss/*.py`, `experiments/` | child processes, result files | start, supervise, parse | the two server processes |
| OMR baseline | `baselines/omr/main.cpp`, `include/{PVWToBFVSeal,retrieval,client,LoadAndSaveUtils}.h` | clue files, packed bits, index and payload ciphertexts, the recipient's equations | the demos OMD1p, OMR2, OMR3 | a sender, the detector's worker threads, a recipient, in one process |
| other baselines | `baselines/` (PPS-GC in Rust, FMD in Go) | tables and kernels of other schemes | benchmarks | none of the above |

### What is hard in it, and what makes each part correct

* **Admission.** Each server decides alone and nothing makes the two decisions
  atomic; messages and preparations can be old when they are used.  Correct
  means: only shares that both servers verified to one proof are stored, an
  entry is never replaced, and the databases differ only if two admissions of one
  signal overlapped or shares of different pairs gave equal proofs, which those
  of the code may (see *What was found*).
* **VDPF.** Two trees grown from different roots must agree at every node off
  the path to the point and differ in their control bits on it; generation
  restarts until a bit of the last seeds differs; outputs are negated by party
  and corrected by the control bit.  The full-domain functions expand the tree
  in a flat heap and find the parent of a pair from three running counters.
  Correct means: the outputs are shares of the point function, of a batch and of
  the whole domain.
* **DPF object.** The verification hashes are counter streams that live as long
  as the object: proofs agree only if both servers stand at the same position.
* **Shuffle preprocessing.** Three functions compute which elements a small
  permutation acts on.  Correct means: `delta[i] = b[i] - a[perm[i]]`.
* **Online shuffle.** Two rounds with exchanged roles over one connection.
  Correct means: the two results are shares of the input's sum, permuted by
  both servers; nothing stays on the connection; both servers return.
* **Triple and compression.** Shares live modulo 2^64, locations in the field of
  2^61 - 1 elements, and products are opened to find the empty positions.
* **Session.** A blocking protocol on one connection, whose two ends must first
  find each other, with buffers that are bounded and an early exit on a proof
  mismatch that both servers have to take.
* **OMR baseline.** Bits are found, moved and added up under encryption, in
  batches that threads share and chunks that rotate one ciphertext in place; a
  recipient decodes indices from sums of powers, or from tables in which
  messages may collide, and solves for the payloads.  Correct means: own messages
  are detected, the decoded indices are the detected ones, and what is reported
  as correct is.

The full list, with lines, is under `hazards` in `PROJECT.json`.

## Modules

| module | models | in the code |
|---|---|---|
| `Admission` | the two admission servers and their network | `admission.cc` |
| `AdmissionLedger` | what admission promises: a write-once ledger with two-server verification | the abstract specification |
| `Field61`, `Vdpf` | the field; key generation and batch evaluation of both schemes, without the proof that the verifiable one computes beside | `field61.h`, `vdpf.c`, `dpf.c`, `common.{c,h}` |
| `FullDomain` | `Vdpf` with the full-domain evaluations behind the batch | `vdpf.c`, `dpf.c` |
| `DpfContext` | class `DPF`: contexts, hash streams, check words and proofs | `dpf.cc`, `mmo.c`, the hash calls of `vdpf.c` |
| `Opv` | punctured vectors and `ShareTranslation` | `opv.cc`, `ss_shuffle.cc` |
| `BlockGroup` | the laws of `operator+` and `operator-` of a block | `ss_shuffle.cc`, `opv.cc` |
| `ShuffleOffline` | `Offline`, one direction | `ss_shuffle.cc` |
| `Shuffle` | `SecretSharedShuffle` | `ss_shuffle.cc` |
| `Response` | `BTGen`, `Mult`, `CPRS`, the response, the recipient and the verdict | `server.cpp`, `test.cc` |
| `Session` | a run of two processes and the driver over them | `test.cc`, `run_psvfss_unified.py` |
| `Retrieval` | what a run promises: retrievals begun in step, none after a refusal, cases judged alike by both servers and only when both have begun all of them, a result only when both have accepted every case | the abstract specification |
| `OmrDetect` | PVW clues, the packed key, the range check, the expansion of a packed ciphertext: pure operators | `PVWToBFVSeal.h`, `regevEncryption.h` |
| `OmrRetrieval`, `OmrClient` | index and payload retrieval; decoding and the equation solver: pure operators | `retrieval.h`, `client.h`, `LoadAndSaveUtils.h` |
| `Omr` | the three demos: sender, worker threads, aggregation and recipient over these operators | `main.cpp` |
| `*Proofs` | theorems about the module of the same name (`VdpfProofs` also about `FullDomain`, `AdmissionProofs` also about `DpfContext`, whose names carry a prefix for that) | |
| `MC*` | the instance TLC checks | |

The modules meet at the data they hand on.  `Vdpf` ends with shares of a point
function, which is what a slot of the vector of `Shuffle` is after the opening
of `RunBenchmarkCase`.  `Opv` ends with `delta[i] = b[i] - a[perm[i]]` for one
small permutation, which `ShuffleOffline!ShareTranslation` takes as given and
extends to the composed permutation, and `Shuffle` takes that in turn.  `Shuffle`
ends with shares modulo 2^64 of the permuted vector, with which `Response`
starts.  `Session` leaves the data out and keeps the order of all messages and
every early exit.  `FullDomain` EXTENDS `Vdpf` and runs behind it, over the same
key.  `Omr` stands alone, as the baseline does.

### How state and actions correspond to the code

* **Admission.**  `store` is `verified_keys_` of both servers; `prepared` are the
  `PreparedAdmission` objects that callers hold, with the identifiers they were
  made from; `msgs` only grows, and what the code hands to the network may be
  read any number of times or never.  `Prepare` and `Finalize` are the two
  methods with every early return, `FinalizeDecision` is the ladder of decisions;
  `Send` is a call of `message()`, `Garble` what the repository's test does to a
  proof on the way.  Nothing in the repository sends or finalises twice, or promises
  to do it once: nothing is assumed of when these calls are made.
* **Vdpf.**  One action per level of generation, one for the output words, with
  the restart of line 122 of `vdpf.c`; one action per level and input of the
  evaluation.  `scheme` says which pair of functions is called: the plain one has
  no restart, the block 1 for beta, and its outputs combine by XOR where those of
  the verifiable one add up in the field.  The block cipher is a constant, so that
  the theorems hold for any.
* **FullDomain.**  `heap[b]` is the pair of arrays `seeds` and `bits` of a call;
  `FullExpand` is one turn of the loop over pairs with its three counters
  (`top` is the loop variable), `FullLeaf` one turn of the loop over outputs.  The
  two parties advance independently of each other.
* **Omr.**  A ciphertext is the vector of its slots, in two rows that rotate
  separately, and SEAL's operations are exact on it.  `Detect` and `Retrieve` are
  one batch and one chunk of a worker; `Distribute` is the main thread between the
  two phases, behind the barrier, where it draws the graph (of which only what it
  gives to detected messages matters, the others are multiplied by 0);
  `Aggregate` adds up what the workers have; `Decode` is the recipient with its
  verdict.  `packed[b]` is changed by retrieval too: the code rotates it in place.
* **DpfContext.**  Key generation, evaluation, export and import move two
  counters per object, the positions of the two hash streams.
* **Opv.**  Rows are taken one after another by both parties; `OblivSetup` is a
  joint step, because the library transfers need both; `PunctureLayer` is one
  turn of the loop over levels, with the queue as an array.  Blocks are any group
  with an XOR; `Sums` and `Xors` are the loops that add and XOR, one entry after
  the other (ALICE's XORs level by level, where the code goes depth first).
* **ShuffleOffline.**  Each loop of `Offline` is a phase and each turn a step:
  `PermReconstruct`, `ShareTranslation`, `Reallocate`, `SendOffset`,
  `Accumulate`, `Finish`.
* **Shuffle, Response.**  One FIFO channel each way; a blocking receive is an
  action that needs a message; a receive and the computation and send that
  follow without another receive are one action, since the process can be seen
  by nobody in between.
* **Session.**  `todo[s]` is what is left of the script of process `s`.  The
  scripts are written separately from the two branches of the code on `party`, with
  the prints where the code has them.  `Connect` and `AcceptPeer` are the two
  constructors of `NetIO`.  `Holds` says what the connection takes unread: a send
  that it does not hold waits until the peer reads (`Room`), so that the theorems
  cover buffers of any size.  Where all permutations of a layer take the same turns,
  one stands for them: one `ShareTranslation` each way for the d * N/T of the code.
  To `Retrieval` it maps (`Promise`) by forgetting the scripts and the connection:
  a retrieval is begun when the shuffle is (`shuffles`), `HowEnded` forgets why a
  process failed, and `Accepted` counts the cases a server has found correct by
  the demands that are not left in its script.

In a module, definitions marked *Variant* are plausible mistakes in the code (a
dropped check, a wrong order, a missing reset).  Nothing refers to them; each
replaces the definition below it to show that a property notices.

## What the runs check

| run | properties | bounds, and why they are enough |
|---|---|---|
| `admission` | `TypeOK`, `StoredIsVouched`, `DivergenceHasCause`, `StoreIsWriteOnce`, `LedgerSpec` | two signals (symmetric), so that a message may be of another one; three honest key pairs, two of them with equal proofs, as pairs generated in equally many turns have, and a malformed share; two preparations per server, so that an old one meets a new one; the proofs of this model depend on the pair's turns, not on the pair |
| `vdpf_point` | `TypeOK`, `TreeInvariant`, `SharesOfPointFunction`, `OneSelectorAtAlpha`, `FullDomainShares` | both schemes, three levels, so that the heap has a level with several pairs above another; all root pairs of a block of three bits, some of which force restarts; a batch of three inputs, on and off the path, and every interleaving of the two parties |
| `context_proofs` | `ContextTypeOK`, `HonestProofsAgree`, `ProofTellsBatchAndTurns` | two objects (symmetric) and two context keys; two key pairs, one restart of a generation, batches of up to two and two evaluations, so that positions drift apart and come back |
| `context_inconsistent` | `InconsistentSharesDiffer`, violated | the same |
| `shuffle_layers` | `TypeOK`, `DeltaCorrelates` | 64 elements in permutations of four: five layers, so that both halves and the middle are met, and suffixes that are capped and that are not; the flat shuffle, one layer, is left to the theorem |
| `shuffle_remainder` | `DeltaCorrelates`, violated | 32 elements, where log2 T does not divide log2 N |
| `shuffle_online` | `TypeOK`, `SharesOfShuffled`, `ConnectionDrained`, `Returns` | all pairs of permutations of three elements; vectors without regularity |
| `punctured_vectors` | `QueueIsPuncturedLevel`, `Correlated` | trees of three levels, so that a corrected node is expanded again; blocks of four bits under addition modulo 16 and bitwise XOR; a generator that sometimes yields zero |
| `response` | `TypeOK`, `TripleUpToBorrow`, `SameSlots`, `MaskKeepsAll`, `RecoveredUpToWrap` | words of five bits with the field modulo 3, in the relation of 64 bits and 2^61 - 1 (the modulus is 2^(w-3) - 1); two elements, so that a kept one may follow a dropped one; masks that four divides or not; draws whose product borrows |
| `response_exact` | `ExactLocations`, violated | the same |
| `session` | `TypeOK`, `TypedReceives`, `RefusedTogether`, `HangsOnPipeOrDesertedOnly`, `NothingLeft`, `ParsedIsWholeRun`, `DriverEnds`, `RetrievalSpec` | two cases of two repetitions in all eight modes, parameters that do not fit; pipes that hold the output and pipes that do not; a connection that holds two messages and never a vector of blocks, signal keys or proofs; any crash, also before the servers are connected; the refinement of `Retrieval` |
| `omr` | `OwnDetected`, `IndicesExact`, `PayloadsUnlessShared`, `CorrectReported` | eight slots modulo 17 (a prime 2^k + 1 as in the code), so that an index takes two slots and two digits; three batches, of which the last is short in OMR2; one and two workers, in every interleaving; a range of three values (-1 to 1), own clues with noise up to its edges, foreign ones under two keys; two retrieval tables, all graphs and table places for the detected messages |

In `omr` each of these happens: a subtraction that wraps and ends on the edge of
the range (message 11), a foreign clue that is in range (message 12, a false
positive), a random table that overflows, a system
that cannot be solved, and one in which a shared coefficient spoils a solution.

Deadlock is checked in all runs except those of `ShuffleOffline` and
`FullDomain`, which are functions that return.  `Shuffle`, `Response` and `Opv` only stutter
when both sides have returned, so that the absence of deadlock says that neither
server waits for ever; their state graphs have no cycles, so that they also
return.

**Fairness.**  `Admission` has none: no code schedules its calls.  `Shuffle!FairSpec` is weak fairness of each process: a process is
one thread, which runs on whenever the connection lets it.  `Session!FairSpec`
assumes nothing of the servers, which may hang or crash; only the driver, which
polls a clock, goes on.

### What was found

* `context_inconsistent`: the verification hash does not depend on its input.
  `mmo_hash2to4` and `mmo_hash4to4` run a counter-mode stream and XOR the input
  in twice (`mmo.c:69-79`), so that equal proofs establish the position of the
  stream, that is, the context, the batch length and the turns of the key
  generation.  `ProofTellsBatchAndTurns` says this exactly, and
  `HonestProofsAgree` that honest servers agree.
* `shuffle_remainder`: the preprocessing composes layers with other suffix
  lengths than it sums them when log2 T does not divide log2 N, although T
  divides N as its check demands.  `OfflineCorrelates` proves that it is right
  when log2 T divides log2 N.
* `response_exact`: shares that sum modulo 2^64 are reduced modulo 2^61 - 1 one by
  one; a location is off by 8 whenever the shares wrap.  `RecoveredUpToWrap` says
  that this is the only error.
* Not the subject of a run, but met while modelling the baseline: `client.h:258`
  tells the pivot row by the value of its coefficient and leaves other rows with
  that value as they are, which is why `PayloadsUnlessShared` excludes it; and in
  bench mode the recipient reads buckets with the stride 306 of the demos
  (`main.cpp:242`) where the server packs four slots per message (the comment at
  `main.cpp:644`), so that any bucket but the first is read in the wrong place; the
  results kept in the repository say `"correctness_status": "failed"`
  (`experiments/server_online_comparison/results/latency_extension_8192_16384/omr_degree16384_smoke.json:8`).
* Nor is this: the polynomial of the range check has only even powers, so that the
  range has both its ends: evaluating the table of `global.h:21` at all 65537
  arguments gives 0 from -850 to 850 and 1 elsewhere.  The comment
  (`main.cpp:127`) leaves 850 out.  The code needs it: an own clue with the noise
  849 whose subtraction wraps lands on 850.
* Nor this: `vdpf.c:379` hashes a leaf of the full evaluation with its slot in
  the heap, where generation and batch evaluation hash it with the input.  With
  the hash of this code, which ignores its input, nothing follows from it.
* Nor this: `run_psvfss_unified.py:33` demands a line that starts
  with `[BENCH_CSV] `, which `test.cc` does not print any more (it prints
  `[BENCH_CSV_LEGACY] `, line 128), so that the driver fails after every run.
  `Session` ends where the output is parsed.

## What is proved

All theorems are checked by TLAPS for all values of the constants that satisfy
the named assumptions.

* **Admission** (`AdmissionProofs`).  `TypeCorrect`, `StoredVouched`,
  `DivergenceExplained`, `WriteOnce` and `ImplementsLedger`, for any signals, shares,
  registries, proofs and any bound on preparations.  A message says nothing of
  the share behind its proof, so that the invariant is strengthened: every
  message whose proof is not altered was made from a preparation of its sender,
  and every ready preparation carries the proof of its own key and list.
  `DivergenceExplained` assumes nothing of what proofs tell, so that it covers those
  of the code, which do not tell pairs apart (`DpfContext`).
* **VDPF** (`VdpfProofs`).  For any field modulus, cipher and depth and both schemes:
  `PointFunctionShared`, that the outputs are shares of the point function, from
  `TreeHolds`, the invariant of the tree: below each level the two parties have
  equal seeds and bits off the path and different bits on it.  It is inductive
  only together with what the correction words of the levels above are, and with
  what the restarted generation leaves in its arrays.
* **Full domain** (in `VdpfProofs`).  `FullDomainShared`: the outputs at every
  input are shares of the point function, whatever the two parties have written;
  `FullTypeCorrect`: the counters stay within the heap; `FullImplementsTree`: the
  evaluation is a stuttering of `Vdpf`, whose invariant it therefore keeps.  The
  counters are shown to locate the next pair (`Counts`): with k pairs of level
  L filled, the loop variable is `2^L - 1 + 2k` and `ParentIndex` is slot
  `2^(L-1) - 1 + k`.  With it, each filled slot holds a child of the slot above
  (`LinkInv`), the slots on the way to alpha hold the generator's nodes (`WayInv`)
  and the others are equal at both parties (`MeetInv`).  Which slots are on the
  way is division by powers of two; `FullDomainAssumption` says that `GetBit`
  reads binary digits, and `PowerAssumption` gives the provers what they lack
  about powers of two.  TLC evaluates both in `vdpf_point`.
* **DPF object** (in `AdmissionProofs`, as admission compares the proofs of these
  objects).  `ContextTypeCorrect`, `HonestAgree` and `ProofTells`:
  the invariant relates the positions of both streams of both objects to what they
  have done since the contexts were last set.
* **Preprocessing** (`ShuffleOfflineProofs`).  `OfflineCorrelates` and
  `OfflineTypeCorrect`, under `n % t = 0 \/ d = 1`.  The heart is arithmetic of
  indexes: the suffix length that `PermReconstruct` has walked to is the one
  `LayerSuffix` computes, `Index` and its inverse are a bijection, and therefore
  each layer is correlated as a whole; the invariant of the accumulation says
  that after layer l the sum is the difference of the last `b` and the first `a`
  permuted by the layers so far.  `PowerAssumption` states three facts about
  powers of two, which the provers do not have; TLC evaluates it in each run.
* **Punctured vectors** (`OpvProofs`).  `TypeCorrect`, `QueueFollows` and
  `DeltaCorrelates`, for every depth, group of blocks, generator, draw of the roots
  and permutation.  `Inv` says what `Correlated` leaves out: both parties have
  begun equally many rows (`Lockstep`); while BOB expands, what he was transferred
  is ALICE's XOR of the side his permutation asks for (`Transferred`); his queue
  is a level of her tree with a hole, and `path` is the sibling of the hole
  (`Rebuilt`, `Follows`); and the rows that are filled are such levels (`Vectors`).
  `NextLevel` is the turn of his loop: the XOR he was given, less what he knows of
  it, is the child of the punctured node that he may know (`Uncovered`).  In the
  end each row sum and the column sum it meets lack the same entry.  The tree and
  the two kinds of sums are recursive functions: that there are such functions
  (`Recursion`), and what they come to, is shown by induction over sets of
  numbers.  `XorAssumption` names the laws of XOR, `OpvAssumption` that
  permutations are injective; TLC evaluates them in `punctured_vectors`.
* **Online shuffle** (`ShuffleProofs`).  `TypeCorrect`, `Shares` and `Drained`,
  for any number of elements, any group of blocks (`BlockGroup` names its laws)
  and the flat shuffle as well as the layered.  The invariant says, for every
  pair of positions of the two servers, what is on the connection and what the
  two partial results add up to.
* **Triple and compression** (`ResponseProofs`).  `TypeCorrect`,
  `TripleMultiplies`, `SlotsAgree`, `MaskExact` and `RecoveredValues`, for every word size,
  field, vector, mask and triple.  The servers take turns, so the invariant is a
  list of the stages of a run (`Stages`), with what is on the connection in each:
  in all of them but one the servers have treated the same elements, and in
  `ProductBack`, where BOB is one element ahead, both know the product that
  decides whether ALICE follows.  `KeptInv` says what a kept share is, and the
  rest is arithmetic modulo the word, the field and the Paillier modulus
  (`TripleSum`, `FieldSum`).  `MaskExact`: with a triple that did not borrow and a mask
  that four does not divide, the elements kept are exactly those that carry
  something.  It needs what the two servers know of their shares while a product is
  opened (`DifferencesInv`, `ProductInv`), so that the opened product is that of
  mask and location (`BeaverProduct`), and that an odd factor has no part in a
  power of two (`OddCancels`), by an induction over the bits of a word
  (`BitInduction`).  `ResponseAssumption` and `PowerAssumption` tell the provers
  about 2^w what they cannot compute, `FieldAssumption` that eight times the field
  modulus fits a word, as 2^61 - 1 does; TLC evaluates them in `response`.
* **Session** (`SessionProofs`), for any command line, number of cases and
  repetitions, size of the pipes, any connection (also one that holds no message
  unread), and whatever fails, crashes or is stopped.
  The *scripts* come first: those of ALICE and of BOB have the same length and fit
  place by place, where one sends the other receives that kind, and they shuffle,
  decide, print and demand at the same places (`Fits`).  So a position in a script
  takes the place of an induction over sequences.  `Safe` is the invariant of the
  *servers*: what lies on the connection is what the server that is ahead has sent
  since the other's position, and that server has received nothing since (`Link`);
  ALICE accepts only a connection that BOB made (`Met`);
  the verdict that BOB takes is the one ALICE gave there (`Verdicts`, `Refusal`);
  both have the same summaries when they judge a case (`Agree`, `Incorrect`,
  `Invalid`); and how often each has shuffled follows from its position
  (`Counted`).  `ServersInductive` is that it holds; from it follow `TypeCorrect`,
  `ReceivesAreTyped`, `RefusalsAreShared`, `EndsAreAlike`, `ParsedRunsAreWhole`, and
  `HangsExplained`, freedom from deadlock but for a full pipe or a peer that ended
  before it was connected: of two servers that both wait to receive neither could be
  ahead of the other, and at one place one of them sends; a server that is to send is
  never behind, so that two that both wait to send would be at one place, where one of
  them receives; and where one sends and the other reads an empty queue, there is room.
  `Safe` was given to TLC before it was proved.
  The *driver*: `NoneLeft` and `ParsedWasFinished`, for any scripts: every step of
  the servers, and a crash, is a step of a process that runs (`Own`), so an ended
  process stays as it ended, and the driver ends, or accepts, only on two that
  have.
  The *refinement*: `ImplementsRetrieval`, every run is one that `Retrieval`
  allows.  What `Retrieval` counts follows from positions: a shuffle stands
  between two reads of each server, so that neither passes it before the other has
  come to the place before, nor goes on before the other has passed it (`Ordered`,
  `Waits`, `Near`).  From there the number of shuffles that a server has begun
  tells the place of its last one (`Past`, `CountsAreKept`), and the number of
  cases accepted the place of its last demand (`Booked`).  Then each step is shown
  to be one of `Retrieval` or none: a shuffle is `Begin`, a verdict `Refuse`, a
  demand `Accept` or `Reject`, the end of the script `Finish`, what the driver does
  `Deliver` or `Abandon`, and every send, receive and print is silent.  `EndsAreAlike`,
  that two servers which end by themselves end in the same way, is proved by
  itself; no run checks it, as the refinement says more.

* **OMR detection** (`OmrProofs`).  `DetectsOwn`: in a batch that is checked every
  own message has its bit, and whoever has a bit has a clue that decrypts to zeros
  under the recipient's key, for every modulus of the form 2^k + 1, number of slots
  (a power of two), length of a key, clues, interleaving of the workers, and noise
  inside the range.  The sums and products of `OmrDetect` are loops modulo P.  What
  a turning key and the diagonals of the masks add up to is a sum around a ring of
  `TempN` entries, which may begin anywhere (`SumTurned`), and the padded key fills a
  row a whole number of times (`Rings`): it is the inner product (`InnerTurned`).  A
  slot is therefore the noise of an own clue, or one above it where the subtraction
  wraps (`SlotValue`, `OwnInRange`); and a clue whose slot is in range lies so near
  the middle of the lower half that it is in that half (`InRangeDecrypts`).  The powers of the range check are made of
  squares by the bits of the exponent (`StepsArePowers`), and its baby and giant
  steps meet every coefficient once (`CheckIsPolynomial`).  What the coefficients are
  is an assumption, `PolynomialAssumption`: the code has them as a table, and TLC
  evaluates the assumption for the modulus of the run.  The invariant (`DetectInv`)
  says that what the workers have finished is checked, over the clues as the sender
  published them.  Dealing out the batches loses no message, for any number of workers that
  divides the batches (as `OmrAssumption` asks for OMD1p and OMR3) and with the short
  last batch of OMR2 (`WorkerOfMessage`): behind the barrier everything of the
  recipient's is among the hits (`BarrierComplete`).

**Only model-checked.**  Liveness (`Returns`, `DriverEnds`) is out of this prover's
reach, and so is ENABLED: `HangsOnPipeOrDesertedOnly` says when a server can go on by
its place in the script (`Ready`), which the provers can deal with.  Of the OMR baseline, what is decoded stays with TLC (`IndicesExact`,
`PayloadsUnlessShared`, `CorrectReported`): they are statements about the
decoders and an elimination over lists of any length, and the last of them holds
only where two messages do not have one payload by chance.

## What is not modelled

* SHA-256, AES, Paillier and the oblivious transfers: libraries, taken for what
  the code uses them for.
* The local dealer of the preprocessing in `test.cc:274`, which rounds the number
  of layers up where `Offline` rounds it down.
* What a message of admission is besides its proof cannot be altered in the model: a
  message whose signal identifier was changed on the way is not told from one of that
  signal, whose proof may be equal.
* What a session prints only before it throws, or for parameters that do not fit.
* The framing of big integers (`send_bn`) and of the response beyond its count.
* Campaign scripts, CSV and JSON output, timers.
* Of the OMR baseline: the noise and the levels of ciphertexts, the demos that
  only measure key sizes, timing, and the command line.
* The other compared schemes: PPS-GC, whose steps are circuits of a library, and
  FMD, timing programs around a vendored library.

The status of every part is under `components` in `PROJECT.json`.

## Plan

1. (done) `Admission`, `AdmissionLedger`; `Vdpf`; `DpfContext`; `ShuffleOffline`;
   `Shuffle`; their theorems.
2. (done) `Response`, `Opv`, `Session`.
3. (done) The plain DPF, `FullDomain` and its theorems; the OMR baseline.
4. (done) `Retrieval`, the abstract specification of a run, and the theorem that
   `Session` implements it.  Left: the local dealer of `test.cc:274`.
5. (done) Theorems about `Session`, whose scripts are indexed by position, about
   the products of `Response` and about `Opv`.
6. (done) Theorems about detection in the OMR baseline.  Left: the expansion of a
   packed ciphertext and the packing of the indices, for any number of slots.
7. The resumption of a campaign (`run_client_v2.py`): results written atomically,
   trials skipped when they are complete; and the tables of the PPS-GC baseline.
