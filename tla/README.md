# TLA+ models of the Ntree tree-signing protocol (ByzCoin, OmniLedger paper code)

This directory holds TLA+ models of the code under `src/`, the TLC configurations
that check them, and `PROJECT.json`, which lists the components, runs, mutants,
the source lines each definition models, the findings and the hazards.

## 1. Inventory

### Components and their state

| Component | Source | State | Operations |
|---|---|---|---|
| **Ntree protocol node** | `src/unnamed/part_000` | `block`, `tempBlockSig` + `tempBlockSigReceived` (round 1), `tempSignatureResponse` + `tempSignatureResponseReceived` (round 2), four typed message channels, two unbuffered result channels, `onDoneCallback` | `NewNtreeProtocol`/`NewNTreeRootProtocol`, `Start`, the `listen` select (announce, block signature, signature request, signature response), `startBlockSignature`, `computeBlockSignature`, `handleBlockSignature`, `startSignatureRequest`, `startSignatureResponse`, `computeSignatureResponse`, `handleRoundSignatureResponse`, `RegisterOnDone` |
| **Verification goroutines** | `part_000` | the argument of each goroutine, the value it is trying to send | `byzcoin.VerifyBlock` (not in `src/`; sends one boolean), `verifySignatureRequest` (threshold test, signature count, sends) |
| **Signature bundles** | `part_000` | `Sigs []SchnorrSig`, `Exceptions []Exception` | append-merge of a child bundle; append own signature or exception |
| **Client simulation** | `src/byzcoin_lib/protocol/client.go` | the parsed transactions, `consumed` | `triggerTransactions`: parse, two early returns, nested send loop to `srv.AddTransaction` |
| **PBFT simulation driver** | `src/unnamed/part_001` | `doneChan`, round counter | `NewSimulation` (TOML), `Setup` (roster, tree), `Run` (per round: create protocol, Start, wait on `doneChan`) |
| **Edwards curve arithmetic** | `src/vendor/.../edwards/basic.go`, `ext.go` | points `(x, y)` and `(X:Y:Z:T)` over GF(p) | `Add`, `Sub`, `Neg`, `double`, `Mul`, `normalize`, `Equal`, `Set`, `Null`, `Base`, `Point`, `checkT` |

External collaborators, not in `src/`: the onet tree overlay (`Children`, `Parent`,
`IsLeaf`, `SendTo`), the Schnorr primitive (`crypto.SignSchnorr`/`VerifySchnorr`),
`byzcoin.VerifyBlock`, the block parser and the PBFT `Protocol`.

### How the parts interact

Each tree node runs one `Ntree` instance. Its `listen` goroutine selects over four
channels that the overlay fills: `BlockAnnounce` travels down, `NaiveBlockSignature`
bundles travel up (round 1), `RoundSignatureRequest` travels down and
`RoundSignatureResponse` bundles travel up (round 2). On an announcement or a
request the node launches a verification goroutine, which hands one boolean to the
listen goroutine over an unbuffered channel; `computeBlockSignature` and
`computeSignatureResponse` block the listen goroutine until that boolean arrives.
Leaves start each upward phase; an internal node waits until its counter reaches
its number of children. The root turns the end of round 1 into the request of
round 2 and ends the run by calling `onDoneCallback`.

The client feeds transactions to a block server (not in `src/`). The PBFT driver
runs rounds of a protocol not in `src/`. The Edwards package is a leaf library.

### What is hard

* Sibling messages arrive in any order at every level; the aggregation is a plain
  counter and slice appends.
* Each node has a goroutine per verification besides its listen loop, joined by
  unbuffered channels; a send with no receiver blocks forever.
* The listen loop blocks inside handlers, so a node dispatches nothing while it waits.
* The acceptance test is an integer boundary (`> f`, `<= 2f`, `f = ceil(N/3)`).
* Send failures are logged and ignored; marshal/sign failures return early.

### What makes each component correct

* Ntree: each round's bundle at the root holds exactly one contribution per node
  (spec 3, 8); round 2 starts only after round 1 is complete (spec 5); the request
  is the root's phase-1 bundle (spec 4.4); the callback is invoked exactly once
  (spec 9); the reported bundle does not change after the callback; every
  goroutine exits.
* Threshold test: checked inside `Ntree`, where the verifier must exit and count
  every valid signature. Its inequalities are the edges spec 8 pins, so no
  separate rule is stated.
* Client: at most `nTxs` sends (its doc comment).
* Edwards: extended-coordinate results normalise to the affine results; the
  `T = XY/Z` invariant holds after every operation; `Mul` equals repeated addition.

## 2. Modules

| Module | Models | Notes |
|---|---|---|
| `ThresholdPolicy` | `verifySignatureRequest`'s threshold and its sequence of sends | pure operators |
| `Ntree` | the whole protocol on a tree given by `Parent`, with an overlay that may lose or duplicate messages | EXTENDS `ThresholdPolicy` |
| `NtreeAbstract` | what one run promises: each node contributes once per round, the root last | abstract specification |
| `MC_Ntree` | a 5-node tree, the 7-node binary tree of spec section 8 and a 3-node tree, with model-value nodes | |
| `Client` | `triggerTransactions` | |
| `Edwards` | `basic.go` (affine) and `ext.go` (extended) point arithmetic over GF(`Prime`) | pure operators; `Bits` and the two `Mul` loops are RECURSIVE |
| `MC_Edwards` | checks them on a complete curve over GF(13) | |

### Ntree: state and actions

| TLA+ | Code |
|---|---|
| `tempBlockSig`, `tempBlockSigReceived`, `tempSignatureResponse`, `tempSignatureResponseReceived` | the fields of the same name |
| `pc[n]`, `msgArg[n]` | where the listen goroutine is blocked (inside `startBlockSignature`, the tail of `handleBlockSignature`, `startSignatureResponse` or the tail of `handleRoundSignatureResponse`) and the `msg` argument it holds |
| `verifyBlockRunning`, `verifyBlockChan` | running `VerifyBlock` goroutines, and those blocked on their send |
| `verifySig[n]` | the `verifySignatureRequest` goroutine: its request and the booleans it has still to send |
| `network` | a bag of the messages sent and not yet received; unordered |
| `lost`, `duplicated` | how many `SendTo` calls have failed, and how many messages the overlay has delivered twice |
| `doneCalls`, `final` | `onDoneCallback` invocations and the `NtreeSignature` passed |
| `Start` | `Ntree.Start`: announces to the root's children in `Children()` order and returns at the first failing `SendTo` |
| `VerifyBlock(n)` | `byzcoin.VerifyBlock` deciding (nondeterministically) |
| `ReceiveBlockAnnounce`, `ReceiveBlockSignature`, `ReceiveSignatureRequest`, `ReceiveSignatureResponse` | the four `case`s of `listen`, each up to the point where the handler blocks or returns |
| `StartBlockSignature`, `FinishBlockSignature`, `StartSignatureResponse`, `FinishSignatureResponse` | the handler resuming when its verification value arrives: compute, then send up / start the request / call back |
| `Lose` | a `SendTo` whose error is logged and ignored: the message is gone |
| `Duplicate` | the overlay delivering a message a second time (not in `src/`) |

Signatures are `(signer, payload)` records: payload `"Block"` is
`json.Marshal(nt.block)`, `"Header"` is `json.Marshal(nt.block.Header)`; Schnorr
verification succeeds exactly for the signer's key and payload. Bundles are bags,
since slice order carries no meaning.

`SignCanFail` turns on the error returns of `json.Marshal` and `SignSchnorr`:

* In round 2 either failure makes `computeSignatureResponse` return without
  appending anything.
* In round 1 a marshal failure also returns early.
* A round-1 `SignSchnorr` error is dropped (`schnorr, _ :=`), so the zero signature
  (`ZeroSig`) is appended. It verifies under no key.

`MaxLoss` and `MaxDup` bound the two message faults.

### Refinement

`NtreeAbstract` has a stage (`idle`, `round1`, `round2`, `done`) and the sets of
nodes that have contributed to each round. Its actions are:

* `Begin`;
* `Contribute1(n)` and `Contribute2(n)`, once per non-root node;
* `Request` and `Report`, where the root contributes last and moves to the next stage.

`Ntree` maps onto it as follows:

* `stage` comes from `started`, the root's `verifySig` and `doneCalls`.
* `signed1` and `signed2` are the nodes with a signature or an exception in their own
  round-1 or round-2 bundle.

`ImplementsAbstract` checks `Ntree`'s `Spec` against `NtreeAbstract!Spec` on the
5-node tree with a reliable overlay. It does not hold under the findings'
conditions, so it is not checked in the fault runs.

### Edwards

Field elements are `0..Prime-1`, and `nist.Int` arithmetic is modular arithmetic.
The inverse is found by search. Affine points are `<<x, y>>`; extended points are
`<<X, Y, Z, T>>`.

* `BasicAdd` and `AddDenominators` translate `basicPoint.Add`.
* `ExtAdd`, `ExtSub`, `ExtDouble` and `ExtNeg` translate the extended formulas.
  `Products`, `AddE`, `Combine` and `DoubleTerms` are their shared intermediate terms.
* `Bits` reads a scalar most significant bit first, as `Mul`'s loop does.
  `BasicLadder` and `ExtLadder` are the double-and-add loops of the two `Mul`s.
* `Normalize`, `GetXY`, `ExtEqual` and `CheckT` translate their namesakes.

`MC_Edwards` works as follows:

* A state holds two curve points `q1`, `q2`, a scalar `k ≤ MaxScalar`, and `q1`
  added `k` times to the identity.
* `AddOnce` builds that multiple one addition at a time, so the reference for `Mul`
  needs no deep recursion.
* Extended inputs are every representation of the points with `Z` in `Scales`.

## 3. Runs

| Run | Expect | Shows |
|---|---|---|
| `ntree_core` | pass | Round 1 aggregates exactly: every bundle in flight holds one contribution per subtree node, and the root's bundle is complete when round 2 starts (`Phase1BundleExact`). The root reports exactly once (`Termination`). After the report, the root's bundle, which the callback holds by pointer, never changes (`ReportedSignatureStable`; with duplicates TLC shows it changing). The protocol implements `NtreeAbstract` (`ImplementsAbstract`). |
| `ntree_faults` | pass | On the 3-node tree, with sign failures, one lost and one duplicated message: after a loss the root reports only if a duplicate has filled the gap in a counter (`CompletionImpliesNoLoss`). A run with neither fault reports exactly once, even with marshal/sign failures (`TerminationUnlessFault`). |
| `ntree_duplicates` | violation | one duplicated round-2 response makes the root call `onDoneCallback` twice (part_000:302) |
| `ntree_request_bundle` | violation | the request is the last child's bundle, not the root's (part_000:210) |
| `ntree_final_bundle` | violation | internal nodes forward their last child's response (part_000:315); on the 7-node binary tree of spec section 8 the root reports 3 of 7 contributions |
| `ntree_good_sigs` | violation | signatures are verified with the verifier's own key (part_000:247) |
| `ntree_verifier_exits` | violation | the verifier goroutine blocks forever on its second send (part_000:240/255) |
| `ntree_dup_phase2` | violation | one duplicated round-1 bundle from `n2` fills the root's counter (part_000:201-204); the root starts round 2 with `n2` counted twice and `n3` missing (`Phase2AfterPhase1`, spec 5) |
| `client_types` | pass | the range loop's index stays within the parsed list for every parse outcome (`TypeOK`) |
| `client_requested` | violation | `len * min(len, nTxs)` sends instead of at most `nTxs` |
| `edwards_arith` | pass | On a complete curve, the affine law is a group: closure, identity, inverse and associativity, with nonzero denominators. Extended `Add`/`Sub`/`double`/`Neg` agree with it for every `Z`. `T = XY/Z` is kept. `Mul` is repeated addition. `Equal` is point equality. |

Together, the findings mean that, as written, every round-2 contribution is an
exception. The request lacks most signatures. Each node counts at most its own
signature as good. The `> 2f` bar cannot be met with `f` refusals anyway.

The double report needs two defects together:

* the plain counter at part_000:302;
* the verifier's extra send at part_000:255, which is what unblocks the second
  `computeSignatureResponse`.

In round 1 a duplicate blocks the listen loop instead, which is why the duplicates
run does not check for deadlock.

### Bounds

* `MC_Ntree`, 5-node tree: root `n1` with children `n2`, `n3`; `n2` with children
  `n4`, `n5`.
  * This has a non-root internal node, leaves at two depths, and siblings racing at
    both levels, so "last child" differs from "all children".
  * Every node's `VerifyBlock` may return true or false. That is 11,241 states.
  * Symmetry is not used because the tree shape distinguishes nodes.
* `MC_Ntree`, 7-node balanced binary tree of the end-to-end scenario of spec section 8.
  * It is used by `ntree_final_bundle` (271,646 states explored before the
    violation).
  * `ntree_core` also passes on it (272,668 states), but takes about two minutes
    because of the temporal properties. It stays on the 5-node tree, which also has
    leaves at two depths.
* `MC_Ntree`, 3-node tree (root with two leaves), used by the fault runs.
  * Faults on the 5-node tree give more than 4 million states.
  * The 3-node tree still has siblings racing, and a child whose duplicate can stand
    in for its lost sibling.
  * The faults run has 293,633 states.
* `Client`: up to 3 parsed transactions, `nTxs ≤ 4`, so both `len < nTxs` and
  `len ≥ nTxs` occur.
* `MC_Edwards`: `a = -1 = 12` (a square) and `d = 2` (a non-square) modulo 13.
  * This is a complete twisted Edwards curve with 16 points, 4,608 states.
  * Scalars up to 17 cover up to five bits, non-palindromic bit patterns, and
    multiples past the group order.
  * `Z ∈ {1, 2, 5}` gives each point three extended representations.

### Fairness

* `Start` is weakly fair because the driver calls it.
* Each listen goroutine and each `VerifyBlock` goroutine is weakly fair because the
  Go scheduler eventually runs runnable goroutines.
* No strong fairness is needed: a listen loop that can move stays able to move until
  it does.
* `Lose` and `Duplicate` have no fairness: a fault may happen but never must.
  `TerminationUnlessFault` is stated for the runs in which none happens.
* `NtreeAbstract` asks only for weak fairness of its next-state relation.

## 4. Not modelled and plan

Not modelled:

* **PBFT simulation driver** (part_001: `NewSimulation`, `Setup`, `Run`).
  * `NewSimulation` and `Setup` are TOML decoding and roster/tree construction.
  * `Run`'s round loop waits on `doneChan` for a callback of the PBFT `Protocol`,
    which is not in `src/`. Whether that protocol calls back once per round decides
    everything the loop can do, and the source does not say.
* **`ExtendedCurve.Point()`** (ext.go:290) returns `(0:0:0:0)` because the `Set` to
  the null point is commented out.
  * With `Z = 0`, `Equal` holds against every point and `normalize` inverts zero, for
    which `nist.Int` has no defined result.
  * The model has no faithful value for that inverse, so it is listed as a hazard
    without a property.
* **Point marshalling, hiding, `Pick` and `Base`** rely on curve code absent from
  `src/` (`Param`, `hiding`, the encodings).
* **Block parsing** and the transaction server are not in `src/`.
* **`RegisterOnDone` racing with the end of round 2** (part_000:310/323). No caller
  of `RegisterOnDone` is in `src/`, so the model registers the callback before
  `Start`.

Plan, most important first:

1. **Round-2 refinement**: a second abstract specification for round 2 alone, with a
   mapping that counts contributions in the root's bundle. It would show how the
   findings break the promise at the root rather than at each node.
2. **Edwards refinement**: extended points as a refinement of affine points under
   `GetXY`, for a state machine applying a sequence of operations.
