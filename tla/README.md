# Verification of the Barnes-Hut t-SNE engine

This directory models two parts of the repository:

- `src/unnamed/part_000` (bh_tsne.ts): the `TSNE` class, its perplexity calibration `nearest2P` and its random
  initialisation;
- `src/tensorboard/plugins/graph/tf_graph_common/op.ts`: the TPU compatibility provider (`opValid` and its whitelist) and
  `checkOpsForCompatibility`, which marks every op node of a graph with the provider's verdict.

The two parts do not interact. The remaining files under `src/` (an Angular metrics configuration, a Polymer row element)
hold no state machine worth checking and are listed as not modelled in `PROJECT.json`.

## The system

The caller drives one `TSNE` object at a time. JavaScript runs each call to completion, so the model interleaves whole
calls:

| Call | Lines | What it does |
|---|---|---|
| `constructor(opt)` | 276-291 | Accepts only `dim` 2 or 3 and throws otherwise. |
| `initDataDist(nearest)` | 296-302 | Stores `this.nearest`, runs `nearest2P`, then sets `N` and calls `initSolution`. |
| `nearest2P` | 141-227 | Bisects the precision `beta` of each row to the perplexity target, within at most `maxTries` tries. It copies the row into the flat N×N array `P` and symmetrises it. |
| `initSolution()` | 305-312 | Draws Y with `randnMatrix`. `randnMatrix` calls `gaussRandom`, whose second polar draw is cached in the module-level variables `return_v` and `v_val` (lines 61-62). It also resets gains, momentum and `iter`. |
| `step()` | 318-358 | Increments `iter`, calls `costGrad`, then updates gains, momentum and Y, and recentres Y. |
| `costGrad` | 361-472 | Builds the SPTree, annotates it, and computes the attractive forces over the kNN lists and the repulsive forces by a Barnes-Hut visit. |

## Modules

| Module | Models | State | Actions |
|---|---|---|---|
| `KnnTables` | Predicates on kNN tables (sequences of rows of indices) | none | `ValidTable` (spec §7, spec-modelled), `Nearest2PThrows` (when `nearest2P` throws: empty table, or a later row longer than an earlier one, so `neighbors[k]` is undefined in the copy loop), `IndicesBelow` (what `costGrad` needs not to throw) |
| `Calibrator` | `nearest2P`, lines 141-227 | `nearest`, per-row entropy window `win`, `pc`, row `i`, `beta`, `betaMin`, `betaMax`, `numTries`, `pRowLen`, `P` | `Start` (N, P zeroed, K, first row reset), `Trial` (one pass of the `while(true)` body, with `RaiseBeta`/`LowerBeta` as its two branches and the stopping test), `Copy`, `Symmetrize`, `Finished` |
| `Engine` | The `TSNE` facade, lines 258-358 and the throw paths of `costGrad` | `phase`, `dim`, `nearest`, `N`, `Pof` (the table P came from), `Yrows`, `iter`, history `done` and `exag` | `Construct(d)`, `InitDataDist(T)`, `InitSolution`, `Step`, `NoEngine` |
| `GaussRandom` | `gaussRandom`, `randn`, `randnMatrix` and the shared cache, for several engines in one realm | `return_v`, `v_val`, per-engine `pos` and `Y`, `asked`, the engine `busy` inside `initSolution`, its matrix `x` and count `rem`, history `emitted` and `pairs` | `InitSolution(e, n)`, `Cached`, `Redraw`, `Accept`, `Return`, `Idle` |
| `TpuCompatibility` | `isNotTpuOp`, `opValid` and `WHITELIST`, op.ts lines 22-570 | none | the predicates `IsNotTpuOp`, `OpValid` |
| `CheckOpsAtomic` | What `checkOpsForCompatibility` promises: one atomic marking per call | `compatible`, `calls` | `Call(g, p)` |
| `CheckOps` | `checkOpsForCompatibility`, op.ts lines 572-588, one callback at a time | `compatible`, `calls`, `pc`, `graph`, the walk position `k`, `part`, `j` | `Call`, `MarkNode` (line 580), `MarkIn`/`InDone` (581-583), `MarkOut`/`OutDone` (584-586), `Return`, `Finished` |
| `Nearest2PAtomic` | What `nearest2P` promises, as one step: throw for the tables `Nearest2PThrows` names, else return the symmetrisation of the last-writer-wins copy of the rows | `nearest`, `pc`, `P` | `Call` |
| `CalibratorProofs`, `CalibratorRefinement`, `EngineProofs`, `CheckOpsProofs`, `GaussRandomProofs` | TLAPS proofs about `Calibrator`, `Engine`, `CheckOps` and `GaussRandom` | — | — |

The `MC*` modules give the constants to TLC.

### Abstractions

**Calibrator**

- `beta` is an exact integer in units of `1/Scale`, where `Scale = 2^MaxTries`. The bisection starts at 1 and divides by 2
  at most `MaxTries` times, so every value it reaches is exact.
- The entropy of a row is a decreasing function of `beta`. The model represents it by its target window `[lo, hi]`:
  - `beta < lo` means the row is too diffuse, and the code raises `beta`;
  - `beta > hi` means the row is too peaked;
  - anything else is within `tol`: either branch of the update may run, and the loop stops.
- An empty window (`hi = lo - 1`) is a target that cannot be reached, for example a perplexity above K. The search must
  then stop by `maxTries`.
- Row values are uniform, in units of `1/(24N)`.
- The loop bound `maxTries` (50 in the code) is the constant `MaxTries`.
- Writes to cells outside `0 .. N*N-1` are dropped, as a `Float64Array` drops them.

**Engine**

- Numbers are left out. The model keeps which table P was built from, and for how many points Y was drawn.

**GaussRandom**

- One step is one call of `gaussRandom` with its outcome:
  - `Cached` returns the cached `v_val` (lines 94-96);
  - `Redraw` draws a pair at the origin or outside the unit disc and recurses (98-102);
  - `Accept` caches the second value and returns the first (98-107).
  Each returned value is stored by `randnMatrix`'s loop (`Store`, lines 125-126). `InitSolution` starts the loop for
  `n = N*dim` values and `Return` stores the matrix as `Y` (lines 127-128, 307).
- JavaScript runs `initSolution` to completion, so while one engine is `busy` no other engine takes a step.
- Each engine's `rng` replays the stream `Draws` (in units of 1/4).
- An accepted pair is returned as the tokens `<<"u",u,v>>` and `<<"v",u,v>>`. These are equal exactly when the
  floating-point values `u*c` and `v*c` are.

**TpuCompatibility**

- An op node is the record of what `opValid` reads: whether its name starts with the library prefix, its op type (or
  `NoOp` when undefined or empty), and its device.
- A device is the four searches made on it: whether the lower-cased string contains `cpu:`, `gpu:`, `tpu`, and whether
  the original string contains `TPU_SYSTEM`. The last one is case-sensitive; since `TPU_SYSTEM` lower-cases to
  `tpu_system`, a device with it also has `tpu`.
- `WHITELIST` is the set of the array's entries among the op types the model uses.

**CheckOps**

- A graph is a record of the sequence `graph.nodes` in iteration order and, for every node, its `inEmbeddings` and
  `outEmbeddings`. Node objects are shared between graphs, so their `compatible` flags outlive a call.
- The refinement mapping `AbsCompatible` gives, inside a call, every node covered by the graph the verdict the call will
  set, and outside a call the flags themselves. `ImplementsAtomicCheck` checks `CheckOps` against `CheckOpsAtomic` under it.

## Runs

| Run | Result | What it shows |
|---|---|---|
| `calibrator_pass` | pass, 25k states | Described below. |
| `calibrator_invalid_neighbors` | violation | `nearest2P` accepts `<<<<1>>,<<-1>>>>`: index -1 writes into the row above, and the call returns. |
| `engine_pass` | pass | Every completed step reads P, Y and N that come from one successful `initDataDist`, whatever the order of calls (`StepSeesConsistentData`). |
| `engine_step_atomic` | violation | A throwing `costGrad` leaves `iter` advanced. |
| `engine_current_p` | violation | After a failed `initDataDist`, steps run with the new `nearest` and the old P. |
| `engine_exaggeration` | violation | Exaggeration runs for `ExagIters - 1` completed steps. |
| `gauss_pass` | pass | With even sizes `N*dim`, the shared cache loses and repeats no draw (`CacheConservesDraws`), it is empty between `initSolution` calls (`CacheEmptyBetweenCalls`), and engines asked for the same sizes get the same Y (`Determinism`). |
| `gauss_odd_determinism` | violation | With an odd `N*dim`, one engine's cached draw leaks into the next engine's solution. |
| `checkops_pass` | pass, 130 states | Between calls, every node and embedding of the last graph carries `opValid`'s verdict whatever earlier calls left (`MarksCurrent`); the walk implements the atomic marking (`ImplementsAtomicCheck`). |

**`calibrator_pass`** runs over:

- every valid table of 2 or 3 points with K = 1 or 2;
- seven malformed tables: empty, ragged both ways, out of range, negative index, duplicate, self-neighbour;
- four windows per row: reachable by doubling, reachable only after bisection, unreachable, and exactly the start value.

It checks that:

- `SearchBracketsTarget`: every finite end of the bracket is on the correct side of the target;
- `BetaInBracket`: `beta` lies strictly inside the bracket;
- `PSupport`: for every table whose indices are points (the valid tables and the ragged, duplicate and self-neighbour
  ones), the returned P is nonzero exactly on the kNN pairs and their transposes. This is the sparsity the spec states
  for P. It depends on the copy address `i*N + j` (line 211) and on the symmetrisation writing both `P[i_j]` and
  `P[j_i]` (lines 222-223);
- `PMassOne`: for a valid table, P sums to 1 (24N units);
- `ThrowsAsPredicted`: the call throws exactly when `Nearest2PThrows` holds;
- `ImplementsNearest2P`: the loops implement `Nearest2PAtomic` under the mapping that shows `pc` as `"start"` until the
  call ends and shows P only once it is returned. The copy of a row writes at `i*N + index`, so an out-of-range or
  negative index lands in another row; the atomic spec states that as "the last row to write a cell wins";
- `Terminates`: the call ends.

### Bounds

- `MaxTries = 5` lets the windows need both doubling and several bisection steps, and lets an unreachable window exhaust
  the tries.
- `N <= 3` with `K <= 2` covers:
  - rows of different lengths;
  - the off-diagonal pairs that the symmetrisation averages;
  - neighbour indices that fall into another row.
- `MaxIter = 3` with `ExagIters = 2` puts the end of the exaggeration phase inside the bound.
- Sizes `{4, 6}` (even) and `{3, 9}` (odd), with two engines and two calls each, are enough for the cache to pass from one
  engine to the other.

- `checkops_pass` uses four nodes, one per outcome of `opValid` (TPU op not whitelisted, whitelisted, on a CPU device,
  without a device), and two graphs that share nodes: a node of one is an embedding of the other, and one node is the
  embedding of two. `MaxCalls = 4` lets the caller check one graph, then the other, then the first again, and pass a null
  provider in between.

### Fairness

- `Calibrator.Spec` assumes weak fairness of `Next`. `nearest2P` is one synchronous call, and nothing else runs until it
  returns.
- The engine and RNG specifications have no liveness property and no fairness, because the caller may stop calling at
  any time.
- `CheckOps.Spec` has no fairness. Its properties are safety properties and a refinement of a specification without
  fairness. Over finite arrays the `_.each` loops of a call cannot fail to end.
- `Idle`, `NoEngine` and `Finished` mark the ends where the system really stops.

### Mutants

Each property of a passing run is killed by a plausible bug in the code, defined just before the definition it replaces:

| Mutant | Bug | Property it breaks |
|---|---|---|
| `TrialOneTooMany` | `>` for `>=` in the stop test | `TypeOK` |
| `TrialReversed` | branches swapped | `SearchBracketsTarget` |
| `LowerBetaAlwaysHalve` | bisection branch missing | `BetaInBracket` |
| `SymmetrizeUpperOnly` | `P[j_i] = value` (line 223) missing | `PSupport` |
| `SymmetrizeByN` | `N2 = N` instead of `N * 2` (line 216) | `PMassOne` |
| `CopyStrideK` | copy address `i*K + index` instead of `i*N + index` | `ImplementsNearest2P` |
| `CopyOverRow` | copy loop over the row's own length | `ThrowsAsPredicted` |
| `TrialNoCount` | `numTries++` missing | `Terminates` |
| `ConstructAnyDim` | the throw missing | Engine `TypeOK` |
| `InitDataDistEarlyN` | `this.N` set before `nearest2P` | `StepSeesConsistentData` |
| `CachedInverted` | the cache test inverted | GaussRandom `TypeOK` |
| `CachedKeepFlag` | `return_v = false` missing | `CacheConservesDraws` |
| `InitSolutionShort` | `randnMatrix`'s loop one short | `CacheEmptyBetweenCalls`, `Determinism` |
| `InDoneSkipOut` | the `outEmbeddings` loop left out | `MarksCurrent` |
| `MarkInOuter` | the inner callback judges the outer `node` | `ImplementsAtomicCheck` |

## Proofs (TLAPS)

`CalibratorProofs` proves five theorems for every value of the constants, under the named assumptions of `Calibrator`:

- `MaxTries` and `Scale` are positive, and `Scale = 2^MaxTries`;
- `HalvingsAssumption` restates `Scale = 2^MaxTries` as a table: `Halvings[t] = Scale \div 2^t` is a positive
  integer and twice `Halvings[t+1]`. The SMT backend has no facts about `^`, so the proofs use the table. TLC evaluates
  the assumption on every run of the module;
- tables are sequences of integer sequences;
- windows satisfy `lo <= hi + 1`;
- `NegInf` and `PosInf` are not integers.

**`TypeCorrect`** states `Spec => []TypeOK`.

- `TypeOK` alone is not inductive.
- The inductive invariant `IInv == TypeOK /\ Control` adds three facts:
  - the row index `i` is a valid row while searching or copying;
  - N > 0 once `Start` has succeeded;
  - `numTries < MaxTries` while searching.
- These facts are what make the flat index `i*N + j` and the cells `c \div N`, `c % N` land in `0 .. N*N-1`, and what make
  `P` stay a function on the cells.
- There is one lemma per action (`StartIInv`, `TrialIInv`, `CopyIInv`, `SymmetrizeIInv`), and `CellIndex` and `RowCol` for
  the index arithmetic.

**`BracketCorrect`** states `Spec => []SearchBracketsTarget`.

- It is proved with `IInv /\ SearchBracketsTarget` as the invariant.
- The step lemma `TrialBrackets` splits on the two branches of the update:
  - a too-diffuse `beta` becomes the new `betaMin`, which is below `lo`;
  - a too-peaked `beta` becomes `betaMax`, which is above `hi`.

`EngineProofs` proves, under `Engine`'s assumptions on the bounds and tables:

- **`TypeCorrect`**: `Spec => []TypeOK`;
- **`ConsistentSteps`**: `Spec => StepSeesConsistentData`, an action property.
- Both rest on `IInv == TypeOK /\ Counters /\ DataConsistent`. `DataConsistent` says that once `N` is set, P was built
  from a table of `N` rows and Y has `N` rows. It is needed because a failed `initDataDist` changes `nearest` and leaves
  the rest; the lemma `StepConsistent` then reads the property off every step.

`CheckOpsProofs` proves, for every set of nodes, graphs and call bound:

- **`MarksCurrentHolds`**: `Spec => []MarksCurrent`;
- **`Refinement`**: `Spec => ImplementsAtomicCheck`.
- The inductive invariant is `TypeOK /\ Control /\ LoopInv /\ MarksCurrent`:
  - `Control` bounds the walk position while inside a call;
  - `LoopInv` says every node the walk has finished, and the embeddings of the current node already walked, carry
    `opValid`'s verdict.
- The lemma `Completion` shows that when the walk ends, every covered node is done. `MarksCurrent` alone is not inductive,
  because inside a call it says nothing.
- `StepRefines` maps `Call` to an abstract `Call`, and every other step to a stutter. A marking step stutters because the
  mapping already gives the node its final verdict (`MarkedCovered`, `MarkStutters`); `Return` stutters by `Completion`.

`CalibratorProofs` also proves:

- **`SupportCorrect`**: `Spec => []PSupport`.
  - `PSupport` speaks only of the returned matrix. While the rows are copied, `SuppInv` says that P is nonzero exactly on
    the pairs `(a, b)` with `a < i` that row `a` names (`Support(i)`). It also says that every nonzero value is at least
    2N (`CopyValues`). The second fact is what lets the division by 2N keep a value nonzero.
  - `CopySupport` shows that copying row `i` extends the support by exactly the pairs of row `i`. It rests on
    `FlatUnique` (distinct pairs have distinct addresses when the indices are points) and `SlotLarge`
    (`24N / L >= 2N` for rows of at most 4 slots).
  - `SymSupport` shows that the symmetrisation turns the support of the copied rows into the pairs in either direction
    (`HalfSum`). The diagonal keeps its value.
- **`ThrowsCorrect`**: `Spec => []ThrowsAsPredicted`.
  - The invariant `ThrowCtl` says that the rows before `i` are sorted by length, that `pRowLen` is the longest of them
    (or of them and row `i`), and that `"error"` is reached only for a table `Nearest2PThrows` names.
  - `SortedNoThrow` closes the other direction: a table whose rows are all sorted does not throw.

`CalibratorRefinement` proves **`Refinement`**: `Spec => ImplementsNearest2P`.

- The invariant `CopyInv` says that while searching or copying row `i`, P equals `Copied(nearest, i)`, the abstract copy
  of rows `0..i-1`. It also carries `LastExists`, which says every cell some earlier row writes has a last writer.
  `CopyInv` is needed because the mapping hides P until the return, so the return step must know what P holds.
- `CopiedStep` shows that one `Copy` turns `Copied(T, i)` into `Copied(T, i+1)`: a cell row `i` writes now has
  `i` as its last writer, and any other cell keeps its value.
- `StepRefines` maps the step that ends the call to the abstract `Call`, and every other step to a stutter:
  - `Symmetrize` returns the symmetrised copy;
  - the throwing `Start` or `Copy` raises the error, which `ThrowCtl` shows is exactly the case `Nearest2PThrows` names.

- **`StrictBracket`**: `Spec => []BetaInBracket`, the strict form: every finite end of the bracket differs from `beta`.
  - `WeakBracket` alone is not enough. A midpoint `(betaMin + betaMax) \div 2` of two neighbouring integers equals
    `betaMin`.
  - The invariant `Grain` says that after `t` tries, `beta` and the finite ends are multiples of `Halvings[t]`. Each
    try halves the grain and at most halves the distance of the ends. So two distinct ends are at least two grains
    apart, and the midpoint falls strictly between them (lemmas `Midpoint`, `FactorOrder`, `TrialGrain`).

`GaussRandomProofs` proves, for every set of engines, draw stream, sizes and call bound:

- **`TypeCorrect`**: `Spec => []TypeOK`. The invariant adds `CacheTyped`: while `return_v` is set, `v_val` is a drawn
  token. Without it `Cached` could hand out the initial `0.0`.
- **`Conserves`**: `Spec => []CacheConservesDraws`. It is inductive together with `TypeOK /\ CacheTyped`.
  - `Cached` moves the cached value from the cache to the history.
  - `Accept` extends the history and the cache by the tokens of one pair. The lemma `TokensAppend` shows that the tokens
    of the pairs grow by exactly those two.
- **`CacheEmpty`**: under the hypothesis `EvenSizes` (every `N*dim` is even), `Spec => []CacheEmptyBetweenCalls`.
  - The invariant adds `Parity`: the values handed out, plus those `randnMatrix` still owes, are even in number.
  - Between calls the history is therefore even. By `CacheConservesDraws` and `TokensSeq`, the history plus the cache
    is twice the number of pairs, so the cache is empty.
  - The hypothesis is what the code needs: `MCGaussRandomOdd` shows the cache carrying a draw across calls when `N*dim`
    is odd.

What stays with TLC:

- `Terminates`: this is liveness under fairness, which is beyond TLAPS.
- `PMassOne`: a sum over the cells needs induction over the fold.
- `Determinism`. Its inductive form says that `Y[e]` is a function of `asked[e]`: the solutions `randnMatrix` computes
  from the head of the stream, call after call. Stating that function needs a recursion over the calls and the draws,
  and proving it needs induction over that data, which the installed provers cannot do.

## Not modelled (yet)

- **The numbers of the gradient step:** gains with the 0.01 floor, momentum 0.5/0.8, and recentring.
- **The Barnes-Hut evaluator.** This covers `annotateTree`, the cell radii, and Z including the
  self-interaction of a leaf.
- **The distance and force kernels.**
- **`SPTree`.** It lives in `./sptree.js`, outside `src/`, and will be modelled from spec §4.4.

- **The case-sensitive `TPU_SYSTEM` search** (op.ts line 566) is modelled as the code does it; no property is about the
  device strings themselves.

These are the next components to model:

1. a gradient-evaluator module over small integer coordinates, checking `annotateTree` against a reference count and
   θ = 0 against the exact Z;
2. an optimizer-update module;
3. a refinement of `Engine` against an abstract atomic step.
