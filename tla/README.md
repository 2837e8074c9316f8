# Specifications of phase_engine

TLA+ models of the engine in this repository, with the TLC runs that check them
and the TLAPS proofs about them. phase_engine is a fork of the egglog
equality-saturation engine (Rust crates `concurrency`, `union-find`,
`core-relations`, `egglog-bridge`, `egglog`) with a path-sum simulator and
synthesiser of quantum circuits on top (`src/engine`, `src/pathsum.rs`). Paths
below are relative to the repository.

The specifications follow the stack from below: the lock, the union-find and the
lists its threads share; the table; the database that merges tables; and the
e-graph that runs rules over them. Beside it stand the quantum layer's two
halves: the path sums an e-graph interns, with the reduction that makes them
canonical, and the synthesizers that turn them back into circuits. On top of the
e-graph are the schedulers that hold its matches back. What the
other layers do is in the inventory and the plan.

## The system

| Part | State it keeps | Operations | Talks to | Hard behaviour | What makes it correct | Module |
|---|---|---|---|---|---|---|
| Read-optimized lock `concurrency/src/lib.rs` | the current token (`ReadOk` or `WriteOngoing`), its reference counts, its notification | `read`, `lock`, drop of either guard | ArcSwap; used by the union-find, `ConcurrentVec`, `ParallelVecWriter` | token addresses recycled under a compare-and-swap; a reader between its load and the writer's swap; lost wake-ups | exclusion, nobody sleeps for ever | `ReadOptimizedLock`, `RWGate` |
| Concurrent union-find `union-find/src/concurrent` | array of atomic parents, its length, the lock | `find`, `same_set`, `union`, `reset`, `deep_copy`, growth | the lock; the union-find's table | path splitting racing links; roots found at different times; retries | a forest, linearizable answers, calls return | `ConcurrentUnionFind` |
| Concurrent vector `concurrency/src/concurrent_vec.rs` | cells, published head, write mutex, lock | `push`, `resize_with`, `push_at`, `read` | the lock; notification list, intern tables | writes under a read guard; uninitialized cells; a head older than the vector | an append-only log | `ConcurrentVec`, `AppendOnlyLog` |
| Notification list `concurrency/src/notification_list.rs` | a flag per item, the list of notified items | `notify`, `reset` | `Database` (tables with pending rows) | flag and list updated apart | no notification lost | `NotificationList` |
| Sorted-writes table `core-relations/src/table` | rows, stale count, sharded hash table, timestamp offsets, generation, pending rows and removals | buffers: stage insert/remove, drop; `merge`, `clear`, rehash, `fast_subset`, lookups, rebuild | merge functions, indexes, queries | parallel merge per shard, compaction, row ids kept by indexes | a map under the merge function; deltas exact | `SortedWritesTable`, `KeyedTable` |
| Database `core-relations/src/free_join/mod.rs` | tables, dependency graph, notification list, cached indexes, counters | `add_table`, `new_buffer`, `merge_all`, `merge_table`, `run_on_tables`, `clear_table`, clone | tables, execution states, notification list | merges that stage rows for tables merged before or at the same time | all updates merged, growth reported, indexes fresh | `Database` |
| E-graph `egglog-bridge` | function tables, union-find table, timestamp and id counters, `last_run_at` of rules, panic message | `add_term`, `add_values`, `run_rules`, `flush_updates`, rebuild; rule actions | database, execution states, union-find table | seminaive deltas across merges and rebuilds, ids predicted by clones, panics and early stops | sound, congruence closed, no match forgotten, terminating rebuild | `EGraph` |
| Action execution `core-relations/src/action` | bindings of a batch, mask, predicted values, buffers | one instruction over a batch | database, e-graph | a mask narrowing under instructions that fail | the same as one match at a time | part of `EGraph` |
| Queries `core-relations/src/{query.rs,free_join,hash_index,offsets}` | plans, frames, column and tuple indexes | plan, join, refresh an index | tables, actions | covers and reordering, indexes built in parallel | the reference join | planned |
| Containers `core-relations/src/containers` | container value to id maps, to-rebuild sets | register, rebuild | union-find, e-graph rebuild | id of a container changes while others hold it | congruence of containers | planned |
| Base values, buffers, pools | interned values, rows, free lists | intern, get, push, recycle | all | two interns of one value | one id per value | intern table planned |
| Other `concurrency` types | write cursor and vector; cell and generation | write slices, get-or-update, reset | tables, database | writes through a shared reference | no overlap, one initialisation | planned |
| Path sums `src/engine` | rows, discrete phase mod 8, ticks mod 2^32 per parity, number of path variables, overflow mark | gates; `canonicalize_gauge`, `reduce` | path-sum register and sort, which compare by equality | substitutions that interact; representatives that must not depend on labels; capacity of the packed monomial | the linear operator is kept, canonical forms are fixed points, equal operators intern equal | `PhasePoly`, `Gauge`, `PathSum` against `DenseSim` |
| Synthesis `src/engine/{gray,pmh,steiner}.rs`, `src/pathsum.rs` | phases left to place, wires' parities, frames or trees, circuit so far | guards, lift, Gray placement, Steiner trees, elimination and fallback, routing, cost test | path-sum primitives | duals of CNOTs kept in every frame, hash order of trees, routes on a topology | the circuit realises the path sum and runs on the topology; admitted calls are answered | `CnotSynthesis`, `Synthesis` |
| Front end `src` (parser, desugaring, type checking, core, sorts) | environment of names and types | tree to tree | interpreter | overload backtracking | constraints satisfied | type checking planned |
| Schedulers `src/scheduler.rs` | per rule a vector of matches, a table of decided ones, whether to seek | add, remove, a step: query, filter, act | e-graph, whose `push` and `pop` clone it | matches held across steps; a vector shared by a query and its record; errors half way | no match lost or applied twice, stops only when nothing is left | `Scheduler` |
| Interpreter `src/lib.rs` | stack of e-graphs, rulesets | run, saturate, repeat, push, pop, fail, extract | e-graph | state after a command that errs | saturation is a fixpoint; pop restores | push and pop in `Scheduler`; rest planned |
| Extraction `src/extract.rs`, `src/termdag.rs` | costs, parents, terms | cost fixpoint, reconstruct | tables | cycles, cost ties | least cost, acyclic terms | planned |
| Proofs `src/proofs` | proof store | encode, extract, check, simplify | interpreter | substitution and normal forms | simplification keeps the conclusion | checker planned |
| Serialization, reports, CLI, bindings, demos | none | format, print, forward | interpreter | — | — | not modelled |

How they work together in one `run_rules`: the e-graph builds each rule's
seminaive variants and searches them on many threads; every thread has a clone of
an `ExecutionState`, whose buffers mark their tables in the notification list and
hand their rows to the tables' queues when dropped. `merge_all` resets the list,
takes the marked tables out of the database stratum by stratum and merges them;
merge functions stage unions and rows in turn. The union-find is a table. When
unions displaced ids the e-graph rebuilds: every table removes its rows with
displaced ids and stages their canonical forms, and that is merged, until a pass
changes nothing.

## The modules

`MC<module>` instantiates `<module>` for TLC, `<module>_proofs` proves about it;
the proofs about the lock are in `ConcurrentVec_proofs`, with those about the vector
that is built on it.
Each module models operations at the granularity of the steps that other actors
can see; an atomic load, a compare-and-swap and an operation of a lock are a step
each. Atomics are sequentially consistent in all models; the code's weaker
orderings are not modelled.

- **RWGate** is what the lock promises: readers enter and leave, a writer closes
  the gate, is admitted when the readers have left, and opens it. The modules
  built on the lock instantiate it rather than the lock.
- **ReadOptimizedLock** is the lock at the level of ArcSwap operations. `token` is
  the swap cell, `kind`, `notified` and `held` the token objects and the guards
  on them, whose addresses are reused once nothing refers to them; `lockPc` names
  the places in `read()`, `lock()` and the drops. Its names begin with `Lock` where
  the vector has the same, and **Threads** declares what both share, so that one
  module of proofs extends both.
- **ConcurrentUnionFind**: `parent` and `len` are the buffer, `cur`, `next`,
  `grand`, `l`, `r` the local variables of `find_impl`, `same_set` and `merge`.
  The history variable `rep` holds the canonical element of each class; it moves
  only when a link's compare-and-swap succeeds.
- **ConcurrentVec**: `cell` holds values or `Uninit`, `head` what is published.
  `calls` is the set of methods the owner of a vector calls: the repository's
  vectors are pushed to or resized, never both. It implements **AppendOnlyLog**.
- **NotificationList** stands on that log. `owed` is a history of the items
  notified since a reset reported them.
- **SortedWritesTable**: `data`, `stale`, `hash`, `offsets`, `gen` are the
  table, `buffered`, `pendRows`, `pendRems` what is staged; `phase` walks
  through `merge`. A parallel merge has one step per staged row, flush and
  shard. It implements **KeyedTable**, the map a user of the table sees.
- **Database**: tables, buffers and rows with the place each row has reached
  (`buffered`, `pending`, `gone`); `phase`, `queue`, `stratum` and `state` are
  the progress of `merge_all` by `merge_simple` or by strata. What a row says is
  left out: applying it adds a tuple, removes one, or nothing, and may stage more.
- **EGraph**: functions as maps from keys to rows with timestamp and subsumption
  flag, `leader` as the union-find with paths compressed, `ins`, `dels`, `uns`
  what is staged, `todo` and `cur` the matches and the one being applied, with
  `cur.at` the action it has come to. Rules are data: atoms, actions, constants
  and the types of names. Matches are applied one at a time, each by any of the
  `Worker`s, which stand for clones of the `ExecutionState` and predict ids
  separately; a merge takes what is staged in any order, which module Database
  justifies. `meaning`, `den` are history: an interpretation of the constructors
  in which the rules and the callers' rows are true, and what the ids stand for
  in it. Composition with the table is by this abstraction: one row per key and a
  timestamp for the time of its last change, as `KeyedTable` and
  `FastSubsetExact` establish.

- **PhasePoly** is the value of a path sum with its gates: variables are numbers,
  monomials and parities sets of them, a Boolean polynomial a set of monomials.
  `Promote`, `SubstituteParities`, `Expand` and their like are the operations of
  `CanonicalPhasePoly` and `ContinuousPoly`. **StrictFunctions** forces TLC to
  evaluate a function once.
- **Gauge** is `canonicalize_gauge`: row echelon, parity pivots, the choice
  between a variable and its negation, relabelling by signature.
- **DenseSim** is `reference.rs` in exact arithmetic: a matrix has entries in the
  integers extended by a root of unity, and is compared up to a global phase.
- **PathSum** is a register: `ps` the path sum, `pc` the pass of `reduce` to run,
  `dead` and `cursor` the eliminations of the round, `mat` the operator the
  applied gates denote (history). A trial applies two circuits with one meaning
  to the same path sum and compares the results, as the e-graph does.
- **CnotSynthesis** holds the pure algorithms on linear maps over GF(2): the
  sectioned elimination of Patel, Markov and Hayes, Gauss-Jordan, the solver of
  the Gray residual, Floyd-Warshall routes and CNOTs along them.
- **Synthesis** is one call of a synthesizer: `coeff` and `terms` the monomials
  to lift and the parities to place, `wires` the sums on the wires, `stack` and
  `frame` GraySynth's recursion, `tree` the Steiner tree being folded, `pass` the
  elimination, `out` the instructions.
- **Scheduler** is an e-graph with a custom scheduler: `eg` and the `saved` ones
  pushed, as records of facts, rules and what the scheduler knows of each rule;
  `cell` the vectors of matches, which e-graphs reach through the pointers `info`
  (in the scheduler's record) and `sink` (in the query's external function); `pc`
  the part of the step to come. `seen`, `fired` and `applied` are history. A match
  is named by its fact; two matches with the same head variables are one row of
  the table of decided matches.

What is translated from what is listed definition by definition in `PROJECT.json`.

### Abstractions worth knowing

- `EGraph` has keys of one argument, ids and one kind of base values; containers,
  primitives, user-written merge functions, `clear_table` and
  `with_execution_state` are left out. The rule-based rebuild that the code keeps for union-finds without a native one is left out: this repository's always rebuilds natively.
- A rule's set of matches is what its atoms define; how the join finds them is the
  query engine's part and is not modelled yet. The seminaive split into variants
  and their timestamp windows is modelled.
- In `Database` a table has one index. `KeepBuffers`, `MergeTables` and `Clones`
  switch on uses that callers may make and the e-graph does not.
- In `SortedWritesTable` the threads of a parallel merge touch disjoint keys, so a
  shard's step on its own hash table is atomic; what they interleave is the order
  in which they append. Rebuild by the table and tables without a sort column
  are left out; `EGraph` models the rebuild's effect.
- In `PathSum` an angle is a number of ticks and `Turn` ticks are a full turn
  (2^32 in the code, 16 in the runs, so that odd ticks are no multiple of pi/4);
  the rounding of float angles to ticks is left out. `Bits` is the width of a packed
  monomial. Hashes are replaced by what they hash, so collisions are left out. The
  tokens that keep two overflowed path sums apart are left out, and the register
  keeps an overflowed path sum as it is.
- In `Synthesis` the floats of the lift are ticks that can be halved as often as
  the monomials of the instance are wide. The order of a hash set of tree edges,
  and of parities, is any order.
- In `Scheduler` an e-graph is its facts, and rules match single facts; what joins
  and unions do to matches is `EGraph`'s part. A scheduler chooses any matches, at
  least one if there are some, and asks for more when it has chosen all (the
  repository's `FirstNScheduler` does). A ruleset that an error dropped is not
  declared again.

## Runs

Bounds are constants of the modules (each marked "bound" where it is declared).

| Run | Instance | Checks |
|---|---|---|
| `Lock` | 2 threads, 4 token addresses | `NoLostWakeup`; the lock implements the gate, with liveness (`GateSafety`, `GateLive`) |
| `UnionFind` | 2 threads, 3 elements, capacity 2 | `Forest`, `Answers`, `MergesWhatWasAsked`, `CallsReturn` |
| `Vec` | 2 threads, length up to 5, callers that push or resize | `PublishedValid`, `WritesUnseen`, implements the log (`IsLog`), `CallsReturn` |
| `Notify` | 3 threads, 2 items | `OwedIsUnderWay`, `ResetMissesNone`, `AllReported` |
| `Table` | 2 keys in 2 shards, 2 values, 2 buffers, 2 timestamps, 4 mutations | `HashIsLive`, `FastSubsetExact`, `RowsStable`, `ChangesReported`, implements the map (`KeepsPromise`) |
| `TableParallelMerge` | 1 key, values combined by bitwise or | `MergeOutputUsed` fails |
| `Database` | 3 tables in 2 strata, 3 rows, 2 execution states, 1 buffer | `NothingForgotten`, `MergesAll`, `ReportsGrowth`, `IndexesFresh`, `MergeReturns` |
| `DatabaseStrata` | 4 tables, the code's threshold 4, all options on | `DepsPresent` |
| `EGraph` | 4 functions, 8 rules in 5 schedules, 2 clones, 4 ids, 4 operations' worth of time | `Sound`, `Closed`, `HeadsHold`, `OperationsReturn` |
| `PathSum` | all circuits of 1 qubit to 5 gates and of 2 qubits to 4 gates, and trials of longer ones; 9-bit monomials, 16 ticks a turn | `Represents`, `Reduced`, `InternEqual`, `ReduceEnds` |
| `Synthesis` | every synthesizer on three wires, GraySynth and the elimination on four too | `Realises`, `Accounted`, `AlwaysAnswers`, `OnTopology` |
| `Scheduler` | 2 rules over 3 facts, one fact added by a rule, 5 calls besides steps | `Conserved`, `StopsSaturated`, `AllApplied` |

The configurations `VecMixedCalls`, `EGraphFailedRun`, `EGraphSubsume`,
`PathSumTies`, `SteinerTree`, `SchedulerPop` and `SchedulerStop` are no runs of the
project's list: each reproduces in some seconds a divergence described below, by the failure of the property it names.

Why the bounds are enough for the cases the properties are about:

- Four tokens let an address be reused while another thread still compares
  against it. With two threads there is a reader and a writer, two readers or two
  writers at every pair of places.
- Three elements and capacity two make chains of three cells, so that a path is
  split while its head is linked, and growth happens under concurrent calls.
- Length five passes through three growths (1, 2, 4, 8) and leaves uninitialized
  cells behind; the two caller sets are those of the repository.
- Three threads are a notifier between flag and list, one that found the flag up,
  and a reset lowering flags.
- Four mutations fill a key twice, remove it and fill it again across two
  timestamps; `StaleFloor` is 0 (16 in the code) so that compactions happen.
- Three rows let a merge write to a table merged before it and that one write
  back; `SimpleBelow` is 2 in `Database` so both ways of merging occur, and the
  code's 4 in `DatabaseStrata`, whose fourth table is a second one in a stratum.
  Symmetry of rows is used only there, with invariants.
- Four ids are two terms and two ids minted for one of them by different clones,
  or a union of unions; four operations are enough to write, run, displace, run
  again and look at what is left. The rules have every action, constants, a match
  of two atoms (so old and new rows meet), a non-seminaive rule, a removal, a
  conflict of a `:no-merge` function and a panic. Callers write single rows
  (`MaxBatch` 1).

- The register has all gates on one qubit and, on two, those that differ in what
  they do to the phase, to rows and to variables; five and four of them pass
  through promotions, eliminations of both kinds, gauges and the capacity of nine
  bits, which twelve more gates (`Crowded`) overflow in a trial. Sixteen ticks a
  turn have phases that are continuous, quarter turns that are promoted, and
  angles that are their own negation. Trials have bodies of three parities tied by
  a CNOT behind two Hadamards on each qubit: more path variables than two bare
  gates give, and in every order of allocation.
- GraySynth gets every set of parities of three wires (with and without a linear
  map that permutes them), every invertible map of three wires, and many sets on
  four wires, where frames go three deep and a CNOT must reach frames below the
  top. The elimination gets all matrices of three wires, singular ones too, with
  section sizes from one to all columns, and the row permutations of the unit
  triangular matrices of four wires (24 times 64). Steiner trees are on the
  complete graph and on a line, where routing swaps.
- Three facts fill a vector so that a choice swaps in its middle, at its end and
  not at all; `f1` and `f2` agree on one rule's head, so decided rows coincide; a
  rule adds what the other has yet to match. Five calls are two rules, a scheduler
  and two facts, or fewer of these with a removal, a push or a pop.

`CHECK_DEADLOCK FALSE` is in the e-graph's, the register's and the schedulers'
configurations: operations are bounded by `MaxTime`, `Depth` and `Budget`, and an engine nobody calls stops.
In `Synthesis` a call stutters once it has returned (`Stop`), so that a call that
cannot go on anywhere else is a deadlock: every call ends, since its steps only
lengthen the circuit and its state space is finite and without cycles.

### Fairness

No caller ever has to call. Once called, steps of running code are weakly fair:
a thread that can take its next step is eventually scheduled. The lock and the
union-find need no more (a `WF` per thread, and one for the gate's admission of
its writer). `Vec` has strong fairness of a thread's step, because the mutex and
the gate, which it waits for, are taken by others again and again and their
implementations (a mutex that is not starved, the lock's wake-ups) do not pass
over a waiter for ever. `AllReported` in `Notify` supposes that resets keep being
called, strongly fair because a thread's reset can be called only while the thread
is idle: `merge_all` is called after each run. The database's and the e-graph's
merges are one loop, so one weakly fair step. That merges end is not assumed: in
`Database` it follows from the finitely many rows, in `EGraph` from the ids. The
passes of `reduce` are one sequential function, so weakly fair once called
(`Running`); that they end is what `ReduceEnds` says. `AllApplied` of `Scheduler` is
about a caller that keeps stepping, as the loop around `step_rules_with_scheduler`
in its test does; the scheduler's choices are not fair, only never empty.
`Synthesis` states no fairness.

## Proofs

TLAPS proves these for every value of the constants that satisfies the named
assumptions. The inductive invariants are conjunctions of named parts.

| Theorem | Says | By |
|---|---|---|
| `ConcurrentVec_proofs`: `LockTypeCorrect`, `LockSafety`, `LockWakeups`, `LockIsGate` | types and guard discipline; exclusion; no lost wake-up; the lock implements the gate | `LockIInv`: at most one closer, guards held are on live `ReadOk` tokens, and on the current token or the one being drained |
| `ConcurrentUnionFind_proofs`: `TypeCorrect`, `ForestCorrect`, `AnswersCorrect`, `MergesCorrect` | parents decrease to roots and represent `rep`; answers agree with `rep` at the call or later; `rep` changes only by unions asked for | `IInv`: each local variable is in the class it stands for, below where it was read; `Coarser` compares two states of `rep` |
| `ConcurrentVec_proofs`: `TypeCorrect`, `SlicesInBounds`, `NoRacyWrite`, `PublishedIsValid`, `Refinement` | slices in bounds; no write to a cell a reader may see; if no owner both pushes and resizes (`Unmixed`), what is published is initialized and the vector is the log | `Bounds`, then `PushesOnly` and `ResizesOnly` on the contents beyond `head` |
| `NotificationList_proofs`: `TypeCorrect`, `FlagsAreUnderWay`, `NothingIsLost`, `ResetsMissNone` | a raised flag has its item on one way to a report, every item owed is under way, a reset misses none that was listed | `Places`: an item whose flag is up is at one place: in a notifier's hand, on the list, or in a reset's |
| `SortedWritesTable_proofs`: `TypeCorrect`, `HashCorrect`, `SubsetsAreExact`, `RowIdsAreStable`, `ChangesAreReported` | types; the hash table holds the live rows, as many as the length says; row ranges stand for timestamp constraints exactly; row ids are stable within a generation; merges report what they changed | `IInv`: `Hashed` (the count put as the number of stale rows), `InOrder` and `Offsets` (rows in order of timestamps, those before `Covered` with their offsets), for which rows under way must carry the current timestamp (`RowsUnderWay`), and `StagedOnce` (a parallel insert stages one live row per key) |
| `Database_proofs`: `TypeCorrect`, `DepsArePresent`, `GrowthReported`, `IndexesAreFresh`, `NothingIsForgotten`, `AllIsMerged` | merge functions find their dependencies; growth reported; indexes fresh if `~MergeTables`; no staged row forgotten and all merged under `NoLeaks` (no buffer kept across merges, no merging clone) | `Course` (rounds, strata and levels of `merge_all`), `Accounted`, `Tracked` (where a waiting row is, whose buffer it is in) |
| `SortedWritesTable_proofs`: `TableKeepsItsPromise` | the table implements `KeyedTable`: lookups, removals and merges are those of a map; if `MergesInParallel` | a simulation on `IInv` and `AllSeen`, below |
| `EGraph_proofs`: `TypeCorrect` | leaders are least ids; ids in tables, staged, predicted or bound were handed out; a match binds what its next action uses, with values of their types | `TypeOK` is inductive, one lemma per action |
| `EGraph_proofs`: `SaturationIsSound` | in every interpretation in which the rules and the callers' rows are true, ids equated stand for the same and rows kept are true, at every moment | `Truth`: what is staged, predicted and bound is true as well. A match witnesses its atoms and the lookups before its place, so `RuleIsTrue` gives the truth of what it sets or unites; two true rows of a key have equal values, so the unions of merges are true |
| `EGraph_proofs`: `ClosedBetweenOperations` | between operations that completed, every fact inserted is in its table under its canonical key or was removed, and no row holds a displaced id | `Closing`, below |
| `EGraph_proofs`: `HeadsOfRulesHold` | between operations, a rule's head holds for each match whose rows are older than its last run; if `SubsumesSafe` | `Answering`, below |
| `Scheduler_proofs`: `TypeCorrect`, `NoMatchIsLost`, `CanStopIsSaturated` | types; every match is held back once or was chosen, and a step that reports `can_stop` leaves none; if callers push only before a scheduler is used (`~PushBuilt`) and the scheduler answers with that in mind (`~CanStop`) | `Holding`: rules have vectors of their own, free ones are empty, what a pop brings back has met no scheduler; `ResidualIs`: taking any choice out of a vector leaves the others; `Sought` and `AllChosen` follow a step from its queries to its answer |
| `Synthesis_proofs`: `SynthesisTypes`, `SteinerOnTopology` | matrices, phases, frames, trees and circuits are over the wires of the call; every CNOT of a Steiner circuit joins neighbours of its topology, whatever that is | `TypeInv`, one part per variable (`PassFits`, `FramesFit`, `TreeFits`, `TopoFits`, ...), below |
| `Synthesis_proofs`: `PhasesAccounted` | GraySynth places every phase once, on a wire that carries its parity: at every point the RZs so far and the duals left are the phases of the call | `Books`, below |
| `Synthesis_proofs`: `AdmittedAnswered` | if the lift expands the monomials of the calls (`Liftable`), no admitted call is refused, and the elimination fails only on maps that are not invertible | `Answered`: `Based`, `Splits`, `Narrow`, `Refusals`, `Passes`, below |
| `Synthesis_proofs`: `LinearMapBuilt`, `MatricesRealised`, `PhasesReturned` | a Gray or linear circuit has the map of the call on its wires, if that is invertible; the CNOTs for an invertible matrix multiply to it; a Gray circuit turns the phases of the call and no other | `Mapped` and `PhasesKept` on `Books` and `Answered`, below |
| `Synthesis_proofs`: `RoutedMapBuilt`, `RoutedPhasesKept` | a Steiner circuit has the map of the call on its wires, if that is invertible and all wires are linked; no step of a Steiner call loses a phase, turns one twice or turns another parity by its angle, if the routes within the parities left do not leave them | `Rooted`, below |

`RulesAssumption` is what `SaturationIsSound` rests on: rules are well-formed, as
the type checks of `RuleBuilder` have it, and each is true in every interpretation
in `Meanings`. Nothing is assumed of the order of matches and merges, of which
tables rebuild incrementally, or of which clone predicts which id, and panics,
early stops and failed runs are steps like others. The callers' rows are true by
the guard of `AddValues`.

The e-graph's other two theorems are about order. What a rebuild and a later run
still have to find is never written down in the code: a row may be in a table under
an id displaced, be staged, be about to be replaced by its canonical form, or owe its
value to a union that is merged later. The invariants therefore speak of *equality to
come* (`Equal`): two ids are equal when every map that respects the union-find and
the staged unions takes them for the same. No step loses an equality, and a merge
of rows that disagree stages the union that restores it. On it `Closing` builds:

- `Asserted`: every fact a caller or a rule asserted is `Kept`: a row that stands for
  it, up to `Equal`, is in its table or staged, or it was removed; every union asked
  for is an equality. `Removals` says that a staged removal takes a fact with it only
  if it was asked for: a pass removes a row when it has staged its canonical form.
- `CaughtUp`: no id in use anywhere is one that its table's incremental rebuilds no
  longer look for. `Undisturbed`: as long as the union-find has displaced nothing,
  all that is in use is canonical, so a run that unites nothing needs no rebuild.
- `PassComplete`: a pass that changed nothing has met no stale row, which is how the
  loop at `lib.rs:626` ends.

`Answering` adds that a match is dated by its newest row (`Dated`), that its tuples
stay in the tables until it is applied (`MatchesThere`), that what a clone predicted
is staged (`PredictedKept`), what the current match has done so far is `Promised`
(`CurPromised`), and that each match the rule will not look at again is waiting, being
applied, or promised (`OldAnswered`): a row that changes gets a new timestamp, so an
old match of it was a match, up to `Equal`, when the rule last ran. `SubsumesSafe` is
a hypothesis that the code does not check: a rule may subsume only a tuple its query
matched, or one that no lookup of the same run creates, as the last of its actions.
Without it the theorem is false (divergence 5: the second lookup does not see staged
rows and drops the rest of the match). The rules of the run satisfy it, by the
assumption in `MCEGraph`. `NoneAssumption` says that the mark for an absent row or match
is neither.

`~PushBuilt` and `~CanStop` are what divergences 7 and 8 need to be avoided; without
them `Conserved` and `StopsSaturated` are false. That a residue is what was not chosen is
a fact about a recursive function of any length. The library's induction theorems are
out of the prover's reach, but that a set of naturals has a least element is not
(`LeastOf`, from the well-foundedness of the naturals): it gives that the function
exists (`TakesOutExists`) and what it computes (`ResidualIs`), by the least counterexample.

`TableKeepsItsPromise` follows each step of a merge to the step of the map it is or
to none. What a user sees of a key is the removal and the inserts still queued for it
(`OfKey`, over queues of any length: what appending, taking the head and taking the
tail do to a key's inserts is again shown by the least counterexample). During a
parallel merge the user sees the table's value and, `Over` it, the one staged row of
the key (`Seen`, kept for every key by `AllSeen`), so that a flush changes nothing to
be seen, and compaction keeps every lookup. `MergesInParallel` is empty for serial
merges. A parallel one combines the incoming rows of a key before they meet the row
in the table, which needs an associative merge function, and then keeps the incoming
row where a serial one keeps what the function returns (divergence 1), which is the
same only if the function returns one of its arguments. The code checks neither;
`LargerAssumption` in `MCSortedWritesTable` says that the run's function does both.

`Synthesis_proofs` goes through the loops of the code; the invariants it is about are in
`SynthesisInvariants`. `Loop` is a function of the
index, and what each round keeps is kept by the loop: once more there is a least
index at which it would not be (`ClimbsTo`). A route is a walk along edges because
Floyd-Warshall's `next` is, in every round, an edge that leads nearer (`Routes`), and
it ends because each hop is nearer by at least one; so routing, whatever CNOTs it is
given, joins neighbours (`RouteAllJoined`), and a tree made of routes has edges of the
topology only. The frames of GraySynth stay sets of phases because a CNOT is its own
inverse on duals (`DualTyped`). `JobsAssumption` says what a path sum or a matrix handed
to the synthesizers looks like: no constant phase, a square matrix.

`Accounted` speaks of the sums that the duals of the frames stand for on the wires as
they are. `Books` adds what a step needs to keep it: the wires are those the circuit so
far makes (`Trace(out).m`), and before the first gate they are the inputs, on which
every dual stands for itself (`StartBalanced`). A CNOT changes the wires and every dual,
and what a dual's wires add up to stays the same (`DualKeepsSum`: the control is in the
new dual as often, modulo two, as the target's new row asks). It is one to one on
duals, so no two of a frame become one and lose an angle (`DualTyped`, `PairsDual`).
That every frame follows it, those waiting on the stack too, is what the lemma needs of
`Share`. `gray_place_ready` moves duals of one wire from what is owed to what is placed,
as many as it takes out (`PlacesReady`, `PlacesAll`), and `Split` parts a frame's duals
without a common one (`SplitBalanced`).

`AlwaysAnswers` needs to know why nothing fails. A frame on the stack does not run out of
wires because its duals agree on every wire already split on (`Splits`): with no wire
left they would be one dual, and a single dual is placed or shared. The linear part gets
wires that are a basis (`Based`), because a CNOT is undone by itself, so expressing the
target in them has a solution whenever the target is invertible: the rows found by the
solver's elimination are as many as the dimension (`RowsSpread`, `SolveSolves`). The
section method leaves each pass unit lower triangular for every invertible matrix and
every section size (`LowerPassLowers`): the search for a pivot below finds one, or the
matrix had dependent columns. Transposing and running it again leaves the identity
(`StitchRight`), so Gauss-Jordan is reached only for maps that have no inverse
(`Passes`). `Liftable` is a hypothesis because the code refuses a discrete monomial that
is wider than its cap, whatever else the path sum is. The cap is a natural number in
`JobsAssumption`, as it is an unsigned one in the code.

`Mapped` follows the map through the call. `Factored` says of the part before the
elimination that the matrix handed to it is, in terms of the wires as they are, the
map wanted (`SolveRight`); the CNOTs of the elimination carry the wires to that matrix
times the wires (`CircuitOfWires`), and nothing after them but X gates, which leave the
map alone. `MapBuilt` asks for `Invertible(Wanted)` because Gauss-Jordan, given any other
map, goes on without the pivot it does not find. `PhasesKept` says that once the stack is
empty every phase is placed (`Books` with nothing owed), that the CNOTs of the linear
part move none of them, and that the X layer turns nothing.

Of a Steiner call, `Rooted` says that the wires are the inputs between two trees, and
within a tree half folded (`Halfway`): a wire is folded after its children, the parities
on the wires not folded yet are disjoint and make up the tree (`Gathered`), and undoing
the folds so far gives the inputs again. When all are folded the root carries the whole tree,
which is what the RZ turns, and the folds backwards lead to the inputs
(`RotateRooted`). A routed CNOT is the CNOT it stands for, by swapping along the route and
back (`SwapsCarry`, `RemoteApplies`, `RouteAllApplies`), if the topology links the two; where it
does not, the CNOT is dropped, so `SteinerMapBuilt` asks for `Linked`. That a tree
spans its parity and nothing else is `ReachedSpans`: each step of Prim's algorithm links
one terminal more over wires of the parity (`PrimSpans`), and a search of `n` rounds comes to
whatever the edges lead to, as each round that is not the last finds a wire
(`ReachedClosed`). `AnglesKept` asks for parities that the routes between their wires do
not leave (`WithinOf`), because a route that leaves one turns another parity (divergence 6,
`SteinerTree`). The map is right even then.

The lock's conjunct that a held token is the current one or is being
drained is what makes address reuse harmless: a freed address cannot be held.
`Tracked` is needed because `NothingForgotten` alone says nothing of rows that a
merge under way is about to stage.

**Only model-checked**: all liveness properties and what rests on fairness or
ENABLED, which are beyond the prover; path sums, whose properties are about folds over
polynomials and sums of matrices, that is, induction over data; and of synthesis
`Realises` as a whole, which replays the circuit in the arithmetic of path sums, again
folds over polynomials. What it asks of matrices is `MatricesRealised`; of the
other calls the map and the phases are proved on the trace of the circuit (`MapBuilt`,
`PhasesBuilt`, `SteinerMapBuilt`, `AnglesKept`), and that the trace stands for the replay
is left to the run.
**Only proved**: that the lock excludes (`LockSafety`; the run checks the stronger
`GateSafety`), that slices stay in bounds (`SlicesInBounds`), what the trace of a circuit has
(`MapBuilt`, `PhasesBuilt`, `SteinerMapBuilt`, `AnglesKept`), and the types of `EGraph`,
`Scheduler` and `Synthesis`.

## Where the code and its documentation part

The first is a run.

1. **Parallel merges discard the merge function's output** (`TableParallelMerge`).
   `parallel_insert` (`core-relations/src/table/mod.rs:931`) keeps the incoming
   row; `serial_insert` keeps the output, as the documentation has it. Merge
   functions whose result is one of the two values are safe when it is the
   incoming one; a merged subsumption flag can be lost.

The others have a configuration that reproduces them:

2. **Equal circuits intern apart when angles tie** (`PathSumTies`). The next parity
   pivot is the parity of the least angle, content and number of fresh variables,
   and, where these tie, the one whose labels come first
   (`src/engine/reduction.rs:200`), although parities are to be visited "in a
   label-independent order" (`reduction.rs:95`). Two circuits that differ in the
   order of two H on different qubits then end in different path sums, against
   `src/engine/soundness_tests.rs:802`. The run `PathSum` keeps to angles that
   do not tie where variables do.

3. **`push` followed by `resize_with` publishes uninitialized cells**
   (`VecMixedCalls`; `concurrency/src/concurrent_vec.rs:89` and `:135`). No vector
   of the repository has both called.
4. **A run that panics merges unions and does not rebuild** (`EGraphFailedRun`;
   `egglog-bridge/src/lib.rs:598` and `:609`); later operations that displace
   nothing succeed over stale tables. `Closed`, `HeadsHold` and their like hold
   until a failed run (`unbuilt`), and again after the next rebuild.
5. **`subsume` of a tuple created by the same match does nothing**
   (`EGraphSubsume`; `egglog-bridge/src/rule.rs:501`) and ends the match.
6. **A Steiner tree folds wires that are not in the parity** (`SteinerTree`;
   `src/pathsum.rs:458`): where the route between two wires of a parity passes a
   third, that one is added to the root too, and the RZ turns another parity.
   The jobs of the run `Synthesis` keep routes within the parities.
7. **`pop` separates a scheduler from its queries** (`SchedulerPop`;
   `src/scheduler.rs:292` and `:305`). A pushed e-graph's external functions get
   copies of the vectors of matches, but its `SchedulerRuleInfo` share those of the
   e-graph it was cloned from. After a pop, matches found go to a vector nobody
   reads, and what the discarded e-graph held back is applied to the restored one,
   although "Pop reverts the egraph to the last pushed egraph" (`src/lib.rs:277`) and
   matches not chosen "will be delayed to the next iteration" (`scheduler.rs:17`).
   The run `Scheduler` pushes only before a scheduler is used (`PushBuilt`).
8. **`can_stop` with matches held back** (`SchedulerStop`; `src/scheduler.rs:264`). A
   step that applies matches whose heads add nothing reports no update. With the
   trait's default `can_stop` the report then says that "there is no deferred
   scheduler work" (`egglog-reports/src/lib.rs:125`) while vectors hold matches, or
   a query that was not sought has some to find. The run has a scheduler that
   looks at both (`CanStop = FALSE`).

Other hazards met while modelling, without a property that a run checks: an error
in a scheduler's step leaves the e-graph without rulesets and schedulers, which
the step had taken out (`src/scheduler.rs:192`, `:222`, `:253`; `QueryPanics` and
`ActPanics` model it); a rule whose head has no variables divides by zero
(`scheduler.rs:76`); matches held back keep the ids they were found with, which may
be displaced before they are applied; scans
with constraints pass rows that were overwritten (`table/mod.rs:1043`); a buffer of
`new_buffer` marks its table once and rows staged later are not looked for
(constant `KeepBuffers`); a pushed clone of an e-graph shares the notification
list (`Clones`); clearing the union-find's table keeps its `lookup_table`; a CNOT
between qubits that the topology does not connect is dropped without an error
(`src/engine/steiner.rs:138`), and the comment before it says the state is
left corrupted "without SWAPs" while the code swaps back.

## Not modelled

Beside the planned parts below: parsing, desugaring, formatting, serialization, the
command line, Python bindings and demos are translations and I/O without state that
others race on; sorts wrap library arithmetic and collections; memory pools and
row layouts are data representation; weak memory orders are outside TLA+'s usual
reach. Floating-point phases of path sums cannot be checked by TLC; ticks can.
The repository's JavaScript is the generated bundle of a notebook widget
(`python-bindings/python/egglog/visualizer.js`, minified third-party libraries)
and a seven-line loader of the browser demo (`wasm-example/run.js`); neither holds
logic of the engine, which is in Rust and is what the modules translate.

## Plan

1. **Queries**: `FreeJoin`, a plan's stages over frames against the conjunction of
   atoms that `EGraph` uses, with dynamic reordering; `HashIndex` for refresh by
   generation and offset, composed with `SortedWritesTable`. Run: two and three
   atoms over two values. Theorem: a refreshed index answers as a scan does.
2. **Actions**: masks and vectorized instructions implementing the one-match steps
   of `EGraph`.
3. **Interpreter**: `Schedule` (run, saturate, repeat) and the commands that fail,
   over `EGraph`; liveness of saturation under a bound. `Scheduler` over `EGraph`, so
   that ids are displaced while their matches are held back.
4. **Extraction**: the cost fixpoint against least cost by enumeration of terms;
   **type constraints**; **containers** in the e-graph's rebuild; the proof checker.
5. **Concurrency**: `ParallelVecWriter`, `ResettableOnceLock` and the intern table on
   `RWGate` and `AppendOnlyLog`, with their inductive invariants.
6. **Proofs**: type correctness and the theorem named, for each of the above.
