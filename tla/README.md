# TLA+ models of the self-adapting ns-2 simulator harness

This directory holds TLA+ models of the Python harness under
`src/self-adapting-simulator/ns2/`. It also holds the TLC configurations
that check them.

## The system

| Part | Source | State and operations | Talks to |
|---|---|---|---|
| Scenario & parameter model | `codel.py` | Immutable namedtuples: NS2, FTP/Web/CBR params, queue disciplines, learning algorithms, rewards, intervals. Each has a `short_rep` (the fingerprint) and `command` (the simulator arguments). There are registries of variants parsed `from_string`. `NS2.run` launches the simulator. | The simulator (subprocess). Persistence keys come from its fingerprint. |
| Experiment CLI | `run_codel.py` | `run()` checks flags, builds an NS2, and sets the globals TOTAL, COUNTER, EXECUTOR and PERSISTENCE. It starts one asyncio task per seed. Each task awaits `run_codel_process` on a ProcessPoolExecutor. The worker runs the simulator, parses each trace and saves it. | Scenario; persistence (in the worker process). |
| Trace persistence | `tracing/traces.py` | A directory backend (`<root>/<path>/<seed>.npy`) and an SQLite backend (upsert on `(path, seed)`). `SequencePersistence` chains them and falls through only on `PersistenceError`. `Trace.load` maps that error to `NoDataError`. `load_all_seeds` yields seeds 1, 2, … up to the first missing one. | The CLI writes; analyses read. |
| Trace parsing / stats | `tracing/traces.py` | Parsers of the simulator's trace files, `generate_stats`. | Pure computation over files. |
| Aggregation helpers | `tracing/helpers.py` | `load_stats_for`, `load_all_learning`, printing. | Persistence. |
| Plotting toolkit | `plotting.py` | Lenses over scenario fields, named "mods" that rebuild a scenario, and sweeps that load one point per mod. A point whose loader raises `NoDataError` is skipped. | Scenario, persistence. |

Several behaviours are hard to get right:
- Runs execute concurrently in worker processes.
- `asyncio.gather` fails fast, while `shutdown(wait=True)` still drains the executor queue.
- A run can fail part-way through its trace loop, after saving some traces.
- Worker processes share one SQLite file and one directory tree.
- The chain of backends falls through only on one exception class.
- `load_all_seeds` stops quietly at the first gap.
- The start method decides whether workers see the parent's PERSISTENCE.

## Modules

* `Persistence.tla` holds the operators of the persistence layer. A store maps
  backend → key → value, where a key is `<<trace path, seed>>`. A call returns
  a record `[status, value]`, whose status is `"ok"` or the exception class.
  Exceptions that no handler catches (`sqlite3.Error`, `OSError` from save,
  the `ValueError` of a truncated `.npy`) are `"RawError"`. Here is how the
  operators match the code:
  - `DirLoad`/`DirSave` model `TraceDirPersistence`.
  - `SqlLoad`/`SqlSave` model `SQLPersistence`.
  - `ChainLoad`/`ChainSave` model `SequencePersistence`; a lone backend is a
    chain of one.
  - `TraceLoad` models `Trace.load`.
  - `LoadAllSeeds` models `Trace.load_all_seeds`, driven to its end.
* `KVStore.tla` is the abstract store: what an analysis may observe through
  `run_codel.PERSISTENCE`, key by key. A key holds no data, a saved value, or
  `Corrupt` (a load that raises something other than `NoDataError`).
  - `Put(k, v)` is a save becoming visible.
  - `Tear(k)` is a save that leaves the key unreadable.
  - There is no step back to "no data".
* `TraceStore.tla` composes invocations of `run_codel.py` with different
  flags over one store. `Targets` are the persistences `run()` configures.
  The analysis always reads through the default chain (`Visible`).
  - `SaveSql`: `Trace.save` through a chain whose first backend is SQLite.
    The chain stops there, since no save raises `PersistenceError`. The
    upsert is one committed transaction.
  - `BeginDirSave`: `makedirs` and `np.save` opening `<seed>.npy`, which
    truncates it. Until the write ends, the file is `Torn`.
  - `FinishDirSave`: `np.save` has written the whole array.
  - `Crash`: the worker is killed inside `np.save`, so the file stays `Torn`.

  The ghost `last` holds the latest completed save of each key into testik.db
  or traces. `Abs` is `KVStore` instantiated with `kv <- View`, the default
  chain's read of every key.
* `Batch.tla` models one invocation of `run()`. `Init` chooses a flag record
  and applies the flag checks in the code's order:
  1. `--nam`, then `--seed`, force `num_runs` to 1 (`EffectiveNumRuns`).
  2. The web and reward checks exit (`BadTraceRequest`).
  3. Both trace targets given also exits (`ConflictingTargets`).
  4. `Configured` gives the PERSISTENCE the parent sets, and
     `WorkerPersistence` gives the one a worker sees under the start method.
  5. Each task gets `seed or (run_id + 1)` (`SeedOf`).

  The actions are:
  - `Dispatch`: a free worker takes the oldest queued call.
  - `RunSimulator`: `ns2.run` and the queue trace parse, which may fail.
  - `ProcessTrace`: one iteration of the trace loop. It parses the trace, which
    may fail, then `ChainSave` runs with a nondeterministic set of failing
    backends.
  - `Handle`: the event loop resumes the awaiting task. On success it
    increments COUNTER. On failure gather's exception stops the loop.
  - `StopLoop`: `run_until_complete` returns or raises.
  - `ShutdownDone`: `EXECUTOR.shutdown()` returns once nothing is queued or
    running.
  - `Terminated`: the process has exited.
* `Scenario.tla` models the value types of `codel.py` (no state). Its
  operators are:
  - `Selectors`, `Queues`, `Algos`, `Rewards` and `IsNS2`: the namedtuples
    over small domains. An Interval is its number of milliseconds and a Rate
    its text. A float is the parts of its `str()` split at `-`.
  - `SelectorRep`, `QueueRep`, `AlgoRep`, `RewardRep`, `FTPRep`, `WebRep`,
    `CBRRep`, `LearningRep` and `NS2Rep`: every `short_rep`. A short_rep
    element is the sequence of `(letters, rest)` pieces it splits into at `-`.
    `Fingerprint` is `Trace._get_filename_base`.
  - `SelectorCommand`, `QueueCommand`, `AlgoJson`, `RewardCommand` and
    `SimArgs`: the argument list `NS2.run` hands to the simulator.
    `RewardCommand` of a ThroughputReward raises `AttributeError`, as the code
    does.
  - `MakeFTPParams` and `MakeThroughputReward`: the `__new__` checks.
  - `ParamsOf`, `Fields`, `Convert`, `ReadField`, `FromParams` and
    `FromString`: `ParameterizedBase.from_string` with every `from_params`.
    Fields are read in the code's order, so the first `KeyError` or
    `ValueError` wins.
  - `NumWebs`, `NumNodes`, `GetNodeType`, `GetNodes` and `GetSndRecvPairs`:
    the node ranges.
* `Cli.tla` models `run()` from the flags to the scenario, and `NS2.run`:
  - `Build` covers the reward defaults (`BuildReward`) and the constructor
    calls in Python's argument order (`BuildNS2`). An exception ends the
    process.
  - `Launch` runs the simulator, whose non-zero exit is `RuntimeError`.
* `MCCli.tla` enumerates command lines: 0 or 1 FTP (greedy or not), web and
  CBR on or off, and the three rewards with and without `--reward-min-delay`.
  It also covers four learning algorithms, three interval selectors, and four
  `--algo` values, one of them an unknown name.
* `Sweep.tla` composes the CLI's batches with a notebook's sweep over one
  store (`Persistence`). Scenarios come from `Scenario`, and `MCSweep` builds
  them through `Cli`. Its actions are:
  - `RunBatch`: a batch of seeds `1..n` lands in the store at any time
    (`SaveRun`, through the chain).
  - `StartSweep`: a chart starts `_load_multiple_points(base, mod, xs,
    loader)`.
  - `LoadPoint`: one iteration. It applies the mod (`LensSet` and
    `LensApply`, which model `Lens`; `ModPath` and `ModValue`, which model the
    six mods) and calls the loader. The outcome (`PointOutcome`, `EndPoint`)
    is one of:
    - a point;
    - a skip on `NoDataError`;
    - an escaping error;
    - for the lazy `_load_rtt`, an unstarted generator.
  - `ConsumePoint`: `plot_rtt_as_function_of` runs that generator outside the
    `try`.
  - `Draw`: the chart plots xs against the points (`ChartError`).

  `LoadStatsFor`, `LoadPower`, `LoadAllLearning` (the reward chart) and
  `LoadAllWebCts` (the FCT chart) are the eager loaders. `LoadPower` keeps
  zip's order: the RTT trace first, then the web trace.
* `MCSweep.tla` builds its scenarios with `Cli`'s operators from real command
  lines. It instantiates Sweep with the default chain (SQL testik.db, then
  the traces directory).
* `Metrics.tla` models the numbers one run yields, as operators over rational
  numbers (`Num(n, d)`; numpy's NaN is 0/0 and inf is 1/0):
  - `GenerateStats` is `StatsTrace.generate_stats`. It covers `GetStats` (the
    DEQUEUE-and-mask filter), the classes in `StatClasses` order, and
    `ClassStats` with its NaN guards. `Mean`, `Median` and `Percentile` follow
    numpy's definitions (median of the middle elements, linear
    interpolation). `FromStr` is `CodelResult.from_str`. `ToRow` places the
    tuple into `STATS_DTYPE` by position, as `np.array(..., dtype)` does.
  - `ParseWeb` and `ParseRtt` are the web and tcp_rtt parsers. They cover
    the ms→s and Mbps→bps conversions, the files read in `NodeType` order,
    and `AssertionError` on a line the pattern rejects. `ParseWeb` keeps
    `np.genfromtxt`'s squeeze: a one-line web.tr is a 0-d array, and
    `WebMaskRaises` is the `IndexError` the web mask then raises.
  - `PerFlowPower` is `load_power`'s per-flow powers for one seed. Web flows
    are joined by flow id (`CalcWebPower`, `CalcPerFlowTimeAndSize` with
    `BinCount` and `SearchSortedLeft`, `CalcPerFlowRtt`). FTP rows are read
    directly (`CalcFtpPower`).

  The state machine is one run's life:
  - `EmitRow` and `ReadSummary`: `QueueTrace.parse`'s rows and the stats
    file the simulator wrote.
  - `Derive`: `generate_stats`.
  - `SaveStats`: the run moves on to the next trace.
  - `EmitWeb` and `EmitRtt`: the lines of web.tr and of the per-node-type
    tcp files.
  - `LoadPower`: the analysis' call, with each `node_type` and
    `use_excess_rtt`.

  The Emit actions enumerate the files' contents; their order against the
  derivations does not matter, because the derivations are functions of the
  finished files. The reference definitions `SpecClass` and `SpecPowers` are
  written from spec §4.2 and §4.5 on the raw lines, with their own unit
  conversions.
* `MCMetrics.tla` uses a scenario with one web, one FTP and one CBR pair
  (nodes 0..7).
* `MCBatch.tla` instantiates Batch with two SQL and two dir backends, four
  trace paths, and a flag set that covers every check of `run()`.

## Runs

| Run | cfg | Expect | Shows |
|---|---|---|---|
| batch | `MCBatch.cfg` | pass | See the invariants below. |
| batch_abort | `MCBatch_abort.cfg` | violation | A queued run starts after gather has failed. |
| batch_spawn | `MCBatch_spawn.cfg` | violation | Under spawn, workers ignore `--trace-db` and `--trace-dir`. |
| cli | `MCCli.cfg` | pass | Every scenario `run()` builds is well typed. Its node ranges split into one (even, odd) sender/receiver pair per source, and its interval selector round-trips through `short_rep`. |
| cli_launch | `MCCli_launch.cfg` | violation | With `--reward throughput`, `NS2.run` raises `AttributeError` before the simulator starts. |
| sweep | `MCSweep.cfg` | pass | `LoadedDataMatches`: with batches landing at any time, every point a sweep loads was simulated with the arguments of the scenario the mod produced. It covers the stats, RTT and power loaders and the bw and web mods. |
| store | `MCTraceStore.cfg` | pass | `AnalysisViewRefinesKV`: invocations with any `--trace-db`/`--trace-dir`, and a worker killed mid `np.save`, refine `KVStore`. Each step changes the analysis' read of at most one key, to a saved value or to unreadable. A key with data never reads as `NoDataError` again. |
| store_stale | `MCTraceStore_stale.cfg` | violation | `LastWriteVisible`: a default run saves a key to testik.db, then a `--trace-dir traces` run saves it anew, and the analysis still reads the old row. |
| sweep_collision | `MCSweep_collision.cfg` | violation | `sr-tl5` and `sr-tl10` share a fingerprint, so a sweep of one loads the other's traces. |
| sweep_lazy | `MCSweep_lazy.cfg` | violation | The RTT chart's lazy loader raises `NoDataError` outside the skip, which aborts the chart. |
| sweep_skip | `MCSweep_skip.cfg` | violation | After a skipped point, `plt.plot(xs, values)` gets fewer values than xs and raises `ValueError`. |
| metrics | `MCMetrics.cfg` | pass | `StatsMatchSpec`: every field of the saved stats row is the spec §4.2 number for it, for every queue trace of up to three rows over the eight nodes, with NaN for a class without DEQUEUE rows. `PowerPerFlowMatchesSpec`: every per-flow power `load_power` averages pairs a flow's own throughput with its own (excess) RTT, for every order in which the tcp files list the flows. |

The batch run checks:
- `TypeOK`.
- `CountedRunsPersisted`: a run the event loop counted has every configured
  trace saved for its seed.
- `SuccessfulBatchVisible`: a batch that exits cleanly is fully visible to
  `load_all_seeds` on every configured trace.
- `NoKeyWrittenTwice`: no `(trace, seed)` key is written twice in one batch.
- `BatchExitsWithItsOutcome`: the process always exits, and `run()` ends
  without an exception exactly when every run of the batch returned. It
  asks nothing of the runs still queued after a failure: spec §5 wants
  them abandoned, the code drains them, and `batch_abort` reports that.

Each violation run is a finding in `PROJECT.json`:
- The queue drains after an abort, which spec §5 contradicts.
- The default chain's SQL row shadows a newer save in the traces directory
  (the chain's order also differs from spec §4.3's "directory-then-SQL").
- The spawn start method ignores `--trace-db` and `--trace-dir`.
- The throughput reward crashes.
- The `sr` fingerprint collides.
- The lazy RTT loader escapes the skip.
- The skipped point breaks the chart.

Divergences found while modelling, which no run checks, because a single
call shows them:
- Learning algorithms do not round-trip through `short_rep` (spec test 2):
  `'laucb'` is not a registry name, so `from_string` rejects it, and SFQ's
  `short_rep` is split into letters (`codel.py:206`, `codel.py:369`).
- `plot_win` and `plot_bins` assign `ns2.algorithms = ...` on an NS2
  namedtuple with `__slots__ = ()` (`plotting.py:326`, `plotting.py:351`), so
  both raise `AttributeError` before loading anything.
- A web.tr of exactly one line parses to a 0-d array (`traces.py:213`).
  Whenever `load_power` computes web powers, `web[np.in1d(...)]`
  (`plotting.py:226`) then raises `IndexError` for that seed, and the power
  chart fails instead of plotting the point. `LoadPower` records the error,
  and `PowerPerFlowMatchesSpec` is stated for the loads that return.
- Web power divides bytes by seconds (response size over completion time),
  while FTP power uses the RTT trace's rate in bits per second. `load_power`
  averages the logs of both in one mean. Spec §4.5 defines them the same
  way, so this is a unit mismatch in the spec, not a divergence.

`plot_delay_n_throughput_as_function_of` indexes `data[0..3]` as rows where
it means columns (`plotting.py:104`). The reward and FCT charts do the same
with `data[0..1]`. `ChartError` models this, and the skip run's
`ChartDrawsLoadedPoints` catches it too: a chart with every point loaded
still fails unless it has exactly as many xs as columns.

### Bounds

| Bound | Why it is enough |
|---|---|
| `num_runs ∈ {1,3}`, `Workers = 2` | Three runs on two workers give both a queued call while others run and a failure in the middle seed. |
| `MaxFaults = 1` | One failure separates a clean batch from a failed one. Every fault site (simulator, parse, each backend's save) can take it. |
| `MaxSeed = 4` | Covers `start_run` ∈ {0,1} with 3 runs, and `--seed` ∈ {0,2}. Seed 0 is treated as absent by `seed or …`. |
| Trace configs | One trace or two, and the web and reward traces whose checks exit. |
| Sweep: the default command line with `--greedy-ftp` as base, mods `bw ∈ <<10,20>>`, `web ∈ <<0,1>>` and `ftp ∈ <<0,1>>`, `MaxSeed = 2` | Two xs give one point loaded and one skipped. The batches run the base, the base with `--web-rate 1`, and `--num-ftps 0`, so some points of each mod have data and some do not. `ftp_mod(base, 0)` builds through `_replace` an `FTPParams(num=0, greedy=True)` that `__new__` rejects. Its fingerprint is that of the `--num-ftps 0` run. Two seeds separate "first seed missing" (`NoDataError`) from "stops at the gap". The skip run adds the reward and FCT loaders and the learning trace. |
| TraceStore: testik.db, traces, one more database and directory, one trace path, two seeds, two values, `MaxWrites = 5`, `MaxCrashes = 2` | Five saves give a database save, a directory save over it, a crash of a rewrite of a key that already had data, and a second crash while another key is being written. The second database and directory are targets the analysis does not read. The stale run needs no crash (`MaxCrashes = 0`). |
| Metrics: events `DEQUEUE` and `DROP`, sizes {1,2}, delays {1,3}, `MaxRows = 3`; web lines of flows {1,2}; tcp lines of flows {1,2}, one malformed line; `MaxLines = 2` | Three rows give one class three delays, where the 75th and 95th percentiles interpolate, and they give two classes data while the third has none (NaN). ENQUEUE is left out: the filter tells only DEQUEUE from the rest. Two tcp lines in the web file can list flow 2 before flow 1, which is the order the argsort exists for. One web line reaches the 0-d array. Excess RTT 0 (`del = mindel`) gives an infinite power. |
| Cli: the flag sets of `MCCli.tla` | Each constructor check, each registry and its failure, and each reward's defaults are reached at least once. |

### Fairness

- Each action class is weakly fair. The executor keeps dispatching while work
  is queued and a worker is free, and a worker's steps are local computation.
- `Handle` and `StopLoop` are the event loop's steps. The loop runs until
  gather completes.
- Simulator failures are bounded by `MaxFaults`, so fairness never has to
  outrun them.
- The simulator is assumed to return: `ns2.run` calls `subprocess.run`
  without a timeout, so a hung simulator would keep the process alive; that
  case is not modelled.
- Sweep checks only safety. Its chart loop is a `for` over a finite `xs` in
  which every outcome advances or ends the loop, so its termination holds by
  the loop's shape and says nothing about the loaders.
- Cli: `Build` and `Launch` are sequential steps of `run()`.
- Metrics checks only safety. It has no liveness: a run ends once
  `load_power` has been called, and `CHECK_DEADLOCK FALSE` says so.
- TraceStore checks only safety: invocations and crashes happen when users
  and the machine make them. `CHECK_DEADLOCK FALSE` because the store is
  idle once the save bound is used up.

## Not modelled (yet)

- The simulator, `libtools`, and the text formats of trace parsing are I/O.
  A run is modelled as a step that succeeds or fails.
- Chart drawing is left out. The charts are modelled only by how they fail
  on the number of points. The stats derivation and the per-flow powers are
  modelled in `Metrics`. Logarithms are outside TLC's integers, so the mean
  of log powers per seed and across seeds is not modelled. Neither are
  the binned time series (`calc_by_bins`), which only `plot_bins` uses, and
  `plot_bins` always raises (see the findings above).
- `Metrics` leaves out the simulator's text formats. The queue, codel,
  codel_drop and tcp traces are read by `np.loadtxt`/`genfromtxt` or by the
  native `libtools`. A parsed row is modelled by the fields the derivations
  read. The tcp files are assumed to name each flow id once, as the
  simulator's agents have one line each; `delta` is 1.
- TraceStore lets one writer at a time save a key, as spec §5 assumes. Two
  concurrent `np.save` calls on one file would interleave their bytes.
- A worker killed before an SQLite commit leaves the database unchanged,
  so that crash is a stutter and is not an action.
- The queues' `__str__` is display code.
- The learning-policy and histogram charts (`plot_learning`, `plot_reward`,
  `plot_hist`) are numpy computations over loaded arrays, with no control
  flow beyond the loads already modelled.
- `load_stats_for`'s override branch assigns an attribute of a namedtuple
  with `__slots__ = ()` and raises `AttributeError` on every call. No caller
  in the repository passes the override.
- The `rdelay`, `int` and `lint` mods are modelled (`ModPath`, `ModValue`),
  but the MC instances sweep only `bw`, `web` and `ftp`. `rdelay` over a
  throughput reward keeps the base's `min_delay`, where `run()` sets it to
  the max delay. That sweep's points never match a CLI fingerprint. But no
  throughput-reward run persists data anyway (the `cli_launch` finding).

## Further work

1. **Sweep.** Sweep `rdelay` over a throughput reward. Its lens keeps the
   base's `min_delay` where `run()` would derive it from the max delay. Also
   sweep `lint` over a binary-search selector, where a missing field raises
   `AttributeError` through the lens.
2. **Metrics composed with the store.** Feed `GenerateStats` rows through
   `TraceStore`, so that a torn or stale stats row is followed into the
   numbers a chart shows.
