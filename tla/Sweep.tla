------------------------------- MODULE Sweep -------------------------------
(***************************************************************************)
(* The analysis side of the harness, plotting.py and tracing/helpers.py:   *)
(* a notebook sweeps a base scenario along one axis with a named mod (a    *)
(* Lens that rebuilds the scenario with one nested field replaced), and    *)
(* _load_multiple_points loads one point per sweep value, skipping a value *)
(* whose loader raises NoDataError.  Meanwhile experiment batches of the   *)
(* CLI persist traces under each scenario's fingerprint, through the same  *)
(* persistence chain the loaders read.                                     *)
(*                                                                         *)
(* A persisted value is the simulator invocation that produced it          *)
(* (Scenario!SimArgs), so a loaded value tells which run it came from.     *)
(***************************************************************************)
EXTENDS Scenario, Persistence, FiniteSets

CONSTANTS
  Bases,     \* base scenarios a notebook sweeps from
  Xs,        \* mod name -> the sweep values xs, in order
  Loaders,   \* the loaders charts hand to _load_multiple_points
  CliRuns,   \* scenarios experiment batches are run for
  TraceSets, \* the --trace selections batches are run with
  Chain      \* run_codel.PERSISTENCE, used by the CLI and by the loaders

VARIABLES
  store,     \* what every backend holds
  base,      \* the sweep's base scenario
  mod,       \* the sweep's mod
  loader,    \* the sweep's loader
  todo,      \* the xs _load_multiple_points has not reached yet
  points,    \* <<x, loaded values>> for every point yielded so far
  pending,   \* <<x, scenario>> whose lazy loader the chart has not consumed
  phase,     \* "idle", "loading", "consuming", "drawn", "failed"
  error      \* the exception a failed sweep ended with

vars == <<store, base, mod, loader, todo, points, pending, phase, error>>


(***************************************************************************)
(* Lens._lens_set: getattr down the path, _replace on the way back up.     *)
(* A field the value does not have raises AttributeError.                  *)
(***************************************************************************)
RECURSIVE LensSet(_, _, _)
LensSet(obj, path, v) ==
  IF path = <<>> THEN Returns(v)
  ELSE IF Head(path) \notin DOMAIN obj THEN Raises("AttributeError")
  ELSE LET inner == LensSet(obj[Head(path)], Tail(path), v) IN
       IF inner.status = "ok" THEN Returns([obj EXCEPT ![Head(path)] = inner.value])
                              ELSE inner

\* Lens.__call__: functools.reduce of _lens_set over the mods, in order.
RECURSIVE LensApply(_, _)
LensApply(mods, obj) ==
  IF mods = <<>> THEN Returns(obj)
  ELSE LET r == LensSet(obj, Head(mods)[1], Head(mods)[2]) IN
       IF r.status = "ok" THEN LensApply(Tail(mods), r.value) ELSE r

(***************************************************************************)
(* The named mods: each is lens(path..., value)(ns2).                      *)
(***************************************************************************)
ModPath ==
  [int |-> <<"algorithms">>, rdelay |-> <<"learning", "reward", "max_delay">>,
   ftp |-> <<"ftp", "num">>, bw |-> <<"bottleneck", "rate">>, web |-> <<"web", "rate">>,
   lint |-> <<"learning", "interval_selector", "interval">>]

\* int_mod: generate_codel_variants([Interval(x ms)], [Interval('5ms')]);
\* bw_mod: Rate(f'{x}Mb'); the others use x as it is.
ModValue(m, x) ==
  CASE m = "int" -> <<[kind |-> "sfqcodel", interval |-> x, target |-> 5]>>
    [] m = "bw"  -> ToString(x) \o "Mb"
    [] OTHER     -> x

ApplyMod(m, s, x) == LensApply(<< <<ModPath[m], ModValue(m, x)>> >>, s)

\* Every scenario a batch runs or a sweep visits.
Visited == CliRuns \cup UNION {{ApplyMod(m, b, x).value : x \in Range(Xs[m])} :
                                 b \in Bases, m \in DOMAIN Xs}

\* Trace.get_trace_path: f'{fingerprint}.{trace name}'.
TracePath(s, t) == <<Fingerprint(s), t>>

(***************************************************************************)
(* The loaders.  A load returns its status and the values it yielded.      *)
(***************************************************************************)
LoadTrace(s, t) ==
  LET r == LoadAllSeeds(store, Chain, TracePath(s, t)) IN
  [status |-> r.status,
   seeds |-> r.seeds,
   values |-> {TraceLoad(store, Chain, TracePath(s, t), k).value : k \in r.seeds}]

\* helpers.load_stats_for(ns2): np.stack(list(StatsTrace.load_all_seeds(...))).
LoadStatsFor(s) == LoadTrace(s, "stats")

(***************************************************************************)
(* PowerPlotter.load_power: zip(_load_rtt(ns2), WebTrace.load_all_seeds)  *)
(* when the scenario has web traffic.  zip pulls the RTT generator first,  *)
(* so its NoDataError comes first, and it stops with the shorter one.      *)
(***************************************************************************)
LoadPower(s) ==
  LET rtt == LoadTrace(s, "tcp_rtt")
      web == LoadTrace(s, "web")
  IN CASE rtt.status # "ok"                     -> rtt
       [] s.web.rate > 0 /\ web.status # "ok" -> web
       [] s.web.rate > 0 ->
            [status |-> "ok", seeds |-> rtt.seeds \cap web.seeds,
             values |-> {TraceLoad(store, Chain, TracePath(s, t), k).value :
                           k \in rtt.seeds \cap web.seeds, t \in {"tcp_rtt", "web"}}]
       [] OTHER -> rtt

\* helpers.load_all_learning(ns2, 'reward'), as _load_learning_reward calls
\* it: np.stack of the reward field of every LearningTrace seed.
LoadAllLearning(s) == LoadTrace(s, "learning")

\* _load_all_web_cts: np.concatenate of the ct field of every WebTrace seed.
LoadAllWebCts(s) == LoadTrace(s, "web")

\* _load_rtt returns TCPRTTTrace.load_all_seeds unstarted: the generator
\* runs only when the chart iterates it.
Lazy(l) == l = "rtt"

EagerLoad(l, s) ==
  CASE l = "power"  -> LoadPower(s)
    [] l = "reward" -> LoadAllLearning(s)
    [] l = "fct"    -> LoadAllWebCts(s)
    [] OTHER        -> LoadStatsFor(s)

\* The except clause of _load_multiple_points.
Skipped(r) == r.status = "NoDataError"

(***************************************************************************)
(* run_codel_process for each seed of a batch: every trace named by        *)
(* --trace is saved through the chain (run() refuses --trace web without   *)
(* web traffic).  A scenario whose NS2.run raises persists nothing.        *)
(***************************************************************************)
CliTraces(s) == {"stats", "tcp_rtt", "learning"} \cup (IF s.web.rate > 0 THEN {"web"} ELSE {})

(***************************************************************************)
(* Trace.save of each key, through the chain; no save fails here.  Saves   *)
(* of distinct keys touch distinct entries, so they are applied at once.   *)
(***************************************************************************)
SaveRun(st, s, traces, seeds) ==
  LET keys == {<<TracePath(s, t), k>> : t \in traces, k \in seeds}
      after == [key \in keys |-> ChainSave(st, Chain, key[1], key[2], SimArgs(s).value, {}).store]
  IN [b \in DOMAIN st |-> [key \in DOMAIN st[b] |->
        IF key \in keys THEN after[key][b][key] ELSE st[b][key]]]

(***************************************************************************)
(* How each chart turns its points into a figure.                          *)
(*   stats: plot_delay_n_throughput_as_function_of builds an array of one  *)
(*     row of four numbers per point, then plots xs against data[0] with   *)
(*     yerr data[1], and xs against data[2], data[3]: rows, not columns.   *)
(*   rtt, power: plt.plot(xs, values) wants one value per x.               *)
(*   reward, fct: see RewardChartError and FctChartError.                  *)
(* The result is the exception matplotlib or numpy raises, or None.       *)
(***************************************************************************)
\* plot_reward_as_function_of: one (mean, std) row per point, then
\* plt.errorbar(xs, data[0], yerr=data[1]), rows again.
RewardChartError(n, nx) ==
  CASE n < 2   -> "IndexError"
    [] nx # 2  -> "ValueError"
    [] OTHER   -> None

\* plot_fct_as_function_of builds and plots its array the same way.
FctChartError(n, nx) == RewardChartError(n, nx)

ChartError(l, n, nx) ==
  CASE l = "stats" /\ n < 4  -> "IndexError"
    [] l = "stats" /\ nx # 4 -> "ValueError"
    [] l = "reward"          -> RewardChartError(n, nx)
    [] l = "fct"             -> FctChartError(n, nx)
    [] l # "stats" /\ n # nx -> "ValueError"
    [] OTHER                 -> None

-----------------------------------------------------------------------------
Init ==
  /\ store = EmptyStore
  /\ base \in Bases
  /\ mod \in DOMAIN Xs
  /\ loader \in Loaders
  /\ todo = <<>>
  /\ points = <<>>
  /\ pending = None
  /\ phase = "idle"
  /\ error = None

\* An experiment batch of seeds 1..n lands in the store, at any time.
RunBatch ==
  \E s \in CliRuns, traces \in TraceSets, n \in 1..MaxSeed :
    /\ SimArgs(s).status = "ok"
    /\ traces \subseteq CliTraces(s)
    /\ store' = SaveRun(store, s, traces, 1..n)
    /\ store' # store
    /\ UNCHANGED <<base, mod, loader, todo, points, pending, phase, error>>

\* A chart function starts iterating _load_multiple_points(base, mod, xs, loader).
StartSweep ==
  /\ phase \in {"idle", "drawn", "failed"}
  /\ \E b \in Bases, m \in DOMAIN Xs, l \in Loaders :
       /\ base' = b /\ mod' = m /\ loader' = l /\ todo' = Xs[m]
  /\ points' = <<>>
  /\ phase' = "loading"
  /\ error' = None
  /\ UNCHANGED <<store, pending>>

(***************************************************************************)
(* One iteration of _load_multiple_points: inside the try, apply the mod   *)
(* and call the loader; skip the point on NoDataError; anything else       *)
(* escapes and ends the chart.  A lazy loader's result is yielded as is.  *)
(* The outcome says how the iteration ends: "failed" with an error, "lazy" *)
(* (a generator yielded), "point" (a value yielded) or "skip".             *)
(***************************************************************************)
PointOutcome(m, b, l, x) ==
  LET s == ApplyMod(m, b, x)
      r == EagerLoad(l, s.value)
  IN CASE s.status # "ok" -> [end |-> "failed", error |-> s.status]
       [] Lazy(l)         -> [end |-> "lazy", scenario |-> s.value]
       [] r.status = "ok" -> [end |-> "point", values |-> r.values]
       [] Skipped(r)      -> [end |-> "skip"]
       [] OTHER           -> [end |-> "failed", error |-> r.status]

\* How the iteration for x ends, given its outcome o.
EndPoint(x, o) ==
  /\ phase' = CASE o.end = "failed" -> "failed"
               [] o.end = "lazy"   -> "consuming"
               [] OTHER            -> phase
  /\ error' = IF o.end = "failed" THEN o.error ELSE error
  /\ pending' = IF o.end = "lazy" THEN <<x, o.scenario>> ELSE pending
  /\ points' = IF o.end = "point" THEN Append(points, <<x, o.values>>) ELSE points

LoadPoint ==
  /\ phase = "loading"
  /\ todo # <<>>
  /\ todo' = Tail(todo)
  /\ EndPoint(Head(todo), PointOutcome(mod, base, loader, Head(todo)))
  /\ UNCHANGED <<store, base, mod, loader>>

\* Mutant: the consumed generator is not dropped.
ConsumePointKeepsPending ==
  /\ phase = "consuming"
  /\ LET r == LoadTrace(pending[2], "tcp_rtt") IN
       IF r.status = "ok"
       THEN points' = Append(points, <<pending[1], r.values>>) /\ phase' = "loading"
            /\ UNCHANGED error
       ELSE phase' = "failed" /\ error' = r.status /\ UNCHANGED points
  /\ UNCHANGED <<store, base, mod, loader, todo, pending>>

(***************************************************************************)
(* plot_rtt_as_function_of: list(rtt) runs the yielded generator, outside  *)
(* the try of _load_multiple_points.                                       *)
(***************************************************************************)
ConsumePoint ==
  /\ phase = "consuming"
  /\ LET r == LoadTrace(pending[2], "tcp_rtt") IN
       IF r.status = "ok"
       THEN points' = Append(points, <<pending[1], r.values>>) /\ phase' = "loading"
            /\ UNCHANGED error
       ELSE phase' = "failed" /\ error' = r.status /\ UNCHANGED points
  /\ pending' = None
  /\ UNCHANGED <<store, base, mod, loader, todo>>

\* The generator is exhausted; the chart plots xs against the points.
Draw ==
  /\ phase = "loading"
  /\ todo = <<>>
  /\ LET e == ChartError(loader, Len(points), Len(Xs[mod])) IN
       IF e = None THEN phase' = "drawn" /\ UNCHANGED error
                   ELSE phase' = "failed" /\ error' = e
  /\ UNCHANGED <<store, base, mod, loader, todo, points, pending>>

Next == RunBatch \/ StartSweep \/ LoadPoint \/ ConsumePoint \/ Draw

Spec == Init /\ [][Next]_vars

-----------------------------------------------------------------------------
Phases == {"idle", "loading", "consuming", "drawn", "failed"}
Errors == {"NoDataError", "AttributeError", "IndexError", "ValueError"}

TypeOK ==
  /\ phase \in Phases
  /\ mod \in DOMAIN Xs /\ loader \in Loaders /\ base \in Bases
  /\ todo \in Seq(Range(Xs[mod]))
  /\ Len(todo) + Len(points) <= Len(Xs[mod])
  /\ (phase = "consuming") = (pending # None)
  /\ (phase = "failed") = (error \in Errors)

(***************************************************************************)
(* What the simulator does with an invocation: the FTP arguments other     *)
(* than the number of sources mean nothing when there are none, nor do    *)
(* the CBR ones (the simulator script starts no such source).              *)
(***************************************************************************)
Operational(a) ==
  [a EXCEPT !.ftp = IF a.ftp[1] = 0 THEN <<0>> ELSE a.ftp,
            !.cbr = IF a.cbr[1] = 0 THEN <<0>> ELSE a.cbr]

(***************************************************************************)
(* Every value a sweep loads for x was produced by a simulator run of the  *)
(* scenario mod(base, x) itself, or of one the simulator cannot tell from  *)
(* it: the fingerprint under which the CLI saved it determines the run.    *)
(* This is what makes short_rep a sound persistence key, while batches of  *)
(* other scenarios land in the same store.                                 *)
(***************************************************************************)
LoadedDataMatches ==
  \A i \in DOMAIN points :
    LET s == ApplyMod(mod, base, points[i][1]).value IN
    \A v \in points[i][2] : Operational(v) = Operational(SimArgs(s).value)

(***************************************************************************)
(* A value with no data is only skipped with a warning: no NoDataError     *)
(* ever reaches the chart (the except clause of _load_multiple_points).   *)
(***************************************************************************)
NoDataErrorNeverEscapes == error # "NoDataError"

(***************************************************************************)
(* A chart with at least one point, whose other points were skipped with  *)
(* a warning, is drawn with the points there are: drawing never raises.   *)
(***************************************************************************)
ChartDrawsLoadedPoints ==
  phase = "failed" /\ points # <<>> => error \notin {"IndexError", "ValueError"}

=============================================================================
