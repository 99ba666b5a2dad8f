------------------------------- MODULE Batch -------------------------------
(***************************************************************************)
(* One invocation of the experiment CLI, run_codel.py: the flag checks of  *)
(* run(), then the batch of simulator runs, one asyncio task per seed,     *)
(* each awaiting run_codel_process on a ProcessPoolExecutor worker, the    *)
(* progress COUNTER kept by the event loop, gather's fail-fast exception   *)
(* and EXECUTOR.shutdown() in the finally clause.  Workers save traces     *)
(* through the Persistence operators.                                      *)
(*                                                                         *)
(* Tasks are numbered 1..total in the order gather receives them           *)
(* (run_id = start_run + task - 1).  pc[t] is where task t is:             *)
(*   "queued"  submitted to the executor, not yet on a worker              *)
(*   "sim"     on a worker: ns2.run and QueueTrace.parse                   *)
(*   "trace"   in the loop over config.trace, at trace cursor[t]           *)
(*   "ok"/"err" run_codel_process returned / raised                        *)
(***************************************************************************)
EXTENDS Persistence, FiniteSets, SequencesExt

CONSTANTS
  Workers,        \* max_workers of the ProcessPoolExecutor (--num-threads)
  Flags,          \* the CLI flag records an invocation may be given
  DefaultChain,   \* module-level PERSISTENCE: SQL testik.db, then dir traces
  StartMethod,    \* multiprocessing start method: "fork" or "spawn"
  MaxFaults,      \* bound on failing simulator runs, parses and saves
  None            \* Python's None for an absent flag

ASSUME Workers \in Nat \ {0}
ASSUME StartMethod \in {"fork", "spawn"}
ASSUME MaxFaults \in Nat

VARIABLES
  phase,        \* "loop", "failing" (exception seen, loop stopping),
                \* "shutdown" (in EXECUTOR.shutdown()), "exited"
  status,       \* how the process ends: "none", "ok", "error", "usage"
  total,        \* TOTAL
  counter,      \* COUNTER
  seedOf,       \* the seed each task runs
  config,       \* TracingConfig.trace: the traces to save, in order
  persistence,  \* PERSISTENCE as run() sets it in the parent process
  target,       \* PERSISTENCE as the worker process sees it
  pc,
  cursor,       \* index into config.trace of a task in the trace loop
  handled,      \* tasks whose awaited future the event loop has resumed
  data,         \* what every backend holds
  faults

vars == <<phase, status, total, counter, seedOf, config, persistence, target,
          pc, cursor, handled, data, faults>>

Tasks == DOMAIN pc
Finished == {"ok", "err"}
Busy == {t \in Tasks : pc[t] \notin {"queued"} \cup Finished}

(***************************************************************************)
(* run(): the flag checks, in the order the code makes them.               *)
(***************************************************************************)
\* Mutant: the --seed check dropped.
EffectiveNumRunsNoSeedCheck(f) == IF f.nam /\ f.num_runs # 1 THEN 1 ELSE f.num_runs

\* --nam forces num_runs to 1, then an explicit --seed does.
EffectiveNumRuns(f) ==
  LET n == IF f.nam /\ f.num_runs # 1 THEN 1 ELSE f.num_runs IN
  IF f.seed # None /\ n # 1 THEN 1 ELSE n

\* A web trace without web traffic, a reward trace without the power reward.
BadTraceRequest(f) ==
  \/ Contains(f.trace, "web") /\ f.web_rate = 0
  \/ Contains(f.trace, "reward") /\ f.reward # "power"

\* Both --trace-db and --trace-dir.
ConflictingTargets(f) == f.trace_db # None /\ f.trace_dir # None

\* --trace-db selects an SQLPersistence, --trace-dir a TraceDirPersistence.
Configured(f) ==
  CASE f.trace_db # None  -> <<f.trace_db>>
    [] f.trace_dir # None -> <<f.trace_dir>>
    [] OTHER              -> DefaultChain

(***************************************************************************)
(* The worker runs run_codel_process in another process.  Forked, it       *)
(* inherits the parent's PERSISTENCE; spawned, it imports run_codel afresh *)
(* and sees the module-level default.                                      *)
(***************************************************************************)
WorkerPersistence(f) ==
  IF StartMethod = "fork" THEN Configured(f) ELSE DefaultChain

\* Mutants: seeds from run_id itself, and start_run added a second time.
SeedOfRunId(f, runId) == IF f.seed \in {None, 0} THEN runId ELSE f.seed
SeedOfStartRunTwice(f, runId) ==
  IF f.seed \in {None, 0} THEN f.start_run + runId + 1 ELSE f.seed

\* `seed or (run_id + 1)`: None and 0 are both false in Python.
SeedOf(f, runId) == IF f.seed \in {None, 0} THEN runId + 1 ELSE f.seed

Init ==
  \E f \in Flags :
    /\ config = f.trace
    /\ counter = 0
    /\ handled = {}
    /\ data = EmptyStore
    /\ faults = 0
    /\ IF BadTraceRequest(f) \/ ConflictingTargets(f)
         THEN /\ phase = "exited" /\ status = "usage"
              /\ total = 0 /\ seedOf = <<>> /\ pc = <<>> /\ cursor = <<>>
              /\ persistence = DefaultChain /\ target = DefaultChain
         ELSE /\ phase = "loop" /\ status = "none"
              /\ total = EffectiveNumRuns(f)
              /\ seedOf = [t \in 1..total |-> SeedOf(f, f.start_run + t - 1)]
              /\ pc = [t \in 1..total |-> "queued"]
              /\ cursor = [t \in 1..total |-> 0]
              /\ persistence = Configured(f)
              /\ target = WorkerPersistence(f)

(***************************************************************************)
(* A free worker takes the oldest submitted call (the executor's queue is  *)
(* FIFO).  Workers keep taking calls while the loop runs and while         *)
(* shutdown(wait=True) waits for pending work.                             *)
(***************************************************************************)
Dispatch(t) ==
  /\ phase # "exited"
  /\ pc[t] = "queued"
  /\ \A u \in Tasks : u < t => pc[u] # "queued"
  /\ Cardinality(Busy) < Workers
  /\ pc' = [pc EXCEPT ![t] = "sim"]
  /\ UNCHANGED <<phase, status, total, counter, seedOf, config, persistence,
                 target, cursor, handled, data, faults>>

\* ns2.run (exit status # 0 raises RuntimeError), then QueueTrace.parse.
RunSimulator(t) ==
  /\ pc[t] = "sim"
  /\ \/ /\ pc' = [pc EXCEPT ![t] = "trace"]
        /\ cursor' = [cursor EXCEPT ![t] = 1]
        /\ UNCHANGED faults
     \/ /\ faults < MaxFaults
        /\ faults' = faults + 1
        /\ pc' = [pc EXCEPT ![t] = "err"]
        /\ UNCHANGED cursor
  /\ UNCHANGED <<phase, status, total, counter, seedOf, config, persistence,
                 target, handled, data>>

\* Mutant: the loop stops one trace early.
LastTraceEarly(i) == i + 1 >= Len(config)

\* Whether the `for trace in config.trace` loop ends after trace i.
LastTrace(i) == i = Len(config)

(***************************************************************************)
(* One iteration of the trace loop: parse (or generate_stats), then        *)
(* trace.save through the worker's PERSISTENCE.  The parse may raise       *)
(* (a malformed tcp_rtt line, a missing trace file); the save may raise    *)
(* from any backend the chain reaches.                                     *)
(***************************************************************************)
ProcessTrace(t) ==
  /\ pc[t] = "trace"
  /\ LET i == cursor[t]
         tr == config[i]
     IN \/ /\ faults < MaxFaults
           /\ faults' = faults + 1
           /\ pc' = [pc EXCEPT ![t] = "err"]
           /\ UNCHANGED <<data, cursor>>
        \/ \E failing \in SUBSET ToSet(target) :
             /\ failing # {} => faults < MaxFaults
             /\ faults' = faults + (IF failing = {} THEN 0 ELSE 1)
             /\ LET r == ChainSave(data, target, tr, seedOf[t], t, failing) IN
                  /\ data' = r.store
                  /\ pc' = [pc EXCEPT ![t] = CASE r.status # "ok" -> "err"
                                                [] LastTrace(i)    -> "ok"
                                                [] OTHER           -> "trace"]
                  /\ cursor' = [cursor EXCEPT ![t] = i + 1]
  /\ UNCHANGED <<phase, status, total, counter, seedOf, config, persistence,
                 target, handled>>

(***************************************************************************)
(* run_codel resumes after its await.  A result increments COUNTER; an     *)
(* exception propagates out of gather, and run_until_complete stops the    *)
(* loop once the callbacks already scheduled have run, so other finished   *)
(* tasks may still be resumed in the meantime.                             *)
(***************************************************************************)
\* Mutant: gather(return_exceptions=True): a failed run is collected like a
\* result, uncounted, and the loop goes on.
HandleReturnExceptions(t) ==
  /\ phase \in {"loop", "failing"}
  /\ t \notin handled
  /\ pc[t] \in Finished
  /\ handled' = handled \cup {t}
  /\ IF pc[t] = "ok" THEN counter' = counter + 1 ELSE UNCHANGED counter
  /\ UNCHANGED <<phase, status, total, seedOf, config, persistence, target, pc,
                 cursor, data, faults>>

Handle(t) ==
  /\ phase \in {"loop", "failing"}
  /\ t \notin handled
  /\ pc[t] \in Finished
  /\ handled' = handled \cup {t}
  /\ IF pc[t] = "ok"
       THEN counter' = counter + 1 /\ UNCHANGED phase
       ELSE phase' = "failing" /\ UNCHANGED counter
  /\ UNCHANGED <<status, total, seedOf, config, persistence, target, pc, cursor,
                 data, faults>>

\* run_until_complete returns (every task done) or raises; finally: shutdown().
StopLoop ==
  /\ \/ phase = "failing" /\ status' = "error"
     \/ phase = "loop" /\ handled = Tasks /\ status' = "ok"
  /\ phase' = "shutdown"
  /\ UNCHANGED <<total, counter, seedOf, config, persistence, target, pc,
                 cursor, handled, data, faults>>

\* shutdown(wait=True) returns once no call is pending or running.
ShutdownDone ==
  /\ phase = "shutdown"
  /\ \A t \in Tasks : pc[t] \in Finished
  /\ phase' = "exited"
  /\ UNCHANGED <<status, total, counter, seedOf, config, persistence, target,
                 pc, cursor, handled, data, faults>>

\* The process has exited.
Terminated == phase = "exited" /\ UNCHANGED vars

Next ==
  \/ \E t \in Tasks : Dispatch(t) \/ RunSimulator(t) \/ ProcessTrace(t) \/ Handle(t)
  \/ StopLoop
  \/ ShutdownDone
  \/ Terminated

(***************************************************************************)
(* Worker processes and the event loop are scheduled by the OS: a step     *)
(* that stays enabled is eventually taken.                                 *)
(***************************************************************************)
Fairness ==
  /\ WF_vars(\E t \in Tasks : Dispatch(t))
  /\ WF_vars(\E t \in Tasks : RunSimulator(t))
  /\ WF_vars(\E t \in Tasks : ProcessTrace(t))
  /\ WF_vars(\E t \in Tasks : Handle(t))
  /\ WF_vars(StopLoop)
  /\ WF_vars(ShutdownDone)

Spec == Init /\ [][Next]_vars /\ Fairness

-----------------------------------------------------------------------------
TypeOK ==
  /\ phase \in {"loop", "failing", "shutdown", "exited"}
  /\ status \in {"none", "ok", "error", "usage"}
  /\ total \in Nat /\ counter \in 0..total
  /\ Tasks = 1..total
  /\ seedOf \in [Tasks -> Seeds]
  /\ pc \in [Tasks -> {"queued", "sim", "trace"} \cup Finished]
  /\ cursor \in [Tasks -> 0..Len(config) + 1]
  /\ handled \subseteq Tasks
  /\ data \in [Backends -> [Keys -> {NoValue, Torn} \cup Nat]]
  /\ faults \in 0..MaxFaults

\* The traces task t saved, read back as Trace.load reads them.
SavedAll(t) ==
  \A i \in 1..Len(config) :
    TraceLoad(data, target, config[i], seedOf[t]) = Ok(t)

(***************************************************************************)
(* A run the progress counter counted has every requested trace readable  *)
(* through the persistence it saved to, holding that run's value: the     *)
(* counter in run_codel never runs ahead of the worker's saves.           *)
(***************************************************************************)
CountedRunsPersisted ==
  \A t \in handled : pc[t] = "ok" => SavedAll(t)

(***************************************************************************)
(* No persisted (trace, seed) key is overwritten during a batch: the seeds *)
(* `seed or (run_id + 1)` gives the tasks of one invocation are distinct,  *)
(* because an explicit --seed forces num_runs to 1.                        *)
(***************************************************************************)
NoKeyWrittenTwice ==
  [][\A b \in Backends, k \in Keys :
       data[b][k] # NoValue => data'[b][k] = data[b][k]]_data

\* The seeds for which some backend holds trace tr.
PersistedSeeds(tr) == {s \in Seeds : \E b \in Backends : data[b][<<tr, s>>] # NoValue}

\* Trace.load_all_seeds either fails loudly or yields every persisted seed.
AllSeedsOrLoud(tr) ==
  LET r == LoadAllSeeds(data, target, tr) IN
  r.status # "ok" \/ PersistedSeeds(tr) \subseteq r.seeds

(***************************************************************************)
(* After a batch that ended without error, the analysis side               *)
(* (load_all_seeds, as helpers.load_stats_for uses it) sees every seed the *)
(* batch persisted, or raises NoDataError; it never silently drops one.    *)
(***************************************************************************)
SuccessfulBatchVisible ==
  phase = "exited" /\ status = "ok" => \A i \in 1..Len(config) : AllSeedsOrLoud(config[i])

(***************************************************************************)
(* A batch that passed the flag checks always ends with the process       *)
(* exiting, and run() ends without an exception exactly when every run of *)
(* the batch returned: no failed run is hidden by the runs gather already  *)
(* counted, and none is reported for a batch whose runs all succeeded.    *)
(* It needs the executor to keep dispatching while shutdown() waits, and  *)
(* gather to propagate the first exception.                               *)
(***************************************************************************)
BatchExitsWithItsOutcome ==
  <>(/\ phase = "exited"
     /\ status # "usage" => (status = "ok" <=> \A t \in Tasks : pc[t] = "ok"))

-----------------------------------------------------------------------------
(* Statements of spec.md that the code does not keep; runs expect them    *)
(* violated.                                                               *)

(***************************************************************************)
(* spec.md 5: a simulator failure "aborts the whole batch".  Stated as:    *)
(* once the event loop has seen a failed run, no further run starts.      *)
(***************************************************************************)
NoRunStartsAfterAbort ==
  [][(phase \in {"failing", "shutdown"}) =>
       (\A t \in Tasks : ~(pc[t] = "queued" /\ pc'[t] = "sim"))]_<<phase, pc>>

(***************************************************************************)
(* Traces land only in the backends run() configured (--trace-db,         *)
(* --trace-dir or the default chain).                                      *)
(***************************************************************************)
PersistedWhereConfigured ==
  \A b \in Backends \ ToSet(persistence) : \A k \in Keys : data[b][k] = NoValue

=============================================================================
