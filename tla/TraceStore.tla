----------------------------- MODULE TraceStore -----------------------------
(***************************************************************************)
(* The trace store as a sequence of run_codel.py invocations shares it:   *)
(* each invocation saves through the persistence run() configured          *)
(* (--trace-db, --trace-dir or the module-level default chain), worker     *)
(* processes may be killed in the middle of np.save, and the analysis      *)
(* side always reads through the module-level default run_codel.PERSISTENCE.*)
(*                                                                         *)
(* A save through a chain stops at its first backend: neither backend's   *)
(* save raises PersistenceError.  An SQLite upsert is one committed        *)
(* transaction, so a killed worker leaves no trace of it.  np.save first   *)
(* truncates <seed>.npy and then writes it, so the file is unreadable      *)
(* while the write is in progress and stays so if the worker dies.        *)
(*                                                                         *)
(* One writer per key at a time: spec.md 5 rules out two runs producing    *)
(* the same scenario and seed at once in normal use.                       *)
(***************************************************************************)
EXTENDS Persistence, FiniteSets

CONSTANTS
  DefaultChain,  \* run_codel.PERSISTENCE at import: SQL testik.db, dir traces
  TraceDbs,      \* databases a --trace-db flag may name
  TraceDirs,     \* directories a --trace-dir flag may name
  Vals,          \* values a run saves (one per run and trace)
  MaxWrites,     \* bound on saves started
  MaxCrashes     \* bound on workers killed in the middle of np.save

ASSUME TraceDbs \subseteq SqlBackends /\ TraceDirs \subseteq DirBackends
ASSUME MaxWrites \in Nat /\ MaxCrashes \in Nat

VARIABLES
  store,    \* what every backend holds
  writing,  \* np.save calls in progress: <<directory, key, value>>
  last,     \* the latest completed save of each key into a backend of the
            \* default chain, testik.db or traces
  writes,   \* saves started
  crashes   \* workers killed mid-save

vars == <<store, writing, last, writes, crashes>>

\* Runs save seeds 1, 2, ...: `seed or (run_id + 1)`.
SavedKeys == Paths \X (1..MaxSeed)

\* run(): --trace-db selects an SQLPersistence, --trace-dir a
\* TraceDirPersistence, neither keeps the default chain.
Targets == {DefaultChain} \cup {<<b>> : b \in TraceDbs \cup TraceDirs}

\* A directory write of key k in progress.
Writing(k) == \E w \in writing : w[2] = k

(***************************************************************************)
(* What Trace.load through run_codel.PERSISTENCE gives the analysis: the   *)
(* value, NoValue for NoDataError, Torn for any other exception.          *)
(***************************************************************************)
Visible(k) ==
  LET r == TraceLoad(store, DefaultChain, k[1], k[2]) IN
  CASE r.status = "ok"          -> r.value
    [] r.status = "NoDataError" -> NoValue
    [] OTHER                    -> Torn

\* The ghost `last` records a completed save of v under k into backend b.
Record(b, k, v) ==
  last' = IF \E i \in DOMAIN DefaultChain : DefaultChain[i] = b
            THEN [last EXCEPT ![k] = v] ELSE last

Init ==
  /\ store = EmptyStore
  /\ writing = {}
  /\ last = [k \in SavedKeys |-> NoValue]
  /\ writes = 0
  /\ crashes = 0

\* Trace.save through a chain whose first backend is SQLite: the upsert.
SaveSql(c, k, v) ==
  /\ writes < MaxWrites
  /\ Head(c) \in SqlBackends
  /\ ~Writing(k)
  /\ store' = ChainSave(store, c, k[1], k[2], v, {}).store
  /\ Record(Head(c), k, v)
  /\ writes' = writes + 1
  /\ UNCHANGED <<writing, crashes>>

\* Trace.save through a chain whose first backend is a directory: makedirs,
\* then np.save opens <seed>.npy for writing, truncating it.
BeginDirSave(c, k, v) ==
  /\ writes < MaxWrites
  /\ Head(c) \in DirBackends
  /\ ~Writing(k)
  /\ store' = [store EXCEPT ![Head(c)][k] = Torn]
  /\ writing' = writing \cup {<<Head(c), k, v>>}
  /\ writes' = writes + 1
  /\ UNCHANGED <<last, crashes>>

\* np.save has written the whole array and closed the file.
FinishDirSave(w) ==
  /\ store' = DirSave(store, w[1], w[2][1], w[2][2], w[3], {}).store
  /\ writing' = writing \ {w}
  /\ Record(w[1], w[2], w[3])
  /\ UNCHANGED <<writes, crashes>>

\* The worker is killed (kill, OOM, power loss) inside np.save.
Crash(w) ==
  /\ crashes < MaxCrashes
  /\ writing' = writing \ {w}
  /\ crashes' = crashes + 1
  /\ UNCHANGED <<store, last, writes>>

Next ==
  \/ \E c \in Targets, k \in SavedKeys, v \in Vals :
       SaveSql(c, k, v) \/ BeginDirSave(c, k, v)
  \/ \E w \in writing : FinishDirSave(w) \/ Crash(w)

Spec == Init /\ [][Next]_vars

-----------------------------------------------------------------------------
(***************************************************************************)
(* The analysis' view of the store, key by key, as the abstract store of   *)
(* KVStore: a torn .npy file is its Corrupt.                               *)
(***************************************************************************)
View == [k \in SavedKeys |-> Visible(k)]

Abs == INSTANCE KVStore WITH Keys <- SavedKeys, Corrupt <- Torn, kv <- View

(***************************************************************************)
(* Whatever the invocations and their flags, and whichever worker is      *)
(* killed mid np.save, every step changes what Trace.load through the      *)
(* default chain returns for at most one key, to a value a run saved or to *)
(* an error other than NoDataError; a key that has data never falls back   *)
(* to NoDataError.                                                         *)
(***************************************************************************)
AnalysisViewRefinesKV == Abs!Spec

(***************************************************************************)
(* spec.md 4.2 and 5: the analysis reads back what runs persisted, last    *)
(* write wins.  Stated as: once no save of k is in progress, Trace.load    *)
(* through run_codel.PERSISTENCE returns the latest completed save of k    *)
(* into testik.db or traces, whichever flags the saving invocation had.    *)
(***************************************************************************)
LastWriteVisible ==
  \A k \in SavedKeys : last[k] # NoValue /\ ~Writing(k) => Visible(k) = last[k]
=============================================================================
