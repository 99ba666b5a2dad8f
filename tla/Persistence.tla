---------------------------- MODULE Persistence ----------------------------
(***************************************************************************)
(* The trace persistence layer of tracing/traces.py: the directory and     *)
(* SQLite backends, the SequencePersistence chain, Trace.load and the      *)
(* generator Trace.load_all_seeds.                                         *)
(*                                                                         *)
(* A store is a function from backend to a function from key to the value  *)
(* kept there.  A key is <<trace path, seed>>.  Values are abstract: a     *)
(* model uses them to tell which run wrote a key.  Calls return records    *)
(* [status |-> ..., value |-> ...]; status "ok" or the exception raised:   *)
(*   "PersistenceError"  tracing.PersistenceError                          *)
(*   "NoDataError"       tracing.NoDataError                               *)
(*   "RawError"          any other exception (sqlite3.Error, OSError,      *)
(*                       ValueError), which no except clause catches.      *)
(***************************************************************************)
EXTENDS Naturals, Sequences

CONSTANTS
  SqlBackends,   \* SQLPersistence instances, one per database file
  DirBackends,   \* TraceDirPersistence instances, one per root directory
  Paths,         \* trace paths "<fingerprint>.<trace name>"
  MaxSeed,       \* seeds persisted lie in 0..MaxSeed
  NoValue,       \* no row / no file for the key
  Torn           \* a .npy file cut short by a crash during np.save

ASSUME SqlBackends \cap DirBackends = {}
ASSUME MaxSeed \in Nat

Backends == SqlBackends \cup DirBackends
Seeds == 0..MaxSeed
Keys == Paths \X Seeds

Ok(v) == [status |-> "ok", value |-> v]
Err(e) == [status |-> e, value |-> NoValue]

EmptyStore == [b \in Backends |-> [k \in Keys |-> NoValue]]

\* The value a backend holds for <<p, s>>; seeds past the bound hold nothing.
Stored(store, b, p, s) == IF s \in Seeds THEN store[b][<<p, s>>] ELSE NoValue

(***************************************************************************)
(* TraceDirPersistence.load: np.load of <root>/<path>/<seed>.npy; OSError  *)
(* (no such file) becomes PersistenceError, but the ValueError np.load     *)
(* raises on a truncated file is not an OSError and escapes.               *)
(***************************************************************************)
DirLoad(store, b, p, s) ==
  LET v == Stored(store, b, p, s) IN
  CASE v = NoValue -> Err("PersistenceError")
    [] v = Torn    -> Err("RawError")
    [] OTHER       -> Ok(v)

\* SQLPersistence.load: select the row for (path, seed); none is PersistenceError.
SqlLoad(store, b, p, s) ==
  LET v == Stored(store, b, p, s) IN
  IF v = NoValue THEN Err("PersistenceError") ELSE Ok(v)

(***************************************************************************)
(* SequencePersistence.load: try each backend in order, skip one that      *)
(* raises PersistenceError, return the first result; any other exception   *)
(* propagates at once.  A lone backend behaves as a chain of one.          *)
(***************************************************************************)
\* Mutant: `except Exception` in place of `except PersistenceError`.
RECURSIVE ChainLoadAnyError(_, _, _, _)
ChainLoadAnyError(store, chain, p, s) ==
  IF chain = <<>> THEN Err("PersistenceError")
  ELSE LET b == Head(chain)
           r == IF b \in SqlBackends THEN SqlLoad(store, b, p, s)
                                     ELSE DirLoad(store, b, p, s)
       IN
       IF r.status # "ok" THEN ChainLoadAnyError(store, Tail(chain), p, s)
                          ELSE r

RECURSIVE ChainLoad(_, _, _, _)
ChainLoad(store, chain, p, s) ==
  IF chain = <<>> THEN Err("PersistenceError")
  ELSE LET b == Head(chain)
           r == IF b \in SqlBackends THEN SqlLoad(store, b, p, s)
                                     ELSE DirLoad(store, b, p, s)
       IN
       IF r.status = "PersistenceError" THEN ChainLoad(store, Tail(chain), p, s)
                                        ELSE r

(***************************************************************************)
(* `failing` is the set of backends whose save raises this time.  Neither  *)
(* save raises PersistenceError.                                           *)
(*                                                                         *)
(* TraceDirPersistence.save: makedirs, then np.save of <seed>.npy; an      *)
(* OSError (disk full, permissions) escapes.                               *)
(***************************************************************************)
DirSave(store, b, p, s, v, failing) ==
  IF b \in failing THEN [status |-> "RawError", store |-> store]
  ELSE [status |-> "ok", store |-> [store EXCEPT ![b][<<p, s>>] = v]]

(***************************************************************************)
(* SQLPersistence.save: an upsert committed in one transaction, so a row  *)
(* is never half written; sqlite3.OperationalError ("database is locked"  *)
(* when another worker holds the write lock too long) escapes.            *)
(***************************************************************************)
SqlSave(store, b, p, s, v, failing) ==
  IF b \in failing THEN [status |-> "RawError", store |-> store]
  ELSE [status |-> "ok", store |-> [store EXCEPT ![b][<<p, s>>] = v]]

(***************************************************************************)
(* SequencePersistence.save: the first backend whose save returns wins;    *)
(* only PersistenceError moves on to the next one.                         *)
(***************************************************************************)
RECURSIVE ChainSave(_, _, _, _, _, _)
ChainSave(store, chain, p, s, v, failing) ==
  IF chain = <<>> THEN [status |-> "PersistenceError", store |-> store]
  ELSE LET b == Head(chain)
           r == IF b \in SqlBackends THEN SqlSave(store, b, p, s, v, failing)
                                     ELSE DirSave(store, b, p, s, v, failing)
       IN
       IF r.status = "PersistenceError"
         THEN ChainSave(r.store, Tail(chain), p, s, v, failing)
         ELSE r

\* Trace.load: PersistenceError from the persistence becomes NoDataError.
TraceLoad(store, chain, p, s) ==
  LET r == ChainLoad(store, chain, p, s) IN
  IF r.status = "PersistenceError" THEN Err("NoDataError") ELSE r

(***************************************************************************)
(* Trace.load_all_seeds: for seed in count(1), yield Trace.load; on        *)
(* NoDataError re-raise at seed 1, stop quietly at any later seed.  The    *)
(* result is the status the caller sees and the seeds yielded before it.   *)
(***************************************************************************)
RECURSIVE LoadSeedsFrom(_, _, _, _, _)
LoadSeedsFrom(store, chain, p, s, yielded) ==
  LET r == TraceLoad(store, chain, p, s) IN
  CASE r.status = "ok"                    -> LoadSeedsFrom(store, chain, p, s + 1,
                                                           yielded \cup {s})
    [] r.status = "NoDataError" /\ s = 1 -> [status |-> "NoDataError", seeds |-> yielded]
    [] r.status = "NoDataError"          -> [status |-> "ok", seeds |-> yielded]
    [] OTHER                             -> [status |-> r.status, seeds |-> yielded]

LoadAllSeeds(store, chain, p) == LoadSeedsFrom(store, chain, p, 1, {})

=============================================================================
