------------------------------ MODULE KVStore ------------------------------
(***************************************************************************)
(* What the analysis side (plotting.py, tracing/helpers.py) may observe of *)
(* the trace store through run_codel.PERSISTENCE: for each (trace path,    *)
(* seed) key, no data, a value some run saved, or a file it cannot read.   *)
(*                                                                         *)
(* The promise is the one spec.md 4.2 makes of the persistence layer: a    *)
(* key changes only when a run saves it, one key at a time, and a key that *)
(* has data never reads as "no data" again.                                *)
(***************************************************************************)
CONSTANTS
  Keys,      \* the (trace path, seed) keys runs save
  Vals,      \* the values runs save
  NoValue,   \* Trace.load raises NoDataError
  Corrupt    \* Trace.load raises something other than NoDataError

VARIABLE kv

TypeOK == kv \in [Keys -> Vals \cup {NoValue, Corrupt}]

Init == kv = [k \in Keys |-> NoValue]

\* A save of v under k becomes what a load returns.
Put(k, v) == kv' = [kv EXCEPT ![k] = v]

\* A save of k that has not completed leaves k unreadable.
Tear(k) == kv' = [kv EXCEPT ![k] = Corrupt]

Next == \E k \in Keys : Tear(k) \/ \E v \in Vals : Put(k, v)

Spec == Init /\ [][Next]_kv
=============================================================================
