---------------------------- MODULE MCTraceStore ----------------------------
(* TraceStore for TLC: the default chain's testik.db and traces, one more  *)
(* database and directory a flag may name, one trace path, two seeds and   *)
(* two run values.                                                         *)
EXTENDS TraceStore

CONSTANTS SqlTestik, SqlOther, DirTraces, DirOther, V1, V2

MCDefaultChain == <<SqlTestik, DirTraces>>
=============================================================================
