------------------------------ MODULE MCBatch ------------------------------
(* Batch instantiated for TLC: two SQLite files and two trace directories, *)
(* the flags that steer the number of runs, the seeds, the traces and the  *)
(* persistence choice.                                                     *)
EXTENDS Batch

CONSTANTS SqlTestik, SqlOther, DirTraces, DirOther

MCSqlBackends == {SqlTestik, SqlOther}
MCDirBackends == {DirTraces, DirOther}
MCDefaultChain == <<SqlTestik, DirTraces>>
MCPaths == {"stats", "tcp_rtt", "web", "reward"}

\* --num-runs 1 or 3, --start-run 0 or 1, --seed absent, 0 or 2, --nam,
\* the --trace lists, --web-rate, --reward, --trace-db and --trace-dir.
MCFlags ==
  [num_runs : {1, 3}, start_run : {0, 1}, seed : {None, 0, 2}, nam : BOOLEAN,
   trace : {<<"stats">>, <<"stats", "tcp_rtt">>, <<"web">>, <<"reward">>},
   web_rate : {0, 1}, reward : {"throughput", "power"},
   trace_db : {None, SqlOther}, trace_dir : {None, DirOther}]
=============================================================================
