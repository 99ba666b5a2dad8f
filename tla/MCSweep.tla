------------------------------- MODULE MCSweep -------------------------------
(* Sweep instantiated for TLC: the scenarios are the ones run() builds from *)
(* a handful of command lines (through Cli), the store is the default      *)
(* PERSISTENCE chain, and a notebook sweeps a scenario with a greedy FTP   *)
(* with the bandwidth, web and ftp mods.                                   *)
EXTENDS Sweep

CONSTANTS SqlTestik, DirTraces

C == INSTANCE Cli WITH flags <- None, phase <- None, ns2 <- None, outcome <- None,
                       Flags <- {}

\* A variant string flag, split at '-' into (letters, rest) pieces.
P(letters, rest) == <<letters, rest>>

MCIntDomain == {0, 1, 2, 5, 10, 100, 300, 10000000}
MCIntervalDomain == {1, 5, 10, 20, 100}
MCFloatDomain == {<<"0.1">>, <<"0.9">>, <<"1.0">>, <<"100.0">>}

\* The command line with every flag at its default, except --reward power.
DefaultFlags ==
  [num_ftps |-> 1, greedy_ftp |-> FALSE, ftp_start_time |-> 0, file_size |-> 10000000,
   web_rate |-> 0, web_start_time |-> 0, num_cbrs |-> 0, cbr_rate |-> "0.064Mb",
   cbr_packet_size |-> 100, bottleneck |-> "10Mb", access_delay |-> 20,
   bottleneck_delay |-> 10, duration |-> 300, learning_start_time |-> 0,
   reward |-> "power", reward_min_delay |-> None, reward_max_delay |-> None,
   reward_min_bw_fraction |-> <<"0.1">>, reward_max_bw_fraction |-> <<"0.9">>,
   reward_delta |-> <<"1.0">>, reward_delay_scale |-> <<"100.0">>,
   learning_algorithm |-> <<P("ucb", "")>>,
   learning_interval_selector |-> <<P("fixed", ""), P("i", "100ms")>>,
   algo |-> <<<<P("sfqcodel", ""), P("i", "100ms"), P("t", "5ms")>>>>]

Built(f) == C!BuildNS2(f, C!BuildReward(f).value).value

\* The default command line with --greedy-ftp as the base; batches run with
\* it, with --web-rate 1 added, and with --num-ftps 0 (no FTP, so not greedy).
GreedyFlags == [DefaultFlags EXCEPT !.greedy_ftp = TRUE]
MCBases == {Built(GreedyFlags)}
MCCliRuns == {Built(GreedyFlags),
              Built([GreedyFlags EXCEPT !.web_rate = 1]),
              Built([DefaultFlags EXCEPT !.num_ftps = 0])}

\* Two learning algorithms that differ only in --learning-algorithm's tl.
SrCliRuns == {Built([DefaultFlags EXCEPT !.learning_algorithm = <<P("sr", ""), P("tl", "5")>>]),
              Built([DefaultFlags EXCEPT !.learning_algorithm = <<P("sr", ""), P("tl", "10")>>])}
SrBases == {Built([DefaultFlags EXCEPT !.learning_algorithm = <<P("sr", ""), P("tl", "5")>>])}

MCXs == [bw |-> <<10, 20>>, web |-> <<0, 1>>, ftp |-> <<0, 1>>]
SrXs == [bw |-> <<10>>]

MCChain == <<SqlTestik, DirTraces>>

\* The trace paths of every scenario a batch runs or a sweep visits.
MCPaths == {TracePath(s, t) : s \in Visited, t \in {"stats", "tcp_rtt", "web"}}

\* The same, with the learning trace the reward chart loads.
LearningPaths == {TracePath(s, t) : s \in Visited, t \in {"stats", "tcp_rtt", "web", "learning"}}
=============================================================================
