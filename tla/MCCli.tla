------------------------------- MODULE MCCli -------------------------------
EXTENDS Cli

\* A variant string flag, split at '-' into (letters, rest) pieces.
P(letters, rest) == <<letters, rest>>

MCIntDomain == 0..2 \cup {5, 100, 300, 10000000}
MCIntervalDomain == {1, 5, 10, 20, 100}
MCFloatDomain == {<<"0.1">>, <<"0.9">>, <<"1.0">>, <<"100.0">>, <<"0.5">>, <<"5.0">>,
                  <<"15.0">>, <<"0.002">>, <<"1e", "05">>}

\* --learning-algorithm values
LearningFlags == {<<P("ucb", "")>>, <<P("sr", ""), P("tl", "5")>>,
                  <<P("exp", "_unif"), P("tl", "5")>>, <<P("sr", "")>>}
\* --learning-interval-selector values
SelectorFlags == {<<P("fixed", ""), P("i", "100ms")>>,
                  <<P("fixed", ""), P("i", "100ms"), P("nsi", "2")>>,
                  <<P("binary", ""), P("i", "100ms"), P("mins", "5"), P("minth", "0.5")>>}
\* --algo values (one each)
AlgoFlags == {<<<<P("codel", ""), P("i", "100ms"), P("t", "5ms")>>>>,
              <<<<P("sfqcodel", ""), P("i", "100ms"), P("t", "5ms")>>>>,
              <<<<P("sfq", "")>>>>,
              <<<<P("red", ""), P("minth", "5.0"), P("maxth", "15.0"), P("w", "0.002"), P("p", "0.1")>>>>}

MCFlags ==
  [num_ftps : {0, 1}, greedy_ftp : BOOLEAN, ftp_start_time : {0}, file_size : {10000000},
   web_rate : {0, 1}, web_start_time : {0}, num_cbrs : {0, 1}, cbr_rate : {"0.064Mb"},
   cbr_packet_size : {100}, bottleneck : {"10Mb"}, access_delay : {20}, bottleneck_delay : {10},
   duration : {300}, learning_start_time : {0},
   reward : {"throughput", "delay", "power"}, reward_min_delay : {None, 20},
   reward_max_delay : {None}, reward_min_bw_fraction : {<<"0.1">>},
   reward_max_bw_fraction : {<<"0.9">>}, reward_delta : {<<"1.0">>},
   reward_delay_scale : {<<"100.0">>},
   learning_algorithm : LearningFlags, learning_interval_selector : SelectorFlags,
   algo : AlgoFlags]
=============================================================================
