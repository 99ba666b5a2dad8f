-------------------------------- MODULE Cli --------------------------------
(***************************************************************************)
(* How run() in run_codel.py turns its flags into a scenario (the reward   *)
(* defaults, the constructors, the registries' from_string) and how        *)
(* NS2.run launches it.  A string flag naming a variant is given as the    *)
(* pieces it splits into (see Scenario).                                   *)
(***************************************************************************)
EXTENDS Scenario

CONSTANTS Flags   \* the flag records an invocation may be given

VARIABLES
  flags,     \* the invocation's flags
  phase,     \* "building", "built", "exited" (an exception), "launched"
  ns2,       \* the scenario run() built, or None
  outcome    \* the exception that ended run(), or what NS2.run returned

vars == <<flags, phase, ns2, outcome>>

\* run(): the reward, with the defaults of its kind.
BuildReward(f) ==
  CASE f.reward = "throughput" ->
         LET maxd == IF f.reward_max_delay = None THEN 10 ELSE f.reward_max_delay
             mind == IF f.reward_min_delay = None THEN maxd ELSE f.reward_min_delay
         IN MakeThroughputReward(mind, maxd)
    [] f.reward = "delay" -> Returns([kind |-> "del", delay_scale |-> f.reward_delay_scale])
    [] f.reward = "power" ->
         Returns([kind |-> "pow", min_bw_fraction |-> f.reward_min_bw_fraction,
                  max_bw_fraction |-> f.reward_max_bw_fraction,
                  min_delay |-> IF f.reward_min_delay = None THEN 1 ELSE f.reward_min_delay,
                  max_delay |-> IF f.reward_max_delay = None THEN 100 ELSE f.reward_max_delay,
                  delta |-> f.reward_delta])

(***************************************************************************)
(* run(): codel.NS2(...).  Python evaluates the arguments in order, so the *)
(* first of FTPParams, the learning algorithm, the interval selector and   *)
(* the --algo variants to raise is what run() raises.                      *)
(***************************************************************************)
BuildNS2(f, reward) ==
  LET ftp == MakeFTPParams(f.num_ftps, f.ftp_start_time, f.file_size, f.greedy_ftp, 0)
      algo == FromString(AlgoNames, f.learning_algorithm)
      sel == FromString(SelectorNames, f.learning_interval_selector)
      qms == [i \in DOMAIN f.algo |-> FromString(QueueNames, f.algo[i])]
      steps == <<ftp, algo, sel>> \o qms
      failed == {i \in DOMAIN steps : steps[i].status # "ok"}
  IN IF failed # {} THEN steps[Min(failed)]
     ELSE Returns([ftp |-> ftp.value,
                   web |-> [rate |-> f.web_rate, start_time |-> f.web_start_time],
                   cbr |-> [num |-> f.num_cbrs, rate |-> f.cbr_rate, packet_size |-> f.cbr_packet_size],
                   delay |-> [access |-> f.access_delay, bottleneck |-> f.bottleneck_delay],
                   learning |-> [start_time |-> f.learning_start_time, algo |-> algo.value,
                                 interval_selector |-> sel.value, reward |-> reward],
                   duration |-> f.duration,
                   algorithms |-> [i \in DOMAIN qms |-> qms[i].value],
                   bottleneck |-> [rate |-> f.bottleneck, dynamic |-> FALSE]])

Init ==
  /\ flags \in Flags
  /\ phase = "building"
  /\ ns2 = None
  /\ outcome = None

\* run() up to the scenario; an exception ends the process.
Build ==
  /\ phase = "building"
  /\ LET r == BuildReward(flags)
         n == BuildNS2(flags, r.value)
     IN IF r.status # "ok" THEN phase' = "exited" /\ outcome' = r /\ UNCHANGED ns2
        ELSE IF n.status # "ok" THEN phase' = "exited" /\ outcome' = n /\ UNCHANGED ns2
        ELSE phase' = "built" /\ ns2' = n.value /\ UNCHANGED outcome
  /\ UNCHANGED flags

\* Mutant: subprocess.run(..., check=True), whose CalledProcessError
\* replaces the RuntimeError.
LaunchCheckTrue ==
  /\ phase = "built"
  /\ \E rc \in {0, 1} :
       LET a == SimArgs(ns2) IN
       outcome' = IF a.status = "ok" /\ rc # 0 THEN Raises("CalledProcessError") ELSE a
  /\ phase' = "launched"
  /\ UNCHANGED <<flags, ns2>>

\* NS2.run: build the arguments, run the simulator; a non-zero exit code
\* is RuntimeError.
Launch ==
  /\ phase = "built"
  /\ \E rc \in {0, 1} :
       LET a == SimArgs(ns2) IN
       outcome' = IF a.status = "ok" /\ rc # 0 THEN Raises("RuntimeError") ELSE a
  /\ phase' = "launched"
  /\ UNCHANGED <<flags, ns2>>

Terminated == phase \in {"exited", "launched"} /\ UNCHANGED vars

Next == Build \/ Launch \/ Terminated

Spec == Init /\ [][Next]_vars /\ WF_vars(Build) /\ WF_vars(Launch)

-----------------------------------------------------------------------------
TypeOK ==
  /\ phase \in {"building", "built", "exited", "launched"}
  /\ phase \in {"built", "launched"} => IsNS2(ns2)
  /\ phase \in {"exited", "launched"} => outcome.status \in
       {"ok", "ValueError", "KeyError", "AssertionError", "AttributeError", "RuntimeError"}

Built == phase \in {"built", "launched"}

(***************************************************************************)
(* get_node_type / get_snd_recv_pairs: in every scenario run() builds,     *)
(* each traffic class has exactly one sender/receiver pair per source,    *)
(* every pair is an (even, odd) neighbour pair as the simulator script     *)
(* numbers them, and indexing past num_nodes raises.  StatsTrace's         *)
(* per-class masks and plotting's receiver filters rely on this.           *)
(***************************************************************************)
NodeRangesPartition ==
  Built =>
    LET count == [WEB |-> NumWebs(ns2), FTP |-> ns2.ftp.num, CBR |-> ns2.cbr.num] IN
    /\ GetNodes(ns2, "GATEWAY") = <<0, 1>>
    /\ \A t \in DOMAIN count :
         /\ Len(GetSndRecvPairs(ns2, t)) = count[t]
         /\ \A i \in DOMAIN GetSndRecvPairs(ns2, t) :
              LET pr == GetSndRecvPairs(ns2, t)[i] IN pr[1] % 2 = 0 /\ pr[2] = pr[1] + 1
    /\ GetNodeType(ns2, NumNodes(ns2)) = "ValueError"

\* Encoding a variant's short_rep as 'name-key1val1-...' and parsing it
\* with its registry's from_string gives the variant back.
RoundTrips(names, rep, v) == FromString(names, FlattenSeq(rep)) = Returns(v)

(***************************************************************************)
(* The interval selector run() parsed from --learning-interval-selector    *)
(* round-trips through its short_rep (spec.md, test 2).                    *)
(***************************************************************************)
SelectorRoundTrip ==
  Built => RoundTrips(SelectorNames, SelectorRep(ns2.learning.interval_selector),
                      ns2.learning.interval_selector)

(***************************************************************************)
(* A scenario run() accepted reaches the simulator: NS2.run either runs    *)
(* it or reports the simulator's own failure (spec.md 4.1).                *)
(***************************************************************************)
BuiltScenarioLaunches ==
  phase = "launched" => outcome.status \in {"ok", "RuntimeError"}

=============================================================================
