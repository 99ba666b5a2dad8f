------------------------------ MODULE Metrics ------------------------------
(***************************************************************************)
(* The numbers run_codel_process derives from one simulator run: the       *)
(* "stats" trace StatsTrace.generate_stats builds from the parsed queue    *)
(* trace and the simulator's stats file.                                   *)
(*                                                                         *)
(* Data: a number is a rational [num |-> n, den |-> d]; numpy's NaN is     *)
(* 0/0.  Queue-trace delays are integers in the unit the trace uses; the   *)
(* row fields the derivation never reads (ts, dst, id, flow_id) are left   *)
(* out.  ENQUEUE and DROP rows are one kind: generate_stats only tells     *)
(* DEQUEUE rows from the others.                                           *)
(***************************************************************************)
EXTENDS Scenario

CONSTANTS
  Scen,       \* the scenario the run simulates (its web, ftp and cbr counts)
  Seed,       \* the run's seed
  Events,     \* QueueEventKind values a row may carry
  Sizes,      \* packet sizes
  Delays,     \* queueing delays
  Summaries,  \* contents of the stats file: its whitespace-split numbers
  MaxRows,    \* bound on the queue-trace rows of one run
  WebLines,   \* lines of web.tr: flow_id, resp_size, ct in ms
  RttLines,   \* lines of <nodetype>_tcp.tr: ok (matches), fid, dst, del, mindel, tp
  MaxLines    \* bound on the lines of web.tr, and of the tcp files together

ASSUME "DEQUEUE" \in Events /\ MaxRows \in Nat /\ MaxLines \in Nat

VARIABLES
  queue,    \* QueueTrace.parse's rows, in file order
  summary,  \* the stats file's tokens once the simulator has exited, else None
  stats,    \* the StatsTrace row, or None before generate_stats
  phase,    \* "stats" while the run derives stats, "power" once it is saved
  web_lines, \* the lines of web.tr
  rtt_files,    \* the lines of each <nodetype>_tcp.tr
  power     \* load_power's call and per-flow powers for the seed, or None

vars == <<queue, summary, stats, phase, web_lines, rtt_files, power>>

Num(n, d) == [num |-> n, den |-> d]
NaN == Num(0, 0)

SumOf(seq) == FoldLeft(+, 0, seq)

\* Mutant: WEB before FTP.
StatClassesSwapped == <<"WEB", "FTP", "CBR">>

\* codel.NodeType members generate_stats iterates over, in that order.
StatClasses == <<"FTP", "WEB", "CBR">>

\* CodelResult.from_str: four whitespace-split numbers, in field order.
FromStr(tokens) ==
  [drops |-> tokens[1], throughput |-> tokens[2],
   delay_mean |-> Num(tokens[3], 1), delay_var |-> Num(tokens[4], 1)]

\* StatsTrace._get_stats: the DEQUEUE rows the mask selects.
GetStats(q, mask) ==
  LET cur == SelectSeq(q, LAMBDA r : r.event = "DEQUEUE" /\ r.src \in mask)
  IN [departures |-> [i \in DOMAIN cur |-> cur[i].size],
      delays     |-> [i \in DOMAIN cur |-> cur[i].delay]]

\* ndarray.mean
Mean(d) == Num(SumOf(d), Len(d))

Sorted(d) == SortSeq(d, <)

\* np.median: the middle element, or the mean of the two middle elements.
Median(d) ==
  LET a == Sorted(d)  n == Len(a) IN
  IF n % 2 = 1 THEN Num(a[(n + 1) \div 2], 1)
               ELSE Num(a[n \div 2] + a[n \div 2 + 1], 2)

\* np.percentile, linear method: a[lo] + frac * (a[lo + 1] - a[lo]) at the
\* 0-based position (n - 1) * q / 100 = lo + frac.
Percentile(d, q) ==
  LET a == Sorted(d)  n == Len(a)
      lo == ((n - 1) * q) \div 100  r == ((n - 1) * q) % 100
  IN IF r = 0 THEN Num(a[lo + 1], 1)
     ELSE Num(100 * a[lo + 1] + r * (a[lo + 2] - a[lo + 1]), 100)

\* One class's five numbers in th_delay, NaN where there are no delays.
ClassStats(st) ==
  LET d == st.delays  some == Len(d) > 0 IN
  << Num(SumOf(st.departures), 1),
     IF some THEN Mean(d) ELSE NaN,
     IF some THEN Median(d) ELSE NaN,
     IF some THEN Percentile(d, 75) ELSE NaN,
     IF some THEN Percentile(d, 95) ELSE NaN >>

\* StatsTrace.DTYPE's field names, in order.
STATS_DTYPE ==
  << "seed", "all_drops", "all_throughput", "all_delay", "all_delay_var",
     "ftp_throughput", "ftp_delay", "ftp_50_delay", "ftp_75_delay", "ftp_95_delay",
     "web_throughput", "web_delay", "web_50_delay", "web_75_delay", "web_95_delay",
     "cbr_throughput", "cbr_delay", "cbr_50_delay", "cbr_75_delay", "cbr_95_delay" >>

\* np.array(tuple, dtype=DTYPE): the i-th value goes to the i-th field.
ToRow(tuple) == [f \in ToSet(STATS_DTYPE) |->
                   tuple[CHOOSE i \in DOMAIN STATS_DTYPE : STATS_DTYPE[i] = f]]

\* StatsTrace.generate_stats
GenerateStats(s, seed, q, tokens) ==
  LET stats_of(nt) == GetStats(q, ToSet(GetNodes(s, nt)))
      th_delay == FoldLeft(LAMBDA acc, nt : acc \o ClassStats(stats_of(nt)), <<>>, StatClasses)
      result == FromStr(tokens)
  IN ToRow(<< Num(seed, 1), Num(result.drops, 1), Num(result.throughput, 1),
              result.delay_mean, result.delay_var >> \o th_delay)

-----------------------------------------------------------------------------
(***************************************************************************)
(* The per-flow power PowerPlotter.load_power computes for one seed from   *)
(* the web and tcp_rtt traces, with delta = 1 (np.power(x, 1.0) = x).      *)
(***************************************************************************)
\* Rational division; x / 0 is inf (1/0) for x > 0 and NaN for x = 0.
Div(x, y) ==
  LET n == x.num * y.den  d == x.den * y.num IN
  IF d # 0 THEN Num(n, d) ELSE IF n = 0 THEN NaN ELSE Num(1, 0)

\* WebTrace.parse with _fix_ms_to_s: ct is read in ms and stored in s.
\* np.genfromtxt squeezes its result: a file of one line gives a 0-d array.
ParseWeb(lines) ==
  [ndim |-> IF Len(lines) = 1 THEN 0 ELSE 1,
   rows |-> [i \in DOMAIN lines |-> [lines[i] EXCEPT !.ct = Num(lines[i].ct, 1000)]]]

\* codel.NodeType order, the order TCPRTTTrace.parse reads the rtt_files in.
NodeTypes == <<"GATEWAY", "FTP", "WEB", "CBR">>

\* TCPRTTTrace._get_entries_for_node_type: one row per line of
\* <nodetype>_tcp.tr, del and mindel from ms to s, tp from Mbps to bps; a
\* line the pattern does not match raises AssertionError.
RttEntries(nt, lines) ==
  [i \in DOMAIN lines |->
     [node_type |-> nt, flow_id |-> lines[i].fid, dst |-> lines[i].dst,
      rtt |-> Num(lines[i].del, 1000), min_rtt |-> Num(lines[i].mindel, 1000),
      throughput |-> Num(lines[i].tp * 1000000, 1)]]

\* TCPRTTTrace.parse: the rtt_files of every node type, concatenated in order.
ParseRtt(files) ==
  IF \E nt \in DOMAIN files : \E i \in DOMAIN files[nt] : ~files[nt][i].ok
  THEN "AssertionError"
  ELSE FoldLeft(LAMBDA acc, nt : acc \o RttEntries(nt, files[nt]), <<>>, NodeTypes)

\* np.searchsorted(a, v), side left: binary search, a assumed sorted.
RECURSIVE SearchSorted(_, _, _, _)
SearchSorted(a, v, lo, hi) ==
  IF lo >= hi THEN lo
  ELSE LET mid == (lo + hi) \div 2 IN
       IF a[mid + 1] < v THEN SearchSorted(a, v, mid + 1, hi) ELSE SearchSorted(a, v, lo, mid)
SearchSortedLeft(a, v) == SearchSorted(a, v, 0, Len(a))

\* np.bincount(idx, weights): per index 0..max(idx), the summed weights.
BinCount(idx, weights) ==
  LET n == IF idx = <<>> THEN 0 ELSE Max(ToSet(idx)) + 1 IN
  [k \in 1..n |-> SumOf([i \in DOMAIN idx |-> IF idx[i] = k - 1 THEN weights[i] ELSE 0])]

\* _calc_per_flow_time_and_size: ct and resp_size summed per flow of
\* flow_ids (np.in1d, np.searchsorted, np.bincount); ct in ms.
CalcPerFlowTimeAndSize(web, flow_ids) ==
  LET w == SelectSeq(web, LAMBDA r : r.flow_id \in ToSet(flow_ids))
      idx == [i \in DOMAIN w |-> SearchSortedLeft(flow_ids, w[i].flow_id)]
  IN [time_on |-> BinCount(idx, [i \in DOMAIN w |-> w[i].ct.num]),
      response_size |-> BinCount(idx, [i \in DOMAIN w |-> w[i].resp_size])]

\* _calc_per_flow_throughput: response_size / time_on, time_on in s.
CalcPerFlowThroughput(web, flow_ids) ==
  LET ts == CalcPerFlowTimeAndSize(web, flow_ids) IN
  [k \in DOMAIN ts.time_on |-> Div(Num(ts.response_size[k], 1), Num(ts.time_on[k], 1000))]

\* _apply_use_excess
ApplyUseExcess(row, use_excess_rtt) ==
  IF use_excess_rtt THEN Num(row.rtt.num - row.min_rtt.num, 1000) ELSE row.rtt

\* Mutant: the argsort by flow id left out.
CalcPerFlowRttUnsorted(tcp_rtt, flow_ids, use_excess_rtt) ==
  LET fids == [i \in DOMAIN tcp_rtt |-> tcp_rtt[i].flow_id] IN
  [k \in DOMAIN flow_ids |->
     ApplyUseExcess(tcp_rtt[SearchSortedLeft(fids, flow_ids[k]) + 1], use_excess_rtt)]

\* _calc_per_flow_rtt: sort by flow id, pick each flow's row.
CalcPerFlowRtt(tcp_rtt, flow_ids, use_excess_rtt) ==
  LET sorted == SortSeq(tcp_rtt, LAMBDA x, y : x.flow_id < y.flow_id)
      fids == [i \in DOMAIN sorted |-> sorted[i].flow_id]
  IN [k \in DOMAIN flow_ids |->
        ApplyUseExcess(sorted[SearchSortedLeft(fids, flow_ids[k]) + 1], use_excess_rtt)]

\* _filter_rtt_by_node_type: rows whose dst is a receiver of the class.
FilterRttByNodeType(s, tcp_rtt, nt) ==
  LET receivers == {p[2] : p \in ToSet(GetSndRecvPairs(s, nt))} IN
  SelectSeq(tcp_rtt, LAMBDA r : r.dst \in receivers)

\* _calc_web_power: flows in both traces (np.intersect1d, sorted).
CalcWebPower(s, tcp_rtt, web, use_excess_rtt) ==
  LET web_tcp_rtt == FilterRttByNodeType(s, tcp_rtt, "WEB")
      web_flow_ids == SetToSortSeq({web[i].flow_id : i \in DOMAIN web}
                                   \cap {web_tcp_rtt[i].flow_id : i \in DOMAIN web_tcp_rtt}, <)
      thr == CalcPerFlowThroughput(web, web_flow_ids)
      rtt == CalcPerFlowRtt(web_tcp_rtt, web_flow_ids, use_excess_rtt)
  IN [k \in DOMAIN web_flow_ids |-> Div(thr[k], rtt[k])]

\* _calc_ftp_power
CalcFtpPower(s, tcp_rtt, use_excess_rtt) ==
  LET ftp == FilterRttByNodeType(s, tcp_rtt, "FTP") IN
  [i \in DOMAIN ftp |-> Div(ftp[i].throughput, ApplyUseExcess(ftp[i], use_excess_rtt))]

\* load_power computes web powers for this scenario and node_type.
WebPowerWanted(s, node_type) == s.web.rate > 0 /\ node_type \in {None, "WEB"}

\* _calc_per_flow_time_and_size: web[np.in1d(web['flow_id'], flow_ids)]
\* indexes a 0-d array with a 1-d mask, which raises IndexError.
WebMaskRaises(web) == web.ndim = 0

\* load_power, one seed: the web powers, then the FTP powers.
PerFlowPower(s, tcp_rtt, web, node_type, use_excess_rtt) ==
  (IF WebPowerWanted(s, node_type)
   THEN CalcWebPower(s, tcp_rtt, web.rows, use_excess_rtt) ELSE <<>>)
  \o (IF node_type \in {None, "FTP"} THEN CalcFtpPower(s, tcp_rtt, use_excess_rtt) ELSE <<>>)

-----------------------------------------------------------------------------
Rows == [event : Events, src : 0..NumNodes(Scen) - 1, size : Sizes, delay : Delays]

\* The node types with a TCP agent in the scenario, whose rtt_files may exist.
TcpTypes == {nt \in {"FTP", "WEB"} : GetNodes(Scen, nt) # <<>>}

Init ==
  /\ queue = <<>>
  /\ summary = None
  /\ stats = None
  /\ phase = "stats"
  /\ web_lines = <<>>
  /\ rtt_files = [nt \in ToSet(NodeTypes) |-> <<>>]
  /\ power = None

\* QueueTrace.parse yields the next row of queue.tr.
EmitRow(r) ==
  /\ phase = "stats" /\ summary = None
  /\ Len(queue) < MaxRows
  /\ queue' = Append(queue, r)
  /\ UNCHANGED <<summary, stats, phase, web_lines, rtt_files, power>>

\* StatsTrace._get_result reads the stats file the simulator wrote.
ReadSummary(t) ==
  /\ phase = "stats" /\ summary = None
  /\ summary' = t
  /\ UNCHANGED <<queue, stats, phase, web_lines, rtt_files, power>>

\* run_codel_process: trace_result = trace.generate_stats(...).
Derive ==
  /\ phase = "stats" /\ summary # None /\ stats = None
  /\ stats' = GenerateStats(Scen, Seed, queue, summary)
  /\ UNCHANGED <<queue, summary, phase, web_lines, rtt_files, power>>

\* The stats row is saved; the queue trace is no longer used.
SaveStats ==
  /\ phase = "stats" /\ stats # None
  /\ phase' = "power"
  /\ queue' = <<>> /\ summary' = None /\ stats' = None
  /\ UNCHANGED <<web_lines, rtt_files, power>>

\* A line of web.tr.
EmitWeb(l) ==
  /\ phase = "power" /\ power = None
  /\ Len(web_lines) < MaxLines
  /\ web_lines' = Append(web_lines, l)
  /\ UNCHANGED <<queue, summary, stats, phase, rtt_files, power>>

\* A line of <nt>_tcp.tr, about a flow no other line is about, to a
\* receiver of its node type.
EmitRtt(nt, l) ==
  /\ phase = "power" /\ power = None
  /\ nt \in TcpTypes
  /\ Len(rtt_files["FTP"]) + Len(rtt_files["WEB"]) < MaxLines
  /\ \A t \in DOMAIN rtt_files : \A i \in DOMAIN rtt_files[t] : rtt_files[t][i].fid # l.fid
  /\ l.ok => l.dst \in {p[2] : p \in ToSet(GetSndRecvPairs(Scen, nt))}
  /\ rtt_files' = [rtt_files EXCEPT ![nt] = Append(@, l)]
  /\ UNCHANGED <<queue, summary, stats, phase, web_lines, power>>

\* PowerPlotter.load_power for the seed, after the run saved the parsed
\* web and tcp_rtt traces.
LoadPower(node_type, use_excess_rtt) ==
  /\ phase = "power" /\ power = None
  /\ LET tcp_rtt == ParseRtt(rtt_files)
         web == ParseWeb(web_lines)
         raised == CASE tcp_rtt = "AssertionError" -> "AssertionError"
                     [] WebPowerWanted(Scen, node_type) /\ WebMaskRaises(web) -> "IndexError"
                     [] OTHER -> None
     IN power' = [node_type |-> node_type, use_excess_rtt |-> use_excess_rtt,
                  value |-> IF raised # None THEN <<>>
                            ELSE PerFlowPower(Scen, tcp_rtt, web, node_type, use_excess_rtt),
                  raised |-> raised]
  /\ UNCHANGED <<queue, summary, stats, phase, web_lines, rtt_files>>

Next ==
  \/ \E r \in Rows : EmitRow(r)
  \/ \E t \in Summaries : ReadSummary(t)
  \/ Derive
  \/ SaveStats
  \/ \E l \in WebLines : EmitWeb(l)
  \/ \E nt \in TcpTypes, l \in RttLines : EmitRtt(nt, l)
  \/ \E nt \in {None, "WEB", "FTP"}, ux \in BOOLEAN : LoadPower(nt, ux)

Spec == Init /\ [][Next]_vars

-----------------------------------------------------------------------------
(***************************************************************************)
(* The stats derivation of spec.md 4.2, written from the spec: node        *)
(* classes as the index ranges of spec.md 3, a class's throughput the sum  *)
(* of its DEQUEUE sizes, its delays the mean and the linearly interpolated *)
(* 50th, 75th and 95th percentiles, NaN without rows.                      *)
(***************************************************************************)
ClassRange(s, nt) ==
  LET first == [WEB |-> 2, FTP |-> 2 + 2 * NumWebs(s),
                CBR |-> 2 + 2 * NumWebs(s) + 2 * s.ftp.num]
      count == [WEB |-> 2 * NumWebs(s), FTP |-> 2 * s.ftp.num, CBR |-> 2 * s.cbr.num]
  IN first[nt] .. first[nt] + count[nt] - 1

SpecPercentile(a, q) ==
  LET n == Len(a)  lo == ((n - 1) * q) \div 100  r == ((n - 1) * q) % 100
      hi == IF lo + 1 < n THEN lo + 1 ELSE lo
  IN Num((100 - r) * a[lo + 1] + r * a[hi + 1], 100)

SpecClass(q, s, nt) ==
  LET dq == SelectSeq(q, LAMBDA r : r.event = "DEQUEUE" /\ r.src \in ClassRange(s, nt))
      a == SortSeq([i \in DOMAIN dq |-> dq[i].delay], <)
      none == dq = <<>>
  IN [throughput |-> Num(SumOf([i \in DOMAIN dq |-> dq[i].size]), 1),
      delay |-> IF none THEN NaN ELSE Num(SumOf(a), Len(a)),
      p50 |-> IF none THEN NaN ELSE SpecPercentile(a, 50),
      p75 |-> IF none THEN NaN ELSE SpecPercentile(a, 75),
      p95 |-> IF none THEN NaN ELSE SpecPercentile(a, 95)]

\* Two numbers are the same number (NaN only equals NaN here).
Same(x, y) ==
  IF x.den = 0 \/ y.den = 0 THEN x.den = y.den /\ x.num = y.num
  ELSE x.num * y.den = y.num * x.den

(***************************************************************************)
(* Every field of the row generate_stats stores is the number spec.md 4.2  *)
(* defines for it: the seed, the stats file's four numbers, and each       *)
(* class's throughput and delays under the field named for that class.     *)
(* It ties together the node masks (get_nodes), the order of the classes   *)
(* in the loop and in th_delay, CodelResult's field order and DTYPE's     *)
(* field names, which a test with one class never tells apart.            *)
(***************************************************************************)
StatsMatchSpec ==
  stats # None =>
    LET expect(f) == CASE f = "seed" -> Num(Seed, 1)
                       [] f = "all_drops" -> Num(summary[1], 1)
                       [] f = "all_throughput" -> Num(summary[2], 1)
                       [] f = "all_delay" -> Num(summary[3], 1)
                       [] f = "all_delay_var" -> Num(summary[4], 1)
        cls == [FTP |-> "ftp", WEB |-> "web", CBR |-> "cbr"]
    IN /\ \A f \in {"seed", "all_drops", "all_throughput", "all_delay", "all_delay_var"} :
            Same(stats[f], expect(f))
       /\ \A nt \in DOMAIN cls :
            LET sc == SpecClass(queue, Scen, nt)  p == cls[nt] IN
            /\ Same(stats[p \o "_throughput"], sc.throughput)
            /\ Same(stats[p \o "_delay"], sc.delay)
            /\ Same(stats[p \o "_50_delay"], sc.p50)
            /\ Same(stats[p \o "_75_delay"], sc.p75)
            /\ Same(stats[p \o "_95_delay"], sc.p95)

(***************************************************************************)
(* The per-flow powers of spec.md 4.5, written from the spec on the lines  *)
(* the simulator wrote: a web flow present in both traces has throughput   *)
(* its summed response size over its summed completion time, an FTP flow  *)
(* the rate of its RTT line; power is throughput over the (excess) RTT,    *)
(* web flows by flow id, then FTP flows in file order.                     *)
(***************************************************************************)
SpecRttMs(l, ux) == IF ux THEN l.del - l.mindel ELSE l.del

SpecPowers(sel, ux) ==
  LET wl == rtt_files["WEB"]  fl == rtt_files["FTP"]
      flows == SetToSortSeq({web_lines[i].flow_id : i \in DOMAIN web_lines}
                            \cap {wl[i].fid : i \in DOMAIN wl}, <)
      of(f) == SelectSeq(web_lines, LAMBDA l : l.flow_id = f)
      line(f) == wl[CHOOSE i \in DOMAIN wl : wl[i].fid = f]
      web_power(f) ==
        Div(Num(SumOf([i \in DOMAIN of(f) |-> of(f)[i].resp_size]) * 1000000, 1),
            Num(SumOf([i \in DOMAIN of(f) |-> of(f)[i].ct]) * SpecRttMs(line(f), ux), 1))
  IN (IF Scen.web.rate > 0 /\ sel \in {None, "WEB"}
      THEN [k \in DOMAIN flows |-> web_power(flows[k])] ELSE <<>>)
     \o (IF sel \in {None, "FTP"}
         THEN [i \in DOMAIN fl |-> Div(Num(fl[i].tp * 1000000 * 1000, 1), Num(SpecRttMs(fl[i], ux), 1))]
         ELSE <<>>)

(***************************************************************************)
(* load_power pairs every web flow's throughput with that flow's own RTT   *)
(* and every FTP row's rate with its own RTT: the powers it averages are   *)
(* those of spec.md 4.5, whatever order the tcp files list the flows in.   *)
(* The pairing rests on _calc_per_flow_rtt's argsort and searchsorted      *)
(* lining up with _calc_per_flow_time_and_size's bincount, and on the unit *)
(* conversions of the two parsers.                                         *)
(***************************************************************************)
PowerPerFlowMatchesSpec ==
  power # None /\ power.raised = None =>
    LET want == SpecPowers(power.node_type, power.use_excess_rtt) IN
    /\ Len(power.value) = Len(want)
    /\ \A k \in DOMAIN want : Same(power.value[k], want[k])
=============================================================================
