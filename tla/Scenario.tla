------------------------------ MODULE Scenario ------------------------------
(***************************************************************************)
(* The scenario value types of codel.py, their short representation (the  *)
(* fingerprint that keys persisted traces), the simulator invocation       *)
(* NS2.run builds from them, the constructor checks, the variant           *)
(* registries' string parser and the node-index ranges.                    *)
(*                                                                         *)
(* Data: an Interval is its number of milliseconds (its text is "<n>ms"),  *)
(* a Rate is its text ("10Mb"), a float the sequence of the parts         *)
(* of its Python str() split at '-' (<<"0.5">>, or <<"1e", "05">> for     *)
(* 1e-05).  A short_rep element is the sequence of pieces it splits into   *)
(* at '-'; a piece is <<letters, rest>>, the string letters \o rest cut    *)
(* where parse_param cuts it (rest never starts with a letter), so two     *)
(* fingerprints are equal strings exactly when their pieces are equal.     *)
(* A call returns [status |-> "ok" or the exception, value |-> ...].       *)
(***************************************************************************)
EXTENDS Integers, Sequences, SequencesExt, FiniteSetsExt, TLC

CONSTANTS
  None,          \* Python's None
  IntDomain,     \* the integers int() may return in the model
  FloatDomain,   \* the floats, as their dash-split str() parts
  IntervalDomain \* Interval values, in ms

(***************************************************************************)
(* The value types: each namedtuple, with a kind for the registered        *)
(* variant, its fields over the model's domains.                           *)
(***************************************************************************)
Selectors ==
  [kind : {"fixed"}, interval : IntervalDomain, num_subintervals : IntDomain]
  \cup [kind : {"binary"}, initial_interval : IntervalDomain, min_samples : IntDomain,
        min_threshold : FloatDomain]
Queues ==
  [kind : {"sfqcodel"}, interval : IntervalDomain, target : IntervalDomain]
  \cup [kind : {"sfq"}]
  \cup [kind : {"red"}, min_th : FloatDomain, max_th : FloatDomain, w : FloatDomain, p : FloatDomain]
Algos ==
  [kind : {"ucb", "ucb_v", "ucb_tuned", "local_greedy"}]
  \cup [kind : {"exp_unif", "sr"}, time_limit : IntDomain]
Rewards ==
  [kind : {"thr"}, min_delay : IntervalDomain, max_delay : IntervalDomain]
  \cup [kind : {"del"}, delay_scale : FloatDomain]
  \cup [kind : {"pow"}, min_bw_fraction : FloatDomain, max_bw_fraction : FloatDomain,
        min_delay : IntervalDomain, max_delay : IntervalDomain, delta : FloatDomain]

\* An NS2 value whose fields are all of their types.
IsNS2(s) ==
  /\ s.ftp \in [num : IntDomain, start_time : IntDomain, file_size : IntDomain,
                greedy : BOOLEAN, count_rev : IntDomain]
  /\ s.web \in [rate : IntDomain, start_time : IntDomain]
  /\ s.cbr.num \in IntDomain /\ s.cbr.packet_size \in IntDomain
  /\ s.delay \in [access : IntervalDomain, bottleneck : IntervalDomain]
  /\ s.learning.start_time \in IntDomain
  /\ s.learning.algo \in Algos
  /\ s.learning.reward \in Rewards
  /\ s.learning.interval_selector \in Selectors
  /\ s.duration \in IntDomain
  /\ \A i \in DOMAIN s.algorithms : s.algorithms[i] \in Queues
  /\ s.bottleneck.dynamic \in BOOLEAN

Returns(v) == [status |-> "ok", value |-> v]
Raises(e) == [status |-> e, value |-> <<>>]

IntervalStr(i) == ToString(i) \o "ms"

\* f'{key}{value}' for a value whose text has no dash: one piece.
Tok(key, text) == << <<key, text>> >>
Tag(name) == Tok(name, "")
\* f'{key}{float}': the key sticks to the first part, later parts follow a '-'.
FloatTok(key, f) == << <<key, Head(f)>> >> \o [k \in 1..Len(f) - 1 |-> <<"", f[k + 1]>>]
Optional(flag, elems) == IF flag THEN elems ELSE <<>>

(***************************************************************************)
(* Registry names, as pieces: the whole name is compared by from_string.   *)
(***************************************************************************)
SelectorNames == [fixed |-> <<"fixed", "">>, binary |-> <<"binary", "">>]
QueueNames == [sfqcodel |-> <<"sfqcodel", "">>, sfq |-> <<"sfq", "">>, red |-> <<"red", "">>]
AlgoNames == [ucb |-> <<"ucb", "">>, ucb_v |-> <<"ucb", "_v">>,
              ucb_tuned |-> <<"ucb", "_tuned">>, exp_unif |-> <<"exp", "_unif">>,
              sr |-> <<"sr", "">>, local_greedy |-> <<"local", "_greedy">>]

(***************************************************************************)
(* short_rep of each value type.                                           *)
(***************************************************************************)
\* Mutant: nsi written only from 3 subintervals on.
SelectorRepOffByOne(sel) ==
  IF sel.kind = "fixed"
  THEN <<Tag("fixed"), Tok("i", IntervalStr(sel.interval))>>
       \o Optional(sel.num_subintervals > 2, <<Tok("nsi", ToString(sel.num_subintervals))>>)
  ELSE <<Tag("binary"), Tok("i", IntervalStr(sel.initial_interval)),
         Tok("mins", ToString(sel.min_samples)), FloatTok("minth", sel.min_threshold)>>

SelectorRep(sel) ==
  IF sel.kind = "fixed"
  THEN <<Tag("fixed"), Tok("i", IntervalStr(sel.interval))>>
       \o Optional(sel.num_subintervals > 1, <<Tok("nsi", ToString(sel.num_subintervals))>>)
  ELSE <<Tag("binary"), Tok("i", IntervalStr(sel.initial_interval)),
         Tok("mins", ToString(sel.min_samples)), FloatTok("minth", sel.min_threshold)>>

\* SFQQueueManagement.short_rep is the str 'sfq': chained, it yields its characters.
QueueRep(q) ==
  CASE q.kind = "sfqcodel" -> <<Tag("sfqcodel"), Tok("t", IntervalStr(q.target)),
                                Tok("i", IntervalStr(q.interval))>>
    [] q.kind = "sfq"      -> <<Tag("s"), Tag("f"), Tag("q")>>
    [] q.kind = "red"      -> <<Tag("red"), FloatTok("minth", q.min_th), FloatTok("maxth", q.max_th),
                                FloatTok("w", q.w), FloatTok("p", q.p)>>

\* 'la' + name; exp_unif appends '-tl<time_limit>' inside its one element; sr does not.
AlgoRep(a) ==
  LET la == << <<"la" \o AlgoNames[a.kind][1], AlgoNames[a.kind][2]>> >> IN
  IF a.kind = "exp_unif" THEN << la \o <<<<"tl", ToString(a.time_limit)>>>> >>
                         ELSE << la >>

RewardRep(r) ==
  CASE r.kind = "thr" -> <<Tag("thr"), Tok("mind", IntervalStr(r.min_delay)),
                           Tok("maxd", IntervalStr(r.max_delay))>>
    [] r.kind = "del" -> <<Tag("del"), FloatTok("ds", r.delay_scale)>>
    [] r.kind = "pow" -> <<Tag("pow"), FloatTok("minbwf", r.min_bw_fraction),
                           FloatTok("maxbwf", r.max_bw_fraction),
                           Tok("mind", IntervalStr(r.min_delay)),
                           Tok("maxd", IntervalStr(r.max_delay)), FloatTok("dlt", r.delta)>>

LearningRep(l) ==
  Optional(l.start_time > 0, <<Tok("lst", ToString(l.start_time))>>)
  \o AlgoRep(l.algo) \o SelectorRep(l.interval_selector) \o RewardRep(l.reward)

FTPRep(f) ==
  <<Tok("f", ToString(f.num))>>
  \o Optional(f.num > 0, Optional(f.greedy, <<Tag("g")>>) \o <<Tok("fs", ToString(f.file_size))>>)
  \o Optional(f.start_time > 0, <<Tok("fst", ToString(f.start_time))>>)

WebRep(w) == <<Tok("w", ToString(w.rate))>>
             \o Optional(w.start_time > 0, <<Tok("wst", ToString(w.start_time))>>)

CBRRep(c) == <<Tok("c", ToString(c.num))>>
             \o Optional(c.num > 0, <<Tok("cr", c.rate), Tok("cps", ToString(c.packet_size))>>)

\* Mutant: the bottleneck rate left out of the fingerprint.
NS2RepNoRate(s) ==
  <<Tok("d", ToString(s.duration))>> \o FTPRep(s.ftp) \o WebRep(s.web) \o CBRRep(s.cbr)
  \o <<Tok("adl", IntervalStr(s.delay.access)), Tok("bdl", IntervalStr(s.delay.bottleneck))>>
  \o FlattenSeq([i \in DOMAIN s.algorithms |-> QueueRep(s.algorithms[i])])
  \o LearningRep(s.learning)

NS2Rep(s) ==
  <<Tok("d", ToString(s.duration))>> \o FTPRep(s.ftp) \o WebRep(s.web) \o CBRRep(s.cbr)
  \o <<Tok("b", s.bottleneck.rate), Tok("adl", IntervalStr(s.delay.access)),
       Tok("bdl", IntervalStr(s.delay.bottleneck))>>
  \o FlattenSeq([i \in DOMAIN s.algorithms |-> QueueRep(s.algorithms[i])])
  \o LearningRep(s.learning)

\* Trace._get_filename_base: '-'.join(short_rep), seen as its '-'-separated pieces.
Fingerprint(s) == FlattenSeq(NS2Rep(s))

(***************************************************************************)
(* The simulator command fragments and the algo.json description.          *)
(***************************************************************************)
SelectorCommand(sel) ==
  IF sel.kind = "fixed"
  THEN [cmd |-> "Fixed", interval |-> sel.interval, n |-> sel.num_subintervals]
  ELSE [cmd |-> "BinarySearch", interval |-> sel.initial_interval,
        mins |-> sel.min_samples, minth |-> sel.min_threshold]

QueueCommand(q) ==
  CASE q.kind = "sfqcodel" -> [cmd |-> "sfqCoDel", target |-> q.target, interval |-> q.interval]
    [] q.kind = "sfq"      -> [cmd |-> "SFQ"]
    [] q.kind = "red"      -> [cmd |-> "RED", thresh |-> q.min_th, maxthresh |-> q.max_th,
                               q_weight |-> q.w, linterm |-> q.p]

\* LearningAlgorithm.json: time_limit -1 where the description has none.
AlgoJson(a) ==
  CASE a.kind \in {"exp_unif", "sr"} ->
         [type |-> "explore_exploit", time_limit |-> a.time_limit,
          base |-> IF a.kind = "sr" THEN "successive_rejects" ELSE "uniform"]
    [] OTHER -> [type |-> a.kind, time_limit |-> -1, base |-> ""]

(***************************************************************************)
(* reward.command(ns2).  ThroughputReward reads ns2.learning.interval, a   *)
(* field LearningParams does not have: AttributeError.                     *)
(***************************************************************************)
RewardCommand(r, s) ==
  CASE r.kind = "thr" -> Raises("AttributeError")
    [] r.kind = "del" -> Returns([cmd |-> "Delay", scale |-> r.delay_scale])
    [] r.kind = "pow" -> Returns([cmd |-> "Power", rate |-> s.bottleneck.rate,
                                  minbwf |-> r.min_bw_fraction, maxbwf |-> r.max_bw_fraction,
                                  mind |-> r.min_delay, maxd |-> r.max_delay, delta |-> r.delta])

\* NS2.run: the argument list handed to the simulator (seed and directory aside).
SimArgs(s) ==
  LET reward == RewardCommand(s.learning.reward, s) IN
  IF reward.status # "ok" THEN reward
  ELSE Returns([duration |-> s.duration,
                ftp |-> <<s.ftp.num, s.ftp.start_time, s.ftp.file_size, s.ftp.greedy, s.ftp.count_rev>>,
                web |-> <<s.web.rate, s.web.start_time>>,
                cbr |-> <<s.cbr.num, s.cbr.rate, s.cbr.packet_size>>,
                link |-> <<s.bottleneck.rate, s.bottleneck.dynamic>>,
                delay |-> <<s.delay.access, s.delay.bottleneck>>,
                learning |-> [start_time |-> s.learning.start_time,
                              algo |-> AlgoJson(s.learning.algo),
                              selector |-> SelectorCommand(s.learning.interval_selector),
                              reward |-> reward.value],
                algorithms |-> [i \in DOMAIN s.algorithms |-> QueueCommand(s.algorithms[i])]])

(***************************************************************************)
(* Constructor checks.                                                     *)
(***************************************************************************)
MakeFTPParams(num, start_time, file_size, greedy, count_rev) ==
  IF greedy /\ num = 0 THEN Raises("ValueError")
  ELSE Returns([num |-> num, start_time |-> start_time, file_size |-> file_size,
                greedy |-> greedy, count_rev |-> count_rev])

MakeThroughputReward(min_delay, max_delay) ==
  LET mind == IF min_delay = None THEN max_delay ELSE min_delay IN
  IF mind > max_delay THEN Raises("ValueError")
  ELSE Returns([kind |-> "thr", min_delay |-> mind, max_delay |-> max_delay])

(***************************************************************************)
(* ParameterizedBase.from_string: split at '-', the head is the name, each *)
(* other piece is (letters, rest); a later key overrides an earlier one.   *)
(* Fields lists, per variant, what from_params reads, in the order it      *)
(* reads it: the key, how the text is converted, and the default used when *)
(* the key is absent (None: params[key] raises KeyError).                  *)
(***************************************************************************)
ParamsOf(pieces) ==
  [k \in {pieces[i][1] : i \in DOMAIN pieces} |->
     pieces[Max({i \in DOMAIN pieces : pieces[i][1] = k})][2]]

F(field, key, conv, default) == [field |-> field, key |-> key, conv |-> conv, default |-> default]
Fields ==
  [fixed |-> <<F("interval", "i", "interval", None), F("num_subintervals", "nsi", "int", 1)>>,
   binary |-> <<F("initial_interval", "i", "interval", None), F("min_samples", "mins", "int", None),
                F("min_threshold", "minth", "float", None)>>,
   sfqcodel |-> <<F("interval", "i", "interval", None), F("target", "t", "interval", None)>>,
   sfq |-> <<>>,
   red |-> <<F("min_th", "minth", "float", None), F("max_th", "maxth", "float", None),
             F("w", "w", "float", None), F("p", "p", "float", None)>>,
   ucb |-> <<>>, ucb_v |-> <<>>, ucb_tuned |-> <<>>, local_greedy |-> <<>>,
   exp_unif |-> <<F("time_limit", "tl", "int", None)>>,
   sr |-> <<F("time_limit", "tl", "int", None)>>]

\* int(), float() and the float() an Interval is later put through.
Convert(conv, text) ==
  CASE conv = "int" ->
         IF \E n \in IntDomain : ToString(n) = text
         THEN Returns(CHOOSE n \in IntDomain : ToString(n) = text) ELSE Raises("ValueError")
    [] conv = "float" ->
         IF <<text>> \in FloatDomain THEN Returns(<<text>>) ELSE Raises("ValueError")
    [] conv = "interval" ->
         IF \E n \in IntervalDomain : IntervalStr(n) = text
         THEN Returns(CHOOSE n \in IntervalDomain : IntervalStr(n) = text) ELSE Raises("ValueError")

ReadField(fd, params) ==
  IF fd.key \in DOMAIN params THEN Convert(fd.conv, params[fd.key])
  ELSE IF fd.default = None THEN Raises("KeyError") ELSE Returns(fd.default)

FromParams(kind, params) ==
  LET fs == Fields[kind]
      read == [j \in DOMAIN fs |-> ReadField(fs[j], params)]
      failed == {j \in DOMAIN fs : read[j].status # "ok"}
  IN IF failed # {} THEN read[Min(failed)]
     ELSE Returns([fld \in {"kind"} \cup {fs[j].field : j \in DOMAIN fs} |->
                     IF fld = "kind" THEN kind
                     ELSE read[CHOOSE j \in DOMAIN fs : fs[j].field = fld].value])

FromString(names, pieces) ==
  IF \E k \in DOMAIN names : names[k] = Head(pieces)
  THEN FromParams(CHOOSE k \in DOMAIN names : names[k] = Head(pieces), ParamsOf(Tail(pieces)))
  ELSE Raises("AssertionError")

(***************************************************************************)
(* NS2.num_nodes and get_node_type: gateway pair, then web, ftp, cbr.      *)
(***************************************************************************)
NumWebs(s) == IF s.web.rate > 0 THEN 1 ELSE 0
\* Mutant: the gateway pair not counted.
NumNodesNoGateway(s) == 2 * (NumWebs(s) + s.ftp.num + s.cbr.num)
NumNodes(s) == 2 * (1 + NumWebs(s) + s.ftp.num + s.cbr.num)

GetNodeType(s, n) ==
  CASE n < 2                                          -> "GATEWAY"
    [] n < 2 * (1 + NumWebs(s))                       -> "WEB"
    [] n < 2 * (1 + NumWebs(s) + s.ftp.num)            -> "FTP"
    [] n < 2 * (1 + NumWebs(s) + s.ftp.num + s.cbr.num) -> "CBR"
    [] OTHER                                          -> "ValueError"

GetNodes(s, t) == SetToSortSeq({n \in 0..NumNodes(s) - 1 : GetNodeType(s, n) = t}, <)

\* zip of the even-indexed and odd-indexed members of get_nodes.
GetSndRecvPairs(s, t) ==
  LET ns == GetNodes(s, t) IN [i \in 1..Len(ns) \div 2 |-> <<ns[2 * i - 1], ns[2 * i]>>]

=============================================================================
