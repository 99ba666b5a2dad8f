------------------------------ MODULE MCMetrics ------------------------------
EXTENDS Metrics

\* One web pair, one FTP pair and one CBR pair besides the gateways: nodes
\* 0..7, the web receiver is 3 and the FTP receiver 5.
MCScen == [web |-> [rate |-> 1], ftp |-> [num |-> 1], cbr |-> [num |-> 1]]

\* The stats file: drops, throughput, delay mean and variance.
MCSummaries == {<<4, 900, 2, 1>>}

\* web.tr lines of two flows.
MCWebLines == [flow_id : {1, 2}, resp_size : {1, 2}, ct : {1, 2}]

\* tcp file lines about the same two flows, and one line the pattern
\* does not match.
MCRttLines ==
  [ok : {TRUE}, fid : {1, 2}, dst : {3, 5}, del : {1, 2}, mindel : {1}, tp : {1}]
  \cup {[ok |-> FALSE, fid |-> 0, dst |-> 0, del |-> 0, mindel |-> 0, tp |-> 0]}
=============================================================================
