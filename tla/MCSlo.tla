------------------------------- MODULE MCSlo -------------------------------
(* Instances of Slo for TLC.                                                *)
EXTENDS Slo

(* A latency and a throughput.                                              *)
MCTwo ==
  << [name |-> "latency", threshold |-> 2, isBiggerBetter |-> FALSE, weight |-> 60],
     [name |-> "throughput", threshold |-> 3, isBiggerBetter |-> TRUE, weight |-> 40] >>

=============================================================================
