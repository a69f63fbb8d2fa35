----------------------------- MODULE MCTopology -----------------------------
(* Instances of Topology for TLC: two zones, and a chaos object in each.    *)
EXTENDS Topology

MCZones == {"berlin", "munich"}
MCObjects == {"delay", "loss"}
MCHome == [o \in MCObjects |-> IF o = "delay" THEN "berlin" ELSE "munich"]

ZoneSpec(berlin, munich) == [z \in MCZones |-> IF z = "berlin" THEN berlin ELSE munich]
LinkSpec(delay, loss) == [o \in MCObjects |-> IF o = "delay" THEN delay ELSE loss]

(* Edits that take nothing away: a quota and another latency.               *)
MCTuned ==
  { [zones |-> ZoneSpec("plain", "limited"), links |-> LinkSpec(5, 1)],
    [zones |-> ZoneSpec("limited", "limited"), links |-> LinkSpec(30, 1)] }

(* Edits that add and remove zones, quotas and links; the third has a link  *)
(* with a zone that is not listed.                                          *)
MCReshaped ==
  { [zones |-> ZoneSpec("limited", "plain"), links |-> LinkSpec(5, 1)],
    [zones |-> ZoneSpec("plain", "absent"), links |-> LinkSpec(30, 0)],
    [zones |-> ZoneSpec("plain", "absent"), links |-> LinkSpec(5, 1)] }

=============================================================================
