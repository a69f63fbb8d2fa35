----------------------------- MODULE MCShared ------------------------------
(* Instances of SharedTopology for TLC: one zone with one link object.      *)
EXTENDS SharedTopology

MCZones == {"berlin"}
MCObjects == {"delay"}
MCHome == [o \in MCObjects |-> "berlin"]

MCSpec(latency) == [zones |-> [z \in MCZones |-> "plain"], links |-> [o \in MCObjects |-> latency]]

(* An edit that changes the latency of the link.                            *)
MCTuned == {MCSpec(5), MCSpec(30)}

(* Two experiments, one of them with a second repetition.                   *)
MCRepetitions == [e \in {"a", "b"} |-> IF e = "a" THEN 2 ELSE 1]

=============================================================================
