---------------------------- MODULE MCExperiment ----------------------------
(* Instances of Experiment for TLC.                                         *)
EXTENDS Experiment

(* A ChaosPhase with a custom fault and a stress fault over two zones.      *)
MCChaosObjects ==
  << [fault |-> 1, name |-> "custom", custom |-> TRUE],
     [fault |-> 2, name |-> "cpu-berlin", custom |-> FALSE],
     [fault |-> 2, name |-> "cpu-munich", custom |-> FALSE] >>

(* A ChaosPhase with one network fault.                                     *)
MCOneChaosObject == << [fault |-> 1, name |-> "delay", custom |-> FALSE] >>

=============================================================================
