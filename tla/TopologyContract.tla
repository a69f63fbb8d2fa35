------------------------- MODULE TopologyContract -------------------------
(* What an experiment may rely on of a Topology: the phase it polls in      *)
(* WaitingForTopology only ever becomes Active while spec.active is set,    *)
(* and Inactive while it is not.  Topology, which has the controller, is    *)
(* shown to implement it; the environment of Experiment, in which the       *)
(* topology is little more than these two fields, takes the same steps.     *)

VARIABLES active, phase

Init == active \in BOOLEAN /\ phase \in {"", "Inactive"}

(* spec.active is switched; the phase is still that of before.              *)
Switch == active' = ~active /\ UNCHANGED phase

(* The controller has brought the cluster in line with spec.active.         *)
Follow == phase' = (IF active THEN "Active" ELSE "Inactive") /\ UNCHANGED active

Fail == phase' = "Failed" /\ UNCHANGED active

Spec == Init /\ [][Switch \/ Follow \/ Fail]_<<active, phase>>

=============================================================================
