---------------------------- MODULE TopologyUse ----------------------------
(* An experiment as its topology sees it: it prepares, switches spec.active *)
(* on, waits for the phase Active, uses the topology while it measures, and *)
(* switches it off in the cleanup of the repetition.  Experiment, which has *)
(* the handlers, is shown to implement it as long as its reconciles start   *)
(* from the current status; SharedTopology lets several experiments of this *)
(* kind loose on one Topology.                                              *)
VARIABLES
  stage,   \* how far the repetition is
  active,  \* spec.active of the Topology
  known,   \* spec.active in the informer cache
  phase    \* status.phase of the Topology

Ended == {"succeeded", "failed"}
Stages == {"preparing", "waiting", "using"} \cup Ended

(* What a handler asks of spec.active.                                      *)
Asks == {"on", "off", "same"}

(* Mutant of Smooth: no timeout in WaitingForTopology.                      *)
SmoothPatient(from, read, ask, to) ==
  \/ from = "preparing" /\ ask = "on" /\ to = "waiting"
  \/ from = "preparing" /\ ask = "same" /\ to = "succeeded"
  \/ from = "waiting" /\ read = "Active" /\ ask = "same" /\ to = "using"
  \/ from = "waiting" /\ read # "Active" /\ ask = "same" /\ to = "waiting"
  \/ from = "waiting" /\ read = "Failed" /\ ask = "off" /\ to = "failed"
  \/ from = "using" /\ ask = "off" /\ to = "preparing"

(* Mutant of Smooth: the phase is not waited for.                           *)
SmoothEager(from, read, ask, to) ==
  \/ from = "preparing" /\ ask = "on" /\ to = "waiting"
  \/ from = "preparing" /\ ask = "same" /\ to = "succeeded"
  \/ from = "waiting" /\ ask = "same" /\ to = "using"
  \/ from = "using" /\ ask = "off" /\ to = "preparing"

(* The steps in which every call succeeds; "read" is the phase the handler  *)
(* sees.  A topology that is not Active is polled again; one that has       *)
(* failed or does not become Active in time ends the experiment.            *)
Smooth(from, read, ask, to) ==
  \/ from = "preparing" /\ ask = "on" /\ to = "waiting"
  \/ from = "preparing" /\ ask = "same" /\ to = "succeeded"
  \/ from = "waiting" /\ read = "Active" /\ ask = "same" /\ to = "using"
  \/ from = "waiting" /\ read # "Active" /\ ask = "same" /\ to = "waiting"
  \/ from = "waiting" /\ read # "Active" /\ ask = "off" /\ to = "failed"
  \/ from = "using" /\ ask = "off" /\ to = "preparing"

(* The steps in which a call fails or the operator dies: what was asked of  *)
(* the topology is not taken back, an experiment that fails while it uses   *)
(* the topology leaves it on, and errors of deactivateTopology are logged.  *)
Rough(from, read, ask, to) ==
  \/ from = "preparing" /\ ask = "on" /\ to = "preparing"
  \/ from = "preparing" /\ ask = "same" /\ to = "failed"
  \/ from = "waiting" /\ read # "Active" /\ ask \in {"off", "same"} /\ to \in {"waiting", "failed"}
  \/ from = "using" /\ ask = "same" /\ to \in {"preparing", "failed"}
  \/ from = "using" /\ ask = "off" /\ to \in {"using", "failed"}

(* activateTopology and deactivateTopology do nothing when the cache has    *)
(* spec.active as asked.                                                    *)
Asked(ask) ==
  /\ active' = IF ask # "same" /\ known # (ask = "on") THEN ask = "on" ELSE active
  /\ UNCHANGED phase

Init == stage = "preparing" /\ ~active /\ ~known /\ phase \in {"", "Inactive"}

Use ==
  \E ask \in Asks, to \in Stages :
    /\ Smooth(stage, phase, ask, to) \/ Rough(stage, phase, ask, to)
    /\ stage' = to
    /\ Asked(ask)

(* The topology controller, and the cache that learns of spec.active.       *)
Elsewhere == UNCHANGED <<stage, active>>

Spec == Init /\ [][Use \/ Elsewhere]_<<stage, active, known, phase>>

=============================================================================
