--------------------------- MODULE SharedTopology ---------------------------
(* The topology controller together with the experiments that refer to its  *)
(* Topology.  Both controllers run in one manager and read the Topology     *)
(* from the same informer cache; experiments are reduced to TopologyUse.    *)
(* Nothing in the code reserves a topology: any experiment may switch it.   *)
EXTENDS Topology

CONSTANTS
  Experiments,    \* the experiments that refer to the Topology
  Repetitions     \* spec.duration.repetitions of each of them

ASSUME SharedTopologyAssumption == Repetitions \in [Experiments -> Nat]

VARIABLES
  stage,   \* how far each experiment is, as in TopologyUse
  left,    \* the repetitions it has to go
  sole,    \* history: the experiments that switched the topology on when it
           \* was settled and unused, and whom nobody has interfered with since
  freed    \* history: the last to touch the topology was such an experiment,
           \* which switched it off after it had used it

sharedVars == <<vars, stage, left, sole, freed>>
experimentVars == <<stage, left, sole, freed>>

Use(e) == INSTANCE TopologyUse
  WITH stage <- stage[e], active <- stored.active, known <- cached.active, phase <- cached.phase

Stages == {"preparing", "waiting", "using", "succeeded", "failed"}
Ended == {"succeeded", "failed"}
Engaged(e) == stage[e] \in {"waiting", "using"}

SharedInit ==
  /\ Init
  /\ stage = [e \in Experiments |-> "preparing"]
  /\ left = Repetitions
  /\ sole = {}
  /\ freed = FALSE

-----------------------------------------------------------------------------
(* What an experiment does to the topology.                                 *)

(* The phase a handler reads: none if the cache has no Topology.            *)
Read == IF cached.exists THEN cached.phase ELSE ""

(* activateTopology returns an error, which fails the experiment, when the  *)
(* cache has no Topology or the one it has is off and gone from the API     *)
(* server; one that the cache still shows as on will do.  For               *)
(* deactivateTopology there is nothing to do in these cases.                *)
Reachable(ask) == ask = "on" => cached.exists /\ (cached.active \/ stored.exists)

(* The merge patch sets spec.active on whatever is stored.                  *)
Patched(ask) ==
  IF /\ ask # "same" /\ cached.exists /\ stored.exists
     /\ cached.active # (ask = "on") /\ stored.active # (ask = "on")
  THEN Store([stored EXCEPT !.active = (ask = "on"), !.generation = @ + 1])
  ELSE Unwritten

Undisturbed(e) == Settled /\ watch = <<>> /\ \A other \in Experiments \ {e} : ~Engaged(other)

Witnessed(e, ask) ==
  \/ ask = "same" /\ UNCHANGED <<sole, freed>>
  \/ /\ ask = "on"
     /\ sole' = (sole \cap {e}) \cup (IF Undisturbed(e) THEN {e} ELSE {})
     /\ freed' = FALSE
  \/ /\ ask = "off"
     /\ sole' = {}
     /\ freed' = (freed \/ (e \in sole /\ stage[e] = "using"))

(* A repetition is counted when its cleanup is recorded.                    *)
Counted(e, to) ==
  left' = IF stage[e] = "using" /\ to = "preparing" THEN [left EXCEPT ![e] = @ - 1] ELSE left

Moves(e, ask, to) ==
  /\ to = "succeeded" => left[e] = 0
  /\ ask = "on" => left[e] > 0
  /\ Reachable(ask)
  /\ Patched(ask)
  /\ stage' = [stage EXCEPT ![e] = to]
  /\ Counted(e, to)
  /\ Witnessed(e, ask)
  /\ UNCHANGED <<cached, queued, cluster>>

Advance(e) ==
  /\ UNCHANGED budget
  /\ \E ask \in Use(e)!Asks, to \in Stages : Use(e)!Smooth(stage[e], Read, ask, to) /\ Moves(e, ask, to)

(* The Topology cannot be switched on.                                      *)
Refused(e) ==
  /\ stage[e] = "preparing" /\ left[e] > 0 /\ ~Reachable("on")
  /\ Moves(e, "same", "failed")
  /\ UNCHANGED budget

Stumble(e) ==
  /\ Spend(1)
  /\ \E ask \in Use(e)!Asks, to \in Stages : Use(e)!Rough(stage[e], Read, ask, to) /\ Moves(e, ask, to)

-----------------------------------------------------------------------------
(* The rest of the system.                                                  *)

Controller == (Reconcile \/ Deliver \/ Restart) /\ UNCHANGED experimentVars

(* A user edits or deletes the Topology.                                    *)
UserEdit ==
  /\ \E spec \in Specs \ {stored.spec} : Store([stored EXCEPT !.spec = spec, !.generation = @ + 1])
  /\ stored.exists
  /\ Spend(1)
  /\ sole' = {}
  /\ freed' = FALSE
  /\ UNCHANGED <<cached, queued, cluster, stage, left>>

UserDelete ==
  /\ budget > 0
  /\ DeleteTopology
  /\ sole' = {}
  /\ freed' = FALSE
  /\ UNCHANGED <<stage, left>>

Rest == Idle /\ UNCHANGED experimentVars /\ \A e \in Experiments : stage[e] \in Ended

SharedNext ==
  \/ \E e \in Experiments : Advance(e) \/ Refused(e) \/ Stumble(e)
  \/ Controller
  \/ UserEdit
  \/ UserDelete
  \/ Rest

SharedSpec == SharedInit /\ [][SharedNext]_sharedVars

(* The work queues hand out what they hold, the watch delivers, and calls   *)
(* that fail succeed in the end.                                            *)
SharedFairSpec ==
  /\ SharedSpec
  /\ \A e \in Experiments : WF_sharedVars(Advance(e) \/ Refused(e))
  /\ WF_sharedVars(Reconcile /\ UNCHANGED experimentVars)
  /\ WF_sharedVars(Deliver /\ UNCHANGED experimentVars)

-----------------------------------------------------------------------------
(* Properties.                                                              *)

Provisioned ==
  /\ stored.active
  /\ \A z \in ZonesOf(stored) : namespaces[z] # Absent
  /\ \A o \in LinksOf(stored) : chaos[o] = stored.spec.links[o]

(* An experiment that found its topology settled and unused measures on a   *)
(* topology whose zones and links are all there, as long as nobody else     *)
(* touches it: the phase it waited for is true of the cluster, whatever     *)
(* stale versions both controllers started from and whatever failed.        *)
SoleUseProvisioned == \A e \in sole : stage[e] = "using" => Provisioned

(* When the status has caught up with an experiment that used the topology  *)
(* alone and has switched it off, the links are gone.                       *)
SoleUseUndone ==
  freed /\ Settled => ~stored.active /\ \A o \in Objects : chaos[o] = Off

(* Every experiment ends, also if others switch the topology off while it   *)
(* waits for it, or the topology is deleted.                                *)
EveryExperimentEnds == \A e \in Experiments : <>(stage[e] \in Ended)

=============================================================================
