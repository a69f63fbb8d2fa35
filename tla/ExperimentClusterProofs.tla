---------------------- MODULE ExperimentClusterProofs ----------------------
(* What an experiment does to the cluster, in step with its status: the     *)
(* chaos objects, the manifests and the topology.                           *)
EXTENDS ExperimentResultsProofs

-----------------------------------------------------------------------------
(* What each handler does to the cluster, together with what it does to the *)
(* status.                                                                  *)

AllChaos(id) == ChaosRefs(id, Len(ChaosObjects))

SameObjects == UNCHANGED <<live, owned, deployed>>
SameManifests == UNCHANGED <<owned, deployed>>

(* cleanup with every call successful.                                      *)
Undeployed ==
  /\ owned' = CleanedOwned(owned, status.refs, {})
  /\ deployed' = CleanedDeployed(deployed, owned, status.refs, {})

(* failExperiment; only a failed patch leaves the phase as it is.           *)
Fails == Ends("Failed") \/ (Stays /\ "patchError" \in Faults)

(* The steps in which no handler moves the run on.                          *)
World ==
  /\ Stays \/ Ages
  /\ SameObjects
  /\ topo'.active = topo.active
  /\ topo'.cached \in {topo.cached, topo.active}

Starting ==
  /\ status.subPhase \in Idle /\ status.reps < Repetitions
  /\ UNCHANGED cluster
  /\ \E id \in Nat : Starts(id)

Deploying ==
  /\ status.subPhase = "Deploying"
  /\ UNCHANGED <<live, topo>>
  /\ \/ /\ owned' = owned \cup ManifestRefs(status.id, Roles)
        /\ deployed' = deployed \cup Roles
        /\ \/ Stays
           \/ \E s \in {"TopologyDelay", "LoadDelay"}, d \in Nat :
                /\ (s = "TopologyDelay") = UseTopology
                /\ Enters(s, d, status.meas, ManifestRefs(status.id, Roles))
     \/ /\ owned' \subseteq owned \cup ManifestRefs(status.id, Roles)
        /\ Stays \/ Ends("Failed")

Activating ==
  /\ status.subPhase = "TopologyDelay"
  /\ UNCHANGED live
  /\ \/ /\ SameManifests
        /\ \E f \in Pick({"staleTopology"}) : ActivateTopology(f)
        /\ Stays \/ Enters("WaitingForTopology", 0, status.meas, status.refs)
     \/ Undeployed /\ UNCHANGED topo /\ Fails

Waiting ==
  /\ status.subPhase = "WaitingForTopology"
  /\ UNCHANGED live
  /\ \/ /\ topo.phase = "Active"
        /\ SameManifests /\ UNCHANGED topo
        /\ Enters("LoadDelay", LoadDelay, status.meas, status.refs)
     \/ /\ topo.phase # "Active"
        /\ \E f \in Pick({"deactivateError", "staleTopology", "undeployError"}) :
             DeactivateTopology(f) /\ Cleanup(f, status.refs)
        /\ Fails

Loading ==
  /\ status.subPhase = "LoadDelay"
  /\ UNCHANGED cluster
  /\ Enters("PreChaosMeasurement", ChaosDelay, status.meas, status.refs)

Pausing ==
  /\ status.subPhase \in Idle
  /\ UNCHANGED cluster
  /\ \E s \in Idle : Enters(s, 0, status.meas, status.refs)

MeasuringIn(s, next) ==
  /\ status.subPhase = s
  /\ UNCHANGED cluster
  /\ \/ Quiet /\ (Ends("Failed") \/ \E f : Samples(Recorded(f)))
     \/ WindowEnds(next)

ApplyingChaos ==
  /\ status.subPhase = "ApplyingChaos"
  /\ UNCHANGED topo
  /\ \/ /\ ApplySucceeds(live, status.id, {})
        /\ live' = AppliedChaos(live, status.id, {})
        /\ SameManifests
        /\ \/ Stays
           \/ Enters("ChaosMeasurement", MeasurementDuration, <<>>,
                     status.refs \cup ReturnedRefs(live, status.id, {}))
     \/ /\ live' \subseteq live \cup AllChaos(status.id)
        /\ \/ SameManifests /\ Stays
           \/ Undeployed /\ Fails

TearDownFaults == {"chaosDeleteError", "undeployError", "deactivateError", "staleTopology",
                   "resultsError", "crash"}

TearingDown ==
  /\ status.subPhase = "Cleanup"
  /\ \/ \E f \in Pick(TearDownFaults) :
          /\ \E stuck \in StuckObjects(f) : live' = CleanedChaos(live, status.refs, stuck)
          /\ Cleanup(f, status.refs)
          /\ IF UseTopology THEN DeactivateTopology(f) ELSE UNCHANGED topo
          /\ Stays \/ Ends("Failed") \/ \E s \in Idle, d \in Nat : Counts(s, d)
     \/ /\ live' = CleanedChaos(live, status.refs, {})
        /\ SameManifests \/ Undeployed
        /\ UNCHANGED topo \/ (UseTopology /\ DeactivateTopology("none"))
        /\ Stays

Finishing ==
  /\ status.reps >= Repetitions
  /\ UNCHANGED cluster
  /\ Ends("Succeeded")

ClusterMoves ==
  \/ /\ UNCHANGED log
     /\ \/ Starting \/ Deploying \/ Activating \/ Waiting \/ Loading \/ Pausing
        \/ ApplyingChaos \/ TearingDown \/ Finishing
  \/ MeasuringIn("PreChaosMeasurement", "ApplyingChaos")
  \/ MeasuringIn("ChaosMeasurement", "Cleanup")

ClusterStep == (UNCHANGED log /\ World) \/ (Alive /\ ClusterMoves)

(* A patch of the phase that does not fail changes it.                      *)
LEMMA FailsNow ==
  ASSUME TypeOK, Fresh, NoStaleReads, Alive, NEW p \in Pick(PatchFaults), FailExperiment(p, seen)
  PROVE  Fails
<1>1. Stays \/ Ends("Failed")
  BY FreshFail, SeenTypes
<1>2. CASE p = "patchError"
  <2>1. "patchError" \in Faults
    BY <1>2 DEF Pick
  <2> QED
    BY <1>1, <2>1 DEF Fails
<1>3. CASE p # "patchError"
  <2>1. [seen EXCEPT !.phase = "Failed"].phase = "Failed" /\ seen.phase # "Failed"
    BY SeenTypes DEF Status, Alive, Fresh, Terminal
  <2>2. status'.phase = "Failed"
    BY <1>3, <2>1 DEF FailExperiment, Patch, Merge
  <2>3. ~Stays
    BY <2>1, <2>2 DEF Stays, Fresh
  <2> QED
    BY <1>1, <2>3 DEF Fails
<1> QED
  BY <1>2, <1>3

(* A cleanup in which the calls do not fail.                                *)
LEMMA CleanupCalls ==
  ASSUME NEW f, f # "undeployError", NEW refs, Cleanup(f, refs)
  PROVE  /\ owned' = CleanedOwned(owned, refs, {})
         /\ deployed' = CleanedDeployed(deployed, owned, refs, {})
BY DEF Cleanup, BadCalls

(* A reconcile that changes nothing in the cluster.                         *)
LEMMA WorldStays ==
  ASSUME Stays, UNCHANGED cluster, UNCHANGED log
  PROVE  ClusterStep
BY DEF ClusterStep, World, cluster, SameObjects

(* One lemma per handler.                                                   *)
LEMMA IdleCluster ==
  ASSUME TypeOK, Fresh, NoStaleReads, HandleIdle
  PROVE  ClusterStep
<1>1. Alive /\ status.subPhase \in Idle /\ status.reps < Repetitions
  BY Apart DEF HandleIdle, Dispatch, Alive, Fresh
<1>2. UNCHANGED cluster /\ UNCHANGED log
  BY DEF HandleIdle, records
<1>3. Stays \/ \E id \in Nat : Starts(id)
  BY FreshIdle
<1> QED
  BY <1>1, <1>2, <1>3, WorldStays DEF ClusterStep, ClusterMoves, Starting

LEMMA DeployingCluster ==
  ASSUME TypeOK, Fresh, NoStaleReads, HandleDeploying
  PROVE  ClusterStep
<1>1. /\ Alive /\ status.subPhase = "Deploying" /\ seen = status
      /\ UNCHANGED <<live, topo, log>>
  BY DEF HandleDeploying, Dispatch, Alive, Fresh, records
<1>2. PICK p \in Pick(PatchFaults) :
         \/ Deployed(p)
         \/ \E r \in Roles, stage \in Stages :
              DeployFailed(p, r, stage) \/ DeployInterrupted(r, stage)
  BY DEF HandleDeploying
<1>3. CASE Deployed(p)
  <2> DEFINE s == IF UseTopology THEN "TopologyDelay" ELSE "LoadDelay"
             d == IF UseTopology THEN TopologyDelay ELSE LoadDelay
  <2>1. s \in {"TopologyDelay", "LoadDelay"} /\ d \in Nat /\ (s = "TopologyDelay") = UseTopology
    BY ConstantTypes
  <2>2. Stays \/ Enters(s, d, status.meas, ManifestRefs(status.id, Roles))
    BY <1>3, FreshDeployed
  <2>3. /\ owned' = owned \cup ManifestRefs(status.id, Roles)
        /\ deployed' = deployed \cup Roles
    BY <1>1, <1>3 DEF Deployed, OwnedSet, DeployedSet
  <2> HIDE DEF s, d
  <2> QED
    BY <1>1, <2>1, <2>2, <2>3 DEF ClusterStep, ClusterMoves, Deploying
<1>4. ASSUME NEW r \in Roles, NEW stage \in Stages,
             DeployFailed(p, r, stage) \/ DeployInterrupted(r, stage)
      PROVE  ClusterStep
  <2>1. StageOwned(owned, status.id, r, stage) \subseteq owned \cup ManifestRefs(status.id, Roles)
    BY DEF StageOwned, OwnedSet, ManifestRefs, Earlier
  <2>2. owned' \subseteq StageOwned(owned, status.id, r, stage)
    BY <1>1, <1>4 DEF DeployFailed, DeployInterrupted, CleanedOwned
  <2>3. Stays \/ Ends("Failed")
    BY <1>4, FreshFail, FreshDie, SeenTypes DEF DeployFailed, DeployInterrupted
  <2> QED
    BY <1>1, <2>1, <2>2, <2>3 DEF ClusterStep, ClusterMoves, Deploying
<1> QED
  BY <1>2, <1>3, <1>4

LEMMA ActivatingCluster ==
  ASSUME TypeOK, Fresh, NoStaleReads, HandleTopologyDelay
  PROVE  ClusterStep
<1>1. Alive /\ status.subPhase = "TopologyDelay" /\ seen = status
  BY DEF HandleTopologyDelay, Dispatch, Alive, Fresh
<1>2. CASE CountDown(1)
  BY <1>2, FreshCountDown, WorldStays DEF CountDown, records
<1>3. CASE ~CountDown(1)
  <2>1. UNCHANGED <<live, log>>
    BY <1>3 DEF HandleTopologyDelay, records
  <2>2. PICK f \in Pick({"activateError", "staleTopology"}), p \in Pick(PatchFaults) :
          \/ /\ f # "activateError"
             /\ SameManifests /\ ActivateTopology(f)
             /\ Patch(p, seen, SetSubPhase(seen, "WaitingForTopology", 0), 0)
          \/ /\ Cleanup("activateError", seen.refs) /\ UNCHANGED topo
             /\ FailExperiment(p, seen)
    BY <1>3 DEF HandleTopologyDelay, SameManifests
  <2>3. CASE /\ f # "activateError"
             /\ SameManifests /\ ActivateTopology(f)
             /\ Patch(p, seen, SetSubPhase(seen, "WaitingForTopology", 0), 0)
    <3>1. "WaitingForTopology" \in SubPhases /\ 0 \in Nat
      BY Apart
    <3>2. Stays \/ Enters("WaitingForTopology", 0, status.meas, status.refs)
      BY <2>3, <3>1, FreshMove
    <3>3. f \in Pick({"staleTopology"})
      BY <2>3 DEF Pick
    <3> QED
      BY <1>1, <2>1, <2>3, <3>2, <3>3 DEF ClusterStep, ClusterMoves, Activating
  <2>4. CASE /\ Cleanup("activateError", seen.refs) /\ UNCHANGED topo
             /\ FailExperiment(p, seen)
    <3>1. Fails
      BY <1>1, <2>4, FailsNow
    <3>2. Undeployed
      BY <1>1, <2>4, CleanupCalls DEF Undeployed
    <3> QED
      BY <1>1, <2>1, <2>4, <3>1, <3>2 DEF ClusterStep, ClusterMoves, Activating
  <2> QED
    BY <2>2, <2>3, <2>4
<1> QED
  BY <1>2, <1>3

LEMMA WaitingCluster ==
  ASSUME TypeOK, Fresh, NoStaleReads, HandleWaitingForTopology
  PROVE  ClusterStep
<1>1. Alive /\ status.subPhase = "WaitingForTopology" /\ seen = status
  BY DEF HandleWaitingForTopology, Dispatch, Alive, Fresh
<1>2. CASE CountDown(2)
  BY <1>2, FreshCountDown, WorldStays DEF CountDown, records
<1>3. CASE TopologyUnread
  BY <1>3, FreshElsewhere, WorldStays DEF TopologyUnread, records
<1>4. CASE TopologyActive
  <2>1. /\ topo.phase = "Active" /\ UNCHANGED cluster /\ UNCHANGED log
    BY <1>4 DEF TopologyActive, records
  <2>2. PICK p \in Pick(PatchFaults) : Patch(p, seen, SetSubPhase(seen, "LoadDelay", LoadDelay), 0)
    BY <1>4 DEF TopologyActive
  <2>3. "LoadDelay" \in SubPhases /\ LoadDelay \in Nat
    BY Apart, ConstantTypes
  <2>4. Stays \/ Enters("LoadDelay", LoadDelay, status.meas, status.refs)
    BY <2>2, <2>3, FreshMove
  <2> QED
    BY <1>1, <2>1, <2>4, WorldStays
       DEF ClusterStep, ClusterMoves, Waiting, cluster, SameManifests
<1>5. CASE TopologyAbandoned
  <2>1. UNCHANGED <<live, log>> /\ topo.phase # "Active"
    BY <1>5 DEF TopologyAbandoned, records
  <2>2. PICK f \in Pick({"deactivateError", "staleTopology", "undeployError"}), p \in Pick(PatchFaults) :
          DeactivateTopology(f) /\ Cleanup(f, seen.refs) /\ FailExperiment(p, seen)
    BY <1>5 DEF TopologyAbandoned
  <2>3. Fails
    BY <1>1, <2>2, FailsNow
  <2> QED
    BY <1>1, <2>1, <2>2, <2>3 DEF ClusterStep, ClusterMoves, Waiting
<1> QED
  BY <1>2, <1>3, <1>4, <1>5 DEF HandleWaitingForTopology

LEMMA MeasuringCluster ==
  ASSUME TypeOK, Fresh, NoStaleReads, NEW s \in Measuring,
         NEW next \in {"ApplyingChaos", "Cleanup"}, HandleMeasurement(s, next)
  PROVE  (UNCHANGED log /\ World) \/ (Alive /\ MeasuringIn(s, next))
<1>1. UNCHANGED cluster
  BY DEF HandleMeasurement
<1>2. /\ Alive /\ status.subPhase = s
      /\ \/ Quiet /\ (Stays \/ Ends("Failed") \/ \E f : Samples(Recorded(f)))
         \/ WindowEnds(next)
  BY RunMeasurement
<1> QED
  BY <1>1, <1>2 DEF MeasuringIn, World, SameObjects, cluster, Quiet, records

LEMMA ApplyingCluster ==
  ASSUME TypeOK, Fresh, NoStaleReads, HandleApplyingChaos
  PROVE  ClusterStep
<1>1. /\ Alive /\ status.subPhase = "ApplyingChaos" /\ seen = status
      /\ UNCHANGED <<topo, log>>
  BY DEF HandleApplyingChaos, Dispatch, Alive, Fresh, records
<1>2. PICK p \in Pick(PatchFaults) :
        \/ ApplySucceeds(live, status.id, {}) /\ ChaosApplied(p)
        \/ \E refused : ChaosFailed(p, refused)
        \/ ChaosPhaseUnread(p)
        \/ \E k : ChaosInterrupted(k)
  BY <1>1 DEF HandleApplyingChaos
<1>3. \A refused : AppliedChaos(live, status.id, refused) \subseteq live \cup AllChaos(status.id)
  BY DEF AppliedChaos, CreatedObjects, AllChaos, ChaosRefs
<1>4. CASE ApplySucceeds(live, status.id, {}) /\ ChaosApplied(p)
  <2>1. \/ Stays
        \/ Enters("ChaosMeasurement", MeasurementDuration, <<>>,
                  status.refs \cup ReturnedRefs(live, status.id, {}))
    BY <1>4, FreshChaos
  <2> QED
    BY <1>1, <1>4, <2>1 DEF ChaosApplied, ClusterStep, ClusterMoves, ApplyingChaos, SameManifests
<1>5. ASSUME NEW refused, ChaosFailed(p, refused)
      PROVE  ClusterStep
  <2>1. live' \subseteq live \cup AllChaos(status.id)
    BY <1>1, <1>3, <1>5 DEF ChaosFailed, CleanedChaos
  <2>2. Undeployed
    BY <1>1, <1>5, CleanupCalls DEF ChaosFailed, Undeployed
  <2>3. Fails
    BY <1>1, <1>5, FailsNow DEF ChaosFailed
  <2> QED
    BY <1>1, <2>1, <2>2, <2>3 DEF ClusterStep, ClusterMoves, ApplyingChaos
<1>6. CASE ChaosPhaseUnread(p)
  <2>1. Undeployed
    BY <1>1, <1>6, CleanupCalls DEF ChaosPhaseUnread, Undeployed
  <2>2. Fails
    BY <1>1, <1>6, FailsNow DEF ChaosPhaseUnread
  <2> QED
    BY <1>1, <1>6, <2>1, <2>2 DEF ChaosPhaseUnread, ClusterStep, ClusterMoves, ApplyingChaos
<1>7. ASSUME NEW k, ChaosInterrupted(k)
      PROVE  ClusterStep
  <2>1. live' \subseteq live \cup AllChaos(status.id)
    BY <1>1, <1>3, <1>7 DEF ChaosInterrupted
  <2>2. Stays
    BY <1>7, FreshDie DEF ChaosInterrupted
  <2> QED
    BY <1>1, <1>7, <2>1, <2>2
       DEF ChaosInterrupted, ClusterStep, ClusterMoves, ApplyingChaos, SameManifests
<1> QED
  BY <1>2, <1>4, <1>5, <1>6, <1>7

LEMMA TearDownCluster ==
  ASSUME TypeOK, Fresh, NoStaleReads, HandleCleanup
  PROVE  ClusterStep
<1>1. /\ Alive /\ status.subPhase = "Cleanup" /\ seen = status
      /\ UNCHANGED log
  BY DEF HandleCleanup, Dispatch, Alive, Fresh
<1>2. PICK f \in Pick(TearDownFaults), p \in Pick(PatchFaults) :
        \/ TearDownInterrupted
        \/ TornDown(f) /\ FailExperiment(p, seen)
        \/ TornDown(f) /\ RepetitionDone(p)
  BY DEF HandleCleanup, TearDownFaults
<1>3. CASE TearDownInterrupted
  <2>1. Stays
    BY <1>3, FreshDie DEF TearDownInterrupted
  <2>2. Cleanup("none", seen.refs) => Undeployed
    BY <1>1, CleanupCalls DEF Undeployed
  <2> QED
    BY <1>1, <1>3, <2>1, <2>2
       DEF TearDownInterrupted, ClusterStep, ClusterMoves, TearingDown, SameManifests
<1>4. CASE TornDown(f) /\ (FailExperiment(p, seen) \/ RepetitionDone(p))
  <2>1. PauseBetweenRepetitions \in Nat /\ 0 \in Nat
    BY ConstantTypes
  <2>2. Stays \/ Ends("Failed") \/ Counts("Pause", PauseBetweenRepetitions) \/ Counts("", 0)
    BY <1>4, FreshFail, FreshRepetition, SeenTypes
  <2>3. Stays \/ Ends("Failed") \/ \E s \in Idle, d \in Nat : Counts(s, d)
    BY <2>1, <2>2, Apart
  <2>4. /\ \E stuck \in StuckObjects(f) : live' = CleanedChaos(live, status.refs, stuck)
        /\ Cleanup(f, status.refs)
        /\ IF UseTopology THEN DeactivateTopology(f) ELSE UNCHANGED topo
    BY <1>1, <1>4 DEF TornDown
  <2> QED
    BY <1>1, <2>3, <2>4 DEF ClusterStep, ClusterMoves, TearingDown
<1> QED
  BY <1>2, <1>3, <1>4

LEMMA WorldCluster ==
  ASSUME TypeOK, Fresh, NoStaleReads,
         \/ ReconcileTerminal \/ SpecEdit \/ TopologyController \/ TopologyCached
         \/ Restart \/ Tick \/ UNCHANGED vars
  PROVE  ClusterStep
<1>1. topo.active \in BOOLEAN
  BY DEF TypeOK
<1>2. CASE ReconcileTerminal \/ SpecEdit \/ UNCHANGED vars
  <2>1. UNCHANGED <<status, seen, watch>> /\ UNCHANGED cluster /\ UNCHANGED log
    BY <1>2 DEF ReconcileTerminal, SpecEdit, vars, records, cluster
  <2> QED
    BY <2>1, FreshElsewhere, WorldStays
<1>3. CASE Restart
  BY <1>3, FreshDie, WorldStays DEF Restart, records
<1>4. CASE Tick
  BY <1>4, FreshTick DEF Tick, ClusterStep, World, SameObjects, cluster, records
<1>5. CASE TopologyController \/ TopologyCached
  <2>1. UNCHANGED <<status, seen, watch>> /\ SameObjects /\ UNCHANGED log
    BY <1>5 DEF TopologyController, TopologyCached, SameObjects, records
  <2>2. topo'.active = topo.active /\ topo'.cached \in {topo.cached, topo.active}
    BY <1>5 DEF TopologyController, TopologyCached, TypeOK
  <2> QED
    BY <2>1, <2>2, FreshElsewhere DEF ClusterStep, World
<1> QED
  BY <1>2, <1>3, <1>4, <1>5

(* Every step of an experiment whose reads are fresh.                       *)
LEMMA ClusterSteps ==
  ASSUME TypeOK, Fresh, NoStaleReads, [Next]_vars
  PROVE  ClusterStep
<1>1. CASE Finalize
  <2>1. Alive /\ status.reps >= Repetitions /\ UNCHANGED cluster /\ UNCHANGED log
    BY <1>1 DEF Finalize, Alive, Fresh, records
  <2> QED
    BY <1>1, <2>1, FreshFinalize, WorldStays DEF ClusterStep, ClusterMoves, Finishing
<1>2. CASE HandleTimedWait("LoadDelay", "PreChaosMeasurement", ChaosDelay)
  <2>1. "PreChaosMeasurement" \in SubPhases /\ ChaosDelay \in Nat
    BY ConstantTypes DEF SubPhases, Measuring
  <2>2. UNCHANGED cluster /\ UNCHANGED log
    BY <1>2 DEF HandleTimedWait, CountDown, records
  <2> QED
    BY <1>2, <2>1, <2>2, RunTimedWait, WorldStays DEF ClusterStep, ClusterMoves, Loading
<1>3. CASE HandleTimedWait("Pause", "", 0)
  <2>1. "" \in SubPhases /\ 0 \in Nat /\ "" \in Idle /\ "Pause" \in Idle
    BY Apart DEF SubPhases
  <2>2. UNCHANGED cluster /\ UNCHANGED log
    BY <1>3 DEF HandleTimedWait, CountDown, records
  <2>3. Alive /\ status.subPhase = "Pause" /\ (Stays \/ Enters("", 0, status.meas, status.refs))
    BY <1>3, <2>1, RunTimedWait
  <2>4. status.subPhase \in Idle /\ (Stays \/ \E s \in Idle : Enters(s, 0, status.meas, status.refs))
    BY <2>1, <2>3
  <2> QED
    BY <2>2, <2>3, <2>4, WorldStays DEF ClusterStep, ClusterMoves, Pausing
<1>4. CASE HandleMeasurement("PreChaosMeasurement", "ApplyingChaos")
  BY <1>4, MeasuringCluster, "PreChaosMeasurement" \in Measuring DEF ClusterStep, ClusterMoves, Measuring
<1>5. CASE HandleMeasurement("ChaosMeasurement", "Cleanup")
  BY <1>5, MeasuringCluster, "ChaosMeasurement" \in Measuring DEF ClusterStep, ClusterMoves, Measuring
<1>6. CASE Done
  BY <1>6, WorldCluster DEF Done
<1> QED
  BY <1>1, <1>2, <1>3, <1>4, <1>5, <1>6, IdleCluster, DeployingCluster, ActivatingCluster,
     WaitingCluster, ApplyingCluster, TearDownCluster, WorldCluster, NothingDelivered
     DEF Next, Reconcile

-----------------------------------------------------------------------------
(* The chaos objects: which exist in which sub-phase, and what is measured  *)
(* while they do.  A Delete that fails is logged and forgotten, so without  *)
(* it no chaos object outlives its repetition.                              *)

NoStrayChaos == NoStaleReads /\ "chaosDeleteError" \notin Faults

LEMMA AllChaosNames ==
  ASSUME NEW id
  PROVE  {r.name : r \in AllChaos(id)} = ChaosNames
<1>1. \A o : ChaosRef(id, o).name = o.name
  BY DEF ChaosRef
<1>2. AllChaos(id) = {ChaosRef(id, ChaosObjects[i]) : i \in 1..Len(ChaosObjects)}
  BY DEF AllChaos, ChaosRefs
<1>3. ASSUME NEW x
      PROVE  x \in {r.name : r \in AllChaos(id)} <=> x \in ChaosNames
  BY <1>1, <1>2 DEF ChaosNames
<1> QED
  BY <1>3

(* Applying again succeeds only if nothing was left over, and then every    *)
(* object exists and is returned.                                           *)
LEMMA AppliedAll ==
  ASSUME NEW id, live \subseteq AllChaos(id), ApplySucceeds(live, id, {})
  PROVE  /\ live = {}
         /\ AppliedChaos(live, id, {}) = AllChaos(id)
         /\ ReturnedRefs(live, id, {}) = AllChaos(id)
<1>1. Conflicts(live, id) = {} /\ Failing(live, id, {}) = {}
  BY DEF ApplySucceeds, Failing
<1>2. \A i \in 1..Len(ChaosObjects) : ChaosRef(id, ChaosObjects[i]) \notin live
  BY <1>1 DEF Conflicts
<1>3. live = {}
  BY <1>2 DEF AllChaos, ChaosRefs
<1>4. CreatedObjects(live, id, {}) = 1..Len(ChaosObjects)
  BY <1>1 DEF CreatedObjects
<1>5. CompleteFaults(live, id, {}) = 1..Len(ChaosObjects)
  BY <1>4 DEF CompleteFaults
<1> QED
  BY <1>3, <1>4, <1>5 DEF AppliedChaos, ReturnedRefs, AllChaos, ChaosRefs

(* What the references name is deleted.                                     *)
LEMMA ChaosCleaned ==
  ASSUME live \subseteq ChaosObjectRef, NEW refs
  PROVE  /\ CleanedChaos(live, refs, {}) = live \ refs
         /\ live \subseteq refs => CleanedChaos(live, refs, {}) = {}
BY DEF CleanedChaos, ChaosObjectRef

(* The faults under which window w of a repetition is to be measured.       *)
FaultsIn(w) == IF UseChaos /\ w = "ChaosMeasurement" THEN ChaosNames ELSE {}

UnderFaults(samples, w) == \A j \in 1..Len(samples) : samples[j].faults = FaultsIn(w)

ChaosState ==
  Alive =>
    /\ status.subPhase \notin AfterBaseline => live = {}
    /\ status.subPhase = "ApplyingChaos" => UseChaos /\ live \subseteq AllChaos(status.id)
    /\ status.subPhase = "ChaosMeasurement" =>
         live = IF UseChaos THEN AllChaos(status.id) ELSE {}
    /\ status.subPhase \in {"ChaosMeasurement", "Cleanup"} => live \subseteq status.refs
    /\ status.subPhase \in Measuring => UnderFaults(status.meas, status.subPhase)

LogUnderFaults == \A k \in 1..Len(log) : UnderFaults(log[k].samples, log[k].window)

ChaosInv == ChaosState /\ LogUnderFaults

LEMMA LogUnderFaultsIs == LogUnderFaults <=> MeasuredUnderChaos
BY DEF LogUnderFaults, MeasuredUnderChaos, UnderFaults, FaultsIn

(* The objects that exist in a window are those it is to be measured under. *)
LEMMA WindowChaos ==
  ASSUME ChaosState, Alive, status.subPhase \in Measuring
  PROVE  {r.name : r \in live} = FaultsIn(status.subPhase)
<1>1. CASE status.subPhase = "PreChaosMeasurement"
  <2>1. live = {}
    BY <1>1 DEF ChaosState, AfterBaseline
  <2> QED
    BY <1>1, <2>1 DEF FaultsIn
<1>2. CASE status.subPhase = "ChaosMeasurement"
  <2>1. live = IF UseChaos THEN AllChaos(status.id) ELSE {}
    BY <1>2 DEF ChaosState
  <2>2. CASE UseChaos
    BY <1>2, <2>1, <2>2, AllChaosNames DEF FaultsIn
  <2>3. CASE ~UseChaos
    BY <1>2, <2>1, <2>3 DEF FaultsIn
  <2> QED
    BY <2>2, <2>3
<1> QED
  BY <1>1, <1>2 DEF Measuring

(* The next value is measured under them too.                               *)
LEMMA RecordedUnder ==
  ASSUME TypeOK, Fresh, ChaosState, Alive, status.subPhase \in Measuring, NEW f
  PROVE  UnderFaults(Recorded(f), status.subPhase)
<1> DEFINE s == [rep |-> seen.reps + 1, window |-> seen.subPhase, at |-> ElapsedSeconds,
                 faults |-> {r.name : r \in live}]
           m == status.meas
<1>1. s.faults = FaultsIn(status.subPhase)
  BY WindowChaos
<1>2. m \in Seq(Sample) /\ \A j \in 1..Len(m) : m[j].faults = FaultsIn(status.subPhase)
  BY SeenTypes DEF Fresh, ChaosState, UnderFaults
<1>3. Recorded(f) \in {m, Append(m, s)}
  BY DEF Recorded, Fresh
<1> HIDE DEF s, m
<1>4. CASE Recorded(f) = m
  BY <1>2, <1>4 DEF UnderFaults
<1>5. CASE Recorded(f) = Append(m, s)
  <2>1. \A j \in 1..Len(Append(m, s)) :
          Append(m, s)[j] = s \/ (j \in 1..Len(m) /\ Append(m, s)[j] = m[j])
    BY <1>2
  <2> QED
    BY <1>1, <1>2, <1>5, <2>1 DEF UnderFaults
<1> QED
  BY <1>3, <1>4, <1>5

(* What one more window in the measurements says.                           *)
LEMMA LoggedUnder ==
  ASSUME TypeOK, Fresh, ChaosInv, Alive, status.subPhase \in Measuring, NEW next, WindowEnds(next)
  PROVE  LogUnderFaults'
<1>1. PICK f : log' = Append(log, [rep |-> status.reps + 1, window |-> status.subPhase,
                                   samples |-> Recorded(f)])
  BY DEF WindowEnds
<1> DEFINE e == [rep |-> status.reps + 1, window |-> status.subPhase, samples |-> Recorded(f)]
<1>2. UnderFaults(e.samples, e.window)
  BY RecordedUnder DEF ChaosInv
<1>3. log \in Seq(LogEntry) /\ log' = Append(log, e)
  BY <1>1 DEF TypeOK
<1> HIDE DEF e
<1>4. \A k \in 1..Len(log') : log'[k] = e \/ (k \in 1..Len(log) /\ log'[k] = log[k])
  BY <1>3
<1>5. \A k \in 1..Len(log') : UnderFaults(log'[k].samples, log'[k].window)
  BY <1>2, <1>4 DEF ChaosInv, LogUnderFaults
<1> QED
  BY <1>5 DEF LogUnderFaults, UnderFaults

(* Every move keeps the chaos objects in line with the status.              *)
LEMMA ChaosStep ==
  ASSUME NoStrayChaos, TypeOK, TypeOK', Fresh, RecordsInv, ChaosInv, ClusterStep
  PROVE  ChaosInv'
<1>1. /\ live \subseteq ChaosObjectRef /\ status.subPhase \in SubPhases
      /\ status.meas \in Seq(Sample)
  BY DEF TypeOK, Status
<1>2. UNCHANGED log => LogUnderFaults'
  BY DEF ChaosInv, LogUnderFaults, UnderFaults
<1>3. ChaosState
  BY DEF ChaosInv
<1>4. CASE UNCHANGED log /\ World
  <2>1. /\ status'.phase = status.phase /\ status'.subPhase = status.subPhase
        /\ status'.meas = status.meas /\ status'.refs = status.refs /\ status'.id = status.id
        /\ live' = live
    BY <1>4 DEF World, SameObjects, Stays, Ages, KeepsRun
  <2>2. ChaosState'
    BY <1>3, <2>1 DEF ChaosState, Alive, UnderFaults
  <2> QED
    BY <1>2, <1>4, <2>2 DEF ChaosInv
<1>5. ASSUME NEW phase \in Terminal, Ends(phase)
      PROVE  ChaosState'
  BY <1>5 DEF Ends, ChaosState, Alive
<1>6. ASSUME Alive, status.subPhase \notin AfterBaseline, status.subPhase \notin Measuring,
             Stays \/ (status'.subPhase \notin AfterBaseline /\ status'.subPhase \notin Measuring),
             UNCHANGED live
      PROVE  ChaosState'
  <2>1. live' = {}
    BY <1>3, <1>6 DEF ChaosState
  <2>2. CASE Stays
    BY <1>3, <1>6, <2>1, <2>2 DEF Stays, ChaosState, AfterBaseline, Measuring
  <2>3. CASE status'.subPhase \notin AfterBaseline /\ status'.subPhase \notin Measuring
    BY <2>1, <2>3 DEF ChaosState, AfterBaseline
  <2> QED
    BY <1>6, <2>2, <2>3
<1>7. ASSUME Alive, Starting
      PROVE  ChaosState'
  <2>1. status'.subPhase = "Deploying" /\ live' = live /\ status.subPhase \in Idle
    BY <1>7 DEF Starting, Starts, cluster
  <2> QED
    BY <1>6, <1>7, <2>1, Apart
<1>8. ASSUME Alive, Deploying
      PROVE  ChaosState'
  <2>1. CASE Ends("Failed")
    BY <1>5, <2>1 DEF Terminal
  <2>2. CASE ~Ends("Failed")
    <3>1. /\ Stays \/ status'.subPhase \in {"TopologyDelay", "LoadDelay"}
          /\ live' = live /\ status.subPhase = "Deploying"
      BY <1>8, <2>2 DEF Deploying, Enters
    <3> QED
      BY <1>6, <1>8, <3>1 DEF AfterBaseline, Measuring
  <2> QED
    BY <2>1, <2>2
<1>9. ASSUME Alive, (Activating \/ Waiting)
      PROVE  ChaosState'
  <2>1. CASE Ends("Failed")
    BY <1>5, <2>1 DEF Terminal
  <2>2. CASE ~Ends("Failed")
    <3>1. /\ Stays \/ status'.subPhase \in {"WaitingForTopology", "LoadDelay"}
          /\ live' = live /\ status.subPhase \in {"TopologyDelay", "WaitingForTopology"}
      BY <1>9, <2>2 DEF Activating, Waiting, Enters, Fails
    <3> QED
      BY <1>6, <1>9, <3>1 DEF AfterBaseline, Measuring
  <2> QED
    BY <2>1, <2>2
<1>10. ASSUME Alive, Loading
       PROVE  ChaosState'
  <2>1. status'.subPhase = "PreChaosMeasurement" /\ status'.meas = status.meas /\ live' = live
    BY <1>10 DEF Loading, Enters, cluster
  <2>2. live = {} /\ status.meas = <<>>
    BY <1>3, <1>10 DEF Loading, ChaosState, AfterBaseline, RecordsInv, WindowState, Before
  <2> QED
    BY <2>1, <2>2 DEF ChaosState, AfterBaseline, UnderFaults
<1>11. ASSUME Alive, Pausing
       PROVE  ChaosState'
  <2>1. status'.subPhase \in Idle /\ live' = live /\ status.subPhase \in Idle
    BY <1>11 DEF Pausing, Enters, cluster
  <2> QED
    BY <1>6, <1>11, <2>1, Apart
<1>12. ASSUME Alive, NEW s, NEW next, MeasuringIn(s, next), s \in Measuring,
              next = IF s = "PreChaosMeasurement" THEN "ApplyingChaos" ELSE "Cleanup"
       PROVE  ChaosInv'
  <2>1. status.subPhase = s /\ live' = live
    BY <1>12 DEF MeasuringIn, cluster
  <2>2. CASE Quiet /\ Ends("Failed")
    BY <1>2, <1>5, <2>2 DEF ChaosInv, Quiet, records, Terminal
  <2>3. CASE Quiet /\ \E f : Samples(Recorded(f))
    <3>1. PICK f : Samples(Recorded(f))
      BY <2>3
    <3>2. UnderFaults(Recorded(f), status.subPhase)
      BY <1>3, <1>12, <2>1, RecordedUnder
    <3>3. /\ status'.subPhase = status.subPhase /\ status'.meas = Recorded(f)
          /\ status'.id = status.id /\ status'.refs = status.refs /\ status'.phase = status.phase
      BY <3>1 DEF Samples, KeepsRun
    <3>4. UnderFaults(status.meas, status.subPhase)'
      BY <3>2, <3>3 DEF UnderFaults
    <3>5. ChaosState'
      BY <1>3, <2>1, <3>3, <3>4 DEF ChaosState, Alive
    <3> QED
      BY <1>2, <2>3, <3>5 DEF ChaosInv, Quiet, records
  <2>4. CASE WindowEnds(next)
    <3>1. LogUnderFaults'
      BY <1>12, <2>1, <2>4, LoggedUnder
    <3>2. CASE Stays
      <4>1. ChaosState'
        BY <1>3, <2>1, <3>2 DEF Stays, ChaosState, Alive, UnderFaults
      <4> QED
        BY <3>1, <4>1 DEF ChaosInv
    <3>3. CASE ~Stays
      <4> DEFINE to == AfterWindow(next)
      <4>1. PICK f : Enters(to, MeasurementDuration,
                            IF to = "ChaosMeasurement" THEN <<>> ELSE Recorded(f), status.refs)
        BY <2>4, <3>3 DEF WindowEnds
      <4>2. CASE s = "PreChaosMeasurement"
        <5>1. to = IF UseChaos THEN "ApplyingChaos" ELSE "ChaosMeasurement"
          BY <1>12, <4>2 DEF AfterWindow
        <5>2. live = {}
          BY <1>3, <1>12, <2>1, <4>2 DEF ChaosState, AfterBaseline
        <5>3. CASE UseChaos
          <6>1. status'.subPhase = "ApplyingChaos" /\ live' = {}
            BY <2>1, <4>1, <5>1, <5>2, <5>3 DEF Enters
          <6> QED
            BY <3>1, <5>3, <6>1 DEF ChaosInv, ChaosState, AfterBaseline, Measuring
        <5>4. CASE ~UseChaos
          <6>1. status'.subPhase = "ChaosMeasurement" /\ live' = {} /\ status'.meas = <<>>
            BY <2>1, <4>1, <5>1, <5>2, <5>4 DEF Enters
          <6> QED
            BY <3>1, <5>4, <6>1 DEF ChaosInv, ChaosState, AfterBaseline, UnderFaults
        <5> QED
          BY <5>3, <5>4
      <4>3. CASE s = "ChaosMeasurement"
        <5>1. to = "Cleanup"
          BY <1>12, <4>3 DEF AfterWindow
        <5>2. live \subseteq status.refs
          BY <1>3, <1>12, <2>1, <4>3 DEF ChaosState
        <5>3. status'.subPhase = "Cleanup" /\ live' \subseteq status'.refs
          BY <2>1, <4>1, <5>1, <5>2 DEF Enters
        <5> QED
          BY <3>1, <5>3 DEF ChaosInv, ChaosState, AfterBaseline, Measuring
      <4> QED
        BY <1>12, <4>2, <4>3 DEF Measuring
    <3> QED
      BY <3>2, <3>3
  <2> QED
    BY <1>12, <2>2, <2>3, <2>4 DEF MeasuringIn
<1>13. ASSUME Alive, ApplyingChaos
       PROVE  ChaosState'
  <2>1. UseChaos /\ live \subseteq AllChaos(status.id) /\ status.subPhase = "ApplyingChaos"
    BY <1>3, <1>13 DEF ApplyingChaos, ChaosState
  <2>2. CASE Ends("Failed")
    BY <1>5, <2>2 DEF Terminal
  <2>3. CASE Stays
    <3>1. live' \subseteq live \cup AllChaos(status.id)
      BY <1>13, <2>1, AppliedAll DEF ApplyingChaos
    <3> QED
      BY <2>1, <2>3, <3>1 DEF Stays, ChaosState, AfterBaseline, Measuring
  <2>4. CASE ~Stays /\ ~Ends("Failed")
    <3>1. /\ ApplySucceeds(live, status.id, {})
          /\ live' = AppliedChaos(live, status.id, {})
          /\ Enters("ChaosMeasurement", MeasurementDuration, <<>>,
                    status.refs \cup ReturnedRefs(live, status.id, {}))
      BY <1>13, <2>4 DEF ApplyingChaos, Fails
    <3>2. live' = AllChaos(status.id) /\ ReturnedRefs(live, status.id, {}) = AllChaos(status.id)
      BY <2>1, <3>1, AppliedAll
    <3>3. /\ status'.subPhase = "ChaosMeasurement" /\ status'.meas = <<>>
          /\ status'.id = status.id /\ live' \subseteq status'.refs
      BY <3>1, <3>2 DEF Enters, KeepsRun
    <3>4. live' = AllChaos(status'.id)
      BY <3>2, <3>3
    <3> QED
      BY <2>1, <3>3, <3>4 DEF ChaosState, AfterBaseline, UnderFaults, AllChaos
  <2> QED
    BY <2>2, <2>3, <2>4
<1>14. ASSUME Alive, TearingDown
       PROVE  ChaosState'
  <2>1. live \subseteq status.refs /\ status.subPhase = "Cleanup"
    BY <1>3, <1>14 DEF TearingDown, ChaosState
  <2>2. \A f \in Pick(TearDownFaults) : StuckObjects(f) = {{}}
    BY DEF Pick, StuckObjects, NoStrayChaos
  <2>3. live' = {}
    <3>1. live' = CleanedChaos(live, status.refs, {})
      BY <1>14, <2>2 DEF TearingDown
    <3> QED
      BY <1>1, <2>1, <3>1, ChaosCleaned
  <2>4. Stays \/ Ends("Failed") \/ \E s \in Idle, d \in Nat : Counts(s, d)
    BY <1>14 DEF TearingDown
  <2>5. CASE Ends("Failed")
    BY <1>5, <2>5 DEF Terminal
  <2>6. CASE Stays
    BY <2>1, <2>3, <2>6 DEF Stays, ChaosState, AfterBaseline, Measuring
  <2>7. CASE \E s \in Idle, d \in Nat : Counts(s, d)
    <3>1. status'.subPhase \in Idle
      BY <2>7 DEF Counts
    <3> QED
      BY <2>3, <3>1, Apart DEF ChaosState
  <2> QED
    BY <2>4, <2>5, <2>6, <2>7
<1>15. ASSUME Finishing
       PROVE  ChaosState'
  BY <1>5, <1>15 DEF Finishing, Terminal
<1>16. CASE Alive /\ UNCHANGED log /\ (\/ Starting \/ Deploying \/ Activating \/ Waiting \/ Loading
                                       \/ Pausing \/ ApplyingChaos \/ TearingDown \/ Finishing)
  BY <1>2, <1>7, <1>8, <1>9, <1>10, <1>11, <1>13, <1>14, <1>15, <1>16 DEF ChaosInv
<1>17. CASE Alive /\ (\/ MeasuringIn("PreChaosMeasurement", "ApplyingChaos")
                      \/ MeasuringIn("ChaosMeasurement", "Cleanup"))
  BY <1>12, <1>17 DEF Measuring
<1> QED
  BY <1>4, <1>16, <1>17 DEF ClusterStep, ClusterMoves

LEMMA ChaosInit == Init => ChaosInv
<1> SUFFICES ASSUME Init PROVE ChaosInv
  OBVIOUS
<1>1. status.subPhase \in Idle /\ live = {} /\ Len(log) = 0
  BY Apart DEF Init, Created
<1>2. /\ status.subPhase \notin AfterBaseline /\ status.subPhase \notin Measuring
      /\ status.subPhase \notin {"ApplyingChaos", "ChaosMeasurement", "Cleanup"}
  BY <1>1, Apart
<1> QED
  BY <1>1, <1>2 DEF ChaosInv, ChaosState, LogUnderFaults

LEMMA ChaosHolds ==
  ASSUME NoStrayChaos
  PROVE  Spec => []ChaosInv
<1>1. NoStaleReads
  BY DEF NoStrayChaos
<1>2. TypeOK /\ TypeOK' /\ Fresh /\ RecordsInv /\ ChaosInv /\ [Next]_vars
        => Fresh' /\ RecordsInv' /\ ChaosInv'
  BY <1>1, RunSteps, RecordsStep, ClusterSteps, ChaosStep
<1> QED
  BY <1>2, FreshInit, RecordsInit, ChaosInit, TypeCorrect, PTL DEF Spec

(* Whatever fails, short of a Delete of a chaos object, and whenever the    *)
(* operator dies: a baseline value was measured with no chaos object in the *)
(* cluster, a value of the chaos window with all of them.                   *)
THEOREM BaselineApartFromChaos ==
  ASSUME NoStrayChaos
  PROVE  Spec => []MeasuredUnderChaos
<1>1. ChaosInv => MeasuredUnderChaos
  BY LogUnderFaultsIs DEF ChaosInv
<1> QED
  BY <1>1, ChaosHolds, PTL

(* While the experiment runs, the status names what exists, or the objects  *)
(* are of the identifier under which the chaos is applied.                  *)
LEMMA TrackedAlive ==
  ASSUME TypeOK, ChaosState, Alive
  PROVE  ChaosTracked
<1>1. CASE status.subPhase \notin AfterBaseline
  <2>1. live = {}
    BY <1>1 DEF ChaosState
  <2> QED
    BY <2>1 DEF ChaosTracked
<1>2. CASE status.subPhase = "ApplyingChaos"
  BY <1>2 DEF ChaosState, ChaosTracked, AllChaos
<1>3. CASE status.subPhase \in {"ChaosMeasurement", "Cleanup"}
  BY <1>3 DEF ChaosState, ChaosTracked
<1> QED
  BY <1>1, <1>2, <1>3 DEF AfterBaseline

(* A step that ends the experiment, and those after it, lose no object: a   *)
(* failed application keeps its sub-phase and its identifier, a failed      *)
(* cleanup has deleted them all.                                            *)
LEMMA TrackedOver ==
  ASSUME NoStrayChaos, TypeOK, ChaosInv, ChaosTracked, ClusterStep, ~Alive'
  PROVE  ChaosTracked'
<1>1. live \subseteq ChaosObjectRef /\ ChaosState
  BY DEF TypeOK, ChaosInv
<1>2. ASSUME status'.subPhase = status.subPhase, status'.refs = status.refs,
             status'.id = status.id, live' \subseteq live
      PROVE  ChaosTracked'
  BY <1>2 DEF ChaosTracked, ChaosRefs
<1>3. CASE World
  BY <1>2, <1>3 DEF World, SameObjects, Stays, Ages, KeepsRun
<1>4. ASSUME Stays, Alive
      PROVE  FALSE
  BY <1>4 DEF Stays, Alive
<1>5. ASSUME NEW phase, Ends(phase)
      PROVE  /\ status'.subPhase = status.subPhase /\ status'.refs = status.refs
             /\ status'.id = status.id
  BY <1>5 DEF Ends, KeepsRun
<1>6. CASE Alive /\ ApplyingChaos
  <2>1. Ends("Failed") /\ live' \subseteq live \cup AllChaos(status.id)
    BY <1>4, <1>6 DEF ApplyingChaos, Enters, Fails, Alive
  <2>2. status'.subPhase = "ApplyingChaos" /\ status'.id = status.id /\ status'.refs = status.refs
    BY <1>5, <1>6, <2>1 DEF ApplyingChaos
  <2>3. live \subseteq AllChaos(status.id)
    BY <1>1, <1>6 DEF ApplyingChaos, ChaosState
  <2> QED
    BY <2>1, <2>2, <2>3 DEF ChaosTracked, ChaosRefs, AllChaos
<1>7. CASE Alive /\ TearingDown
  <2>1. live \subseteq status.refs /\ status.subPhase = "Cleanup"
    BY <1>1, <1>7 DEF TearingDown, ChaosState
  <2>2. \A f \in Pick(TearDownFaults) : StuckObjects(f) = {{}}
    BY DEF Pick, StuckObjects, NoStrayChaos
  <2>3. live' = CleanedChaos(live, status.refs, {})
    BY <1>7, <2>2 DEF TearingDown
  <2>4. live' = {}
    BY <1>1, <2>1, <2>3, ChaosCleaned
  <2> QED
    BY <2>4 DEF ChaosTracked
<1>8. CASE Alive /\ (\/ Starting \/ Deploying \/ Activating \/ Waiting \/ Loading \/ Pausing
                    \/ Finishing \/ \E s, next : MeasuringIn(s, next))
  <2>1. UNCHANGED live
    BY <1>8 DEF Starting, Deploying, Activating, Waiting, Loading, Pausing, Finishing,
       MeasuringIn, cluster
  <2>2. ASSUME status'.phase = status.phase
        PROVE  FALSE
    BY <1>8, <2>2 DEF Alive
  <2>3. ASSUME NEW id, Starts(id)
        PROVE  FALSE
    BY <2>3 DEF Starts, Alive, Terminal
  <2>4. CASE Starting
    BY <2>3, <2>4 DEF Starting
  <2>5. CASE Deploying \/ Activating \/ Waiting \/ Loading \/ Pausing \/ Finishing
    <3>1. \E phase : Ends(phase)
      BY <1>4, <1>8, <2>2, <2>5 DEF Deploying, Activating, Waiting, Loading, Pausing, Finishing,
         Enters, Fails
    <3> QED
      BY <1>2, <1>5, <2>1, <3>1
  <2>6. CASE \E s, next : MeasuringIn(s, next)
    <3>1. \E phase : Ends(phase)
      BY <1>4, <1>8, <2>2, <2>6 DEF MeasuringIn, Enters, Samples, WindowEnds
    <3> QED
      BY <1>2, <1>5, <2>1, <3>1
  <2> QED
    BY <1>8, <2>4, <2>5, <2>6
<1> QED
  BY <1>3, <1>6, <1>7, <1>8 DEF ClusterStep, ClusterMoves

(* A chaos object that exists can be named from the status alone: by its    *)
(* references, or, while the chaos is applied and after that has failed,    *)
(* by the identifier of the repetition.                                     *)
THEOREM ChaosIsTracked ==
  ASSUME NoStrayChaos
  PROVE  Spec => []ChaosTracked
<1>1. NoStaleReads
  BY DEF NoStrayChaos
<1>2. TypeOK /\ ChaosInv /\ Alive => ChaosTracked
  BY TrackedAlive DEF ChaosInv
<1>3. TypeOK /\ Fresh /\ ChaosInv /\ ChaosTracked /\ ~Alive' /\ [Next]_vars => ChaosTracked'
  BY <1>1, ClusterSteps, TrackedOver
<1>4. TypeOK /\ TypeOK' /\ Fresh /\ [Next]_vars => Fresh'
  BY <1>1, RunSteps
<1>5. Init => ChaosTracked
  BY DEF Init, ChaosTracked
<1> QED
  BY <1>2, <1>3, <1>4, <1>5, FreshInit, ChaosHolds, TypeCorrect, PTL DEF Spec

-----------------------------------------------------------------------------
(* What a successful experiment leaves behind: nothing, as long as no call  *)
(* of a cleanup fails, for those failures are logged and forgotten, the     *)
(* topology cache is never late, for a Topology that looks off is not       *)
(* switched off, and every manifest names its namespace, for the others are *)
(* never deleted.                                                           *)

NothingForgotten ==
  /\ NoStrayChaos
  /\ Faults \cap {"undeployError", "deactivateError", "staleTopology"} = {}
  /\ Namespaced = Roles

(* Once every repetition is counted, nothing of one is going on.            *)
RepetitionsOver == Alive /\ status.reps >= Repetitions => status.subPhase \in Idle

(* No repetition begins once all are counted.                               *)
LEMMA OverStep ==
  ASSUME TypeOK, RepetitionsOver, ClusterStep
  PROVE  RepetitionsOver'
<1>1. CASE World
  <2>1. /\ status'.phase = status.phase /\ status'.subPhase = status.subPhase
        /\ status'.reps = status.reps
    BY <1>1 DEF World, Stays, Ages, KeepsRun
  <2> QED
    BY <2>1 DEF RepetitionsOver, Alive
<1>2. ASSUME NEW phase \in Terminal, Ends(phase)
      PROVE  RepetitionsOver'
  BY <1>2 DEF Ends, RepetitionsOver, Alive
<1>3. ASSUME status'.subPhase \in Idle
      PROVE  RepetitionsOver'
  BY <1>3 DEF RepetitionsOver
<1>4. ASSUME Alive, status.subPhase \notin Idle, status'.reps = status.reps
      PROVE  RepetitionsOver'
  BY <1>4 DEF RepetitionsOver
<1>5. ASSUME Alive, status.subPhase \notin Idle, UNCHANGED status
      PROVE  RepetitionsOver'
  BY <1>4, <1>5
<1>6. CASE Starting
  <2>1. status.reps \in Nat /\ Repetitions \in Nat
    BY ExperimentAssumption DEF TypeOK, Status, Repetitions
  <2>2. status'.reps = status.reps /\ status.reps < Repetitions
    BY <1>6 DEF Starting, Starts
  <2> QED
    BY <2>1, <2>2 DEF RepetitionsOver
<1>7. CASE Alive /\ (Deploying \/ Activating \/ Waiting \/ Loading \/ ApplyingChaos)
  <2>1. status.subPhase \in Before \cup AfterBaseline
    BY <1>7 DEF Deploying, Activating, Waiting, Loading, ApplyingChaos, Before, AfterBaseline
  <2>2. status.subPhase \notin Idle
    BY <2>1, Apart
  <2>3. status'.reps = status.reps
    BY <1>7 DEF Deploying, Activating, Waiting, Loading, ApplyingChaos, Fails, Ends, Enters,
       Stays, KeepsRun
  <2> QED
    BY <1>4, <1>7, <2>2, <2>3
<1>8. CASE Pausing
  BY <1>3, <1>8 DEF Pausing, Enters
<1>9. CASE Alive /\ TearingDown
  <2>1. Stays \/ Ends("Failed") \/ status'.subPhase \in Idle
    BY <1>9 DEF TearingDown, Counts
  <2>2. status.subPhase \notin Idle
    BY <1>9, Apart DEF TearingDown
  <2> QED
    BY <1>2, <1>3, <1>5, <1>9, <2>1, <2>2 DEF Stays, Terminal
<1>10. CASE Finishing
  BY <1>2, <1>10 DEF Finishing, Terminal
<1>11. ASSUME Alive, NEW s \in Measuring, NEW next, MeasuringIn(s, next)
       PROVE  RepetitionsOver'
  <2>1. status.subPhase \in Measuring
    BY <1>11 DEF MeasuringIn
  <2>2. status.subPhase \notin Idle
    BY <2>1, Apart
  <2>3. status'.reps = status.reps
    BY <1>11 DEF MeasuringIn, WindowEnds, Stays, Ends, Samples, Enters, KeepsRun
  <2> QED
    BY <1>4, <1>11, <2>2, <2>3
<1>12. "PreChaosMeasurement" \in Measuring /\ "ChaosMeasurement" \in Measuring
  BY DEF Measuring
<1> QED
  BY <1>1, <1>6, <1>7, <1>8, <1>9, <1>10, <1>11, <1>12 DEF ClusterStep, ClusterMoves

(* A deployed role has its owned ConfigMap, and the status names it.        *)
Backed == \A r \in deployed : \E ref \in owned \cap status.refs : ref.name = r

TidyState ==
  Alive =>
    /\ status.subPhase \in Idle => owned = {} /\ deployed = {} /\ ~topo.active
    /\ status.subPhase = "Deploying" =>
         ~topo.active /\ owned \subseteq ManifestRefs(status.id, Roles)
    /\ status.subPhase = "TopologyDelay" => UseTopology
    /\ status.subPhase \notin Idle \cup {"Deploying"} => owned \subseteq status.refs /\ Backed

TopologyTidy == topo.active => topo.cached /\ UseTopology

TidyInv == TopologyTidy /\ TidyState /\ SucceededClean

(* Undeploying what is all backed leaves nothing.                           *)
LEMMA UndeployedAll ==
  ASSUME Namespaced = Roles, deployed \subseteq Roles, owned \subseteq status.refs, Backed,
         Undeployed
  PROVE  owned' = {} /\ deployed' = {}
BY DEF Undeployed, CleanedOwned, CleanedDeployed, Backed

(* What a switch of the topology does: nothing, or what was asked for.      *)
LEMMA TopologySwitched ==
  ASSUME TypeOK, NEW f, NEW wanted \in BOOLEAN, SetActive(f, wanted)
  PROVE  /\ topo'.phase = topo.phase
         /\ \/ UNCHANGED topo /\ (f = "deactivateError" \/ topo.cached = wanted)
            \/ /\ topo'.active = wanted /\ topo.cached # wanted
               /\ topo'.cached = (IF f = "staleTopology" THEN topo.cached ELSE wanted)
<1>1. topo \in [active : BOOLEAN, cached : BOOLEAN, phase : TopologyPhases]
  BY DEF TypeOK
<1> QED
  BY <1>1 DEF SetActive

(* Deployed in full, every role is backed.                                  *)
LEMMA DeployedBacked ==
  ASSUME NEW id, owned' = ManifestRefs(id, Roles), status'.refs = owned', deployed' \subseteq Roles
  PROVE  Backed'
<1> SUFFICES ASSUME NEW r \in deployed'
             PROVE  \E ref \in owned' \cap status'.refs : ref.name = r
  BY DEF Backed
<1>1. ManifestRef(id, r) \in owned' \cap status'.refs
  BY DEF ManifestRefs
<1>2. ManifestRef(id, r).name = r
  BY DEF ManifestRef
<1> QED
  BY <1>1, <1>2

(* The topology is on only if its cache knows, so that it can be switched   *)
(* off.                                                                     *)
LEMMA TidyTopology ==
  ASSUME NothingForgotten, TypeOK, TidyInv, ClusterStep
  PROVE  TopologyTidy'
<1>1. topo.active \in BOOLEAN /\ topo.cached \in BOOLEAN
  BY DEF TypeOK
<1>2. TopologyTidy /\ TidyState
  BY DEF TidyInv
<1>3. CASE UNCHANGED topo
  BY <1>2, <1>3 DEF TopologyTidy
<1>4. CASE World
  BY <1>1, <1>2, <1>4 DEF World, TopologyTidy
<1>5. CASE Alive /\ Activating
  <2>1. UseTopology
    BY <1>2, <1>5 DEF Activating, TidyState
  <2>2. ASSUME NEW f \in Pick({"staleTopology"}), ActivateTopology(f)
        PROVE  TopologyTidy'
    <3>1. f # "staleTopology"
      BY DEF Pick, NothingForgotten
    <3>2. \/ UNCHANGED topo
          \/ topo'.active = TRUE /\ topo'.cached = TRUE
      BY <2>2, <3>1, TopologySwitched, TRUE \in BOOLEAN DEF ActivateTopology
    <3> QED
      BY <1>3, <2>1, <3>2 DEF TopologyTidy
  <2> QED
    BY <1>3, <1>5, <2>2 DEF Activating
<1>6. ASSUME NEW f, DeactivateTopology(f)
      PROVE  TopologyTidy'
  BY <1>2, <1>6, TopologySwitched DEF DeactivateTopology, TopologyTidy
<1>7. CASE Waiting
  BY <1>3, <1>6, <1>7 DEF Waiting
<1>8. CASE TearingDown
  BY <1>3, <1>6, <1>8 DEF TearingDown
<1>9. CASE \/ Starting \/ Deploying \/ Loading \/ Pausing \/ ApplyingChaos \/ Finishing
           \/ \E s, next : MeasuringIn(s, next)
  BY <1>3, <1>9 DEF Starting, Deploying, Loading, Pausing, ApplyingChaos, Finishing, MeasuringIn,
     cluster
<1> QED
  BY <1>4, <1>5, <1>7, <1>8, <1>9 DEF ClusterStep, ClusterMoves

(* The end of a repetition or of a run takes what there is with it.         *)
LEMMA TidyTearDown ==
  ASSUME NothingForgotten, TypeOK, TidyInv, Alive, TearingDown
  PROVE  \/ owned' = {} /\ deployed' = {} /\ ~topo'.active
         \/ Stays /\ owned' \subseteq status'.refs /\ Backed'
<1>1. deployed \subseteq Roles
  BY DEF TypeOK
<1>2. status.subPhase = "Cleanup" /\ owned \subseteq status.refs /\ Backed
  BY Apart DEF TearingDown, TidyInv, TidyState
<1>3. CASE \E f \in Pick(TearDownFaults) :
             /\ Cleanup(f, status.refs)
             /\ IF UseTopology THEN DeactivateTopology(f) ELSE UNCHANGED topo
  <2>1. PICK f \in Pick(TearDownFaults) :
               /\ Cleanup(f, status.refs)
               /\ IF UseTopology THEN DeactivateTopology(f) ELSE UNCHANGED topo
    BY <1>3
  <2>2. f # "undeployError" /\ f # "deactivateError"
    BY DEF Pick, NothingForgotten
  <2>3. Undeployed
    BY <2>1, <2>2, CleanupCalls DEF Undeployed
  <2>4. ~topo'.active
    <3>1. topo.active \in BOOLEAN /\ topo.cached \in BOOLEAN /\ FALSE \in BOOLEAN
      BY DEF TypeOK
    <3>2. TopologyTidy
      BY DEF TidyInv
    <3>3. CASE UseTopology
      <4>1. (UNCHANGED topo /\ topo.cached = FALSE) \/ topo'.active = FALSE
        BY <2>1, <2>2, <3>1, <3>3, TopologySwitched DEF DeactivateTopology
      <4> QED
        BY <3>2, <4>1 DEF TopologyTidy
    <3>4. CASE ~UseTopology
      BY <2>1, <3>2, <3>4 DEF TopologyTidy
    <3> QED
      BY <3>3, <3>4
  <2> QED
    <3>1. owned' = {} /\ deployed' = {}
      BY <1>1, <1>2, <2>3, UndeployedAll DEF NothingForgotten
    <3> QED
      BY <2>4, <3>1
<1>4. CASE (SameManifests \/ Undeployed) /\ Stays
  <2>1. CASE SameManifests
    BY <1>2, <1>4, <2>1 DEF SameManifests, Stays, Backed
  <2>2. CASE Undeployed
    <3>1. owned' = {} /\ deployed' = {}
      BY <1>1, <1>2, <2>2, UndeployedAll DEF NothingForgotten
    <3> QED
      BY <1>4, <3>1 DEF Backed
  <2> QED
    BY <1>4, <2>1, <2>2
<1> QED
  BY <1>3, <1>4 DEF TearingDown

(* Every move keeps what is deployed backed by references of the status.    *)
LEMMA TidyStateStep ==
  ASSUME NothingForgotten, TypeOK, TypeOK', TidyInv, ClusterStep
  PROVE  TidyState'
<1>1. /\ deployed \subseteq Roles /\ deployed' \subseteq Roles
      /\ TidyState
  BY DEF TypeOK, TidyInv
<1>2. ASSUME SameManifests, topo'.active = topo.active, UNCHANGED topo \/ World,
             status'.phase = status.phase, status'.subPhase = status.subPhase,
             status'.refs = status.refs, status'.id = status.id
      PROVE  TidyState'
  BY <1>1, <1>2 DEF TidyState, Alive, SameManifests, Backed
<1>3. CASE World
  BY <1>2, <1>3 DEF World, SameObjects, SameManifests, Stays, Ages, KeepsRun
<1>4. ASSUME NEW phase \in Terminal, Ends(phase)
      PROVE  TidyState'
  BY <1>4 DEF Ends, TidyState, Alive
<1>5. "Failed" \in Terminal /\ "Succeeded" \in Terminal
  BY DEF Terminal
<1>6. CASE Alive /\ Starting
  <2>1. owned = {} /\ deployed = {} /\ ~topo.active
    BY <1>1, <1>6 DEF Starting, TidyState
  <2>2. status'.subPhase = "Deploying" /\ owned' = {} /\ ~topo'.active
    BY <1>6, <2>1 DEF Starting, Starts, cluster
  <2>3. "Deploying" \notin Idle
    BY Apart
  <2> QED
    BY <2>2, <2>3 DEF TidyState
<1>7. CASE Alive /\ Deploying
  <2>1. /\ status.subPhase = "Deploying" /\ ~topo.active
        /\ owned \subseteq ManifestRefs(status.id, Roles) /\ UNCHANGED topo
    BY <1>1, <1>7 DEF Deploying, TidyState
  <2>2. "Deploying" \notin Idle /\ "TopologyDelay" \notin Idle /\ "LoadDelay" \notin Idle
    BY Apart
  <2>3. CASE Stays
    <3>1. owned' \subseteq ManifestRefs(status.id, Roles)
      BY <1>7, <2>1 DEF Deploying
    <3> QED
      BY <2>1, <2>2, <2>3, <3>1 DEF Stays, TidyState
  <2>4. CASE ~Stays /\ ~Ends("Failed")
    <3>1. PICK s \in {"TopologyDelay", "LoadDelay"}, d \in Nat :
                 /\ (s = "TopologyDelay") = UseTopology
                 /\ Enters(s, d, status.meas, ManifestRefs(status.id, Roles))
      BY <1>7, <2>4 DEF Deploying
    <3>2. owned' = ManifestRefs(status.id, Roles)
      BY <1>7, <2>1, <2>4 DEF Deploying
    <3>3. status'.subPhase = s /\ status'.refs = owned'
      BY <3>1, <3>2 DEF Enters
    <3>4. Backed'
      BY <1>1, <3>2, <3>3, DeployedBacked
    <3> QED
      BY <2>2, <3>1, <3>3, <3>4 DEF TidyState
  <2> QED
    BY <1>4, <1>5, <2>3, <2>4
<1>8. ASSUME Alive, status.subPhase \in (Before \cup AfterBaseline \cup Measuring) \ {"Deploying"},
             owned' \subseteq status'.refs, Backed', status'.subPhase # "TopologyDelay" \/ Stays,
             Stays \/ status'.subPhase \in (Before \cup AfterBaseline \cup Measuring) \ {"Deploying"}
      PROVE  TidyState'
  <2>1. status'.subPhase \notin Idle \cup {"Deploying"}
    BY <1>8, Apart DEF Stays
  <2>2. status'.subPhase = "TopologyDelay" => UseTopology
    BY <1>1, <1>8 DEF Stays, TidyState
  <2> QED
    BY <1>8, <2>1, <2>2 DEF TidyState
<1>9. ASSUME Alive, status.subPhase \in (Before \cup AfterBaseline \cup Measuring) \ {"Deploying"}
      PROVE  /\ owned \subseteq status.refs /\ Backed
             /\ Undeployed => owned' = {} /\ deployed' = {}
  <2>1. status.subPhase \notin Idle \cup {"Deploying"}
    BY <1>9, Apart
  <2>2. owned \subseteq status.refs /\ Backed
    BY <1>1, <1>9, <2>1 DEF TidyState
  <2> QED
    BY <1>1, <2>2, UndeployedAll DEF NothingForgotten
<1>10. ASSUME Alive, status.subPhase \in (Before \cup AfterBaseline \cup Measuring) \ {"Deploying"},
              SameManifests \/ Undeployed, status.refs \subseteq status'.refs,
              status'.subPhase # "TopologyDelay" \/ Stays,
              Stays \/ status'.subPhase \in (Before \cup AfterBaseline \cup Measuring) \ {"Deploying"}
       PROVE  TidyState'
  <2>1. owned' \subseteq status'.refs /\ Backed'
    BY <1>9, <1>10 DEF SameManifests, Backed
  <2> QED
    BY <1>8, <1>10, <2>1
<1>11. CASE Alive /\ (Activating \/ Waiting)
  <2>1. status.subPhase \in {"TopologyDelay", "WaitingForTopology"}
    BY <1>11 DEF Activating, Waiting
  <2>2. SameManifests \/ Undeployed
    <3>1. \A f \in Pick({"deactivateError", "staleTopology", "undeployError"}) : f # "undeployError"
      BY DEF Pick, NothingForgotten
    <3> QED
      BY <1>11, <3>1, CleanupCalls DEF Activating, Waiting, Undeployed
  <2>3. CASE Ends("Failed")
    BY <1>4, <1>5, <2>3
  <2>4. CASE ~Ends("Failed")
    <3>1. Stays \/ (/\ status'.subPhase \in {"WaitingForTopology", "LoadDelay"}
                    /\ status'.refs = status.refs)
      BY <1>11, <2>4 DEF Activating, Waiting, Enters, Fails
    <3> QED
      BY <1>10, <1>11, <2>1, <2>2, <3>1 DEF Stays, Before
  <2> QED
    BY <2>3, <2>4
<1>12. CASE Alive /\ Loading
  <2>1. /\ status.subPhase = "LoadDelay" /\ status'.subPhase = "PreChaosMeasurement"
        /\ status'.refs = status.refs /\ SameManifests
    BY <1>12 DEF Loading, Enters, cluster, SameManifests
  <2> QED
    BY <1>10, <1>12, <2>1 DEF Before, Measuring
<1>13. CASE Alive /\ Pausing
  <2>1. owned = {} /\ deployed = {} /\ ~topo.active
    BY <1>1, <1>13 DEF Pausing, TidyState
  <2>2. status'.subPhase \in Idle /\ owned' = {} /\ deployed' = {} /\ ~topo'.active
    BY <1>13, <2>1 DEF Pausing, Enters, cluster
  <2>3. status'.subPhase # "Deploying" /\ status'.subPhase # "TopologyDelay"
    BY <2>2, Apart
  <2> QED
    BY <2>2, <2>3 DEF TidyState
<1>14. ASSUME Alive, NEW s \in Measuring, NEW next \in {"ApplyingChaos", "Cleanup"},
              MeasuringIn(s, next)
       PROVE  TidyState'
  <2>1. status.subPhase \in Measuring /\ SameManifests
    BY <1>14 DEF MeasuringIn, SameManifests, cluster
  <2>2. CASE Ends("Failed")
    BY <1>4, <1>5, <2>2
  <2>3. CASE ~Ends("Failed")
    <3>1. AfterWindow(next) \in {"ApplyingChaos", "Cleanup", "ChaosMeasurement"}
      BY DEF AfterWindow
    <3>2. /\ status'.refs = status.refs
          /\ status'.subPhase \in {status.subPhase, "ApplyingChaos", "Cleanup", "ChaosMeasurement"}
      BY <1>14, <2>3, <3>1 DEF MeasuringIn, WindowEnds, Stays, Samples, Enters
    <3> QED
      BY <1>10, <1>14, <2>1, <3>2 DEF Measuring, AfterBaseline
  <2> QED
    BY <2>2, <2>3
<1>15. CASE Alive /\ ApplyingChaos
  <2>1. CASE Ends("Failed")
    BY <1>4, <1>5, <2>1
  <2>2. CASE ~Ends("Failed")
    <3>1. /\ status.subPhase = "ApplyingChaos" /\ (SameManifests \/ Undeployed)
          /\ Stays \/ (/\ status'.subPhase = "ChaosMeasurement"
                       /\ status.refs \subseteq status'.refs)
      BY <1>15, <2>2 DEF ApplyingChaos, Enters, Fails
    <3>2. status.refs \subseteq status'.refs
      BY <3>1 DEF Stays
    <3>3. SameManifests \/ Undeployed
      BY <1>15 DEF ApplyingChaos
    <3>4. status.subPhase = "ApplyingChaos"
      BY <1>15 DEF ApplyingChaos
    <3> QED
      BY <1>10, <1>15, <3>1, <3>2, <3>3, <3>4 DEF AfterBaseline, Stays
  <2> QED
    BY <2>1, <2>2
<1>16. CASE Alive /\ TearingDown
  <2>1. status.subPhase = "Cleanup"
    BY <1>16 DEF TearingDown
  <2>2. CASE Ends("Failed")
    BY <1>4, <1>5, <2>2
  <2>3. CASE Stays
    <3>1. owned' \subseteq status'.refs /\ Backed'
      BY <1>16, TidyTearDown DEF Backed
    <3> QED
      BY <1>8, <1>16, <2>1, <2>3, <3>1 DEF AfterBaseline
  <2>4. CASE ~Stays /\ ~Ends("Failed")
    <3>1. owned' = {} /\ deployed' = {} /\ ~topo'.active
      BY <1>16, <2>4, TidyTearDown
    <3>2. status'.subPhase \in Idle
      BY <1>16, <2>4 DEF TearingDown, Counts
    <3>3. status'.subPhase # "Deploying" /\ status'.subPhase # "TopologyDelay"
      BY <3>2, Apart
    <3> QED
      BY <3>1, <3>2, <3>3 DEF TidyState
  <2> QED
    BY <2>2, <2>3, <2>4
<1>17. CASE Finishing
  BY <1>4, <1>5, <1>17 DEF Finishing
<1>18. /\ "PreChaosMeasurement" \in Measuring /\ "ChaosMeasurement" \in Measuring
       /\ "ApplyingChaos" \in {"ApplyingChaos", "Cleanup"}
       /\ "Cleanup" \in {"ApplyingChaos", "Cleanup"}
  BY DEF Measuring
<1> QED
  BY <1>3, <1>6, <1>7, <1>11, <1>12, <1>13, <1>14, <1>15, <1>16, <1>17, <1>18
     DEF ClusterStep, ClusterMoves

(* Only the last repetition's end leads to success, and it is tidy.         *)
LEMMA SucceededStep ==
  ASSUME NothingForgotten, TypeOK, TypeOK', ChaosInv, RepetitionsOver, TidyInv, ClusterStep
  PROVE  SucceededClean'
<1>1. SucceededClean /\ TidyState
  BY DEF TidyInv
<1>2. CASE World
  <2>1. /\ status'.phase = status.phase /\ live' = live /\ owned' = owned /\ deployed' = deployed
        /\ topo'.active = topo.active
    BY <1>2 DEF World, SameObjects, Stays, Ages
  <2> QED
    BY <1>1, <2>1 DEF SucceededClean
<1>3. CASE Alive /\ Finishing
  <2>1. status.subPhase \in Idle
    BY <1>3 DEF Finishing, RepetitionsOver
  <2>2. status.subPhase \notin AfterBaseline
    BY <2>1, Apart
  <2>3. live = {} /\ owned = {} /\ deployed = {} /\ ~topo.active
    BY <1>1, <1>3, <2>1, <2>2 DEF ChaosInv, ChaosState, TidyState
  <2> QED
    BY <1>3, <2>3 DEF Finishing, cluster, SucceededClean
<1>4. ASSUME Alive, status'.phase \in {status.phase, "Running", "Failed"}
      PROVE  SucceededClean'
  BY <1>4 DEF SucceededClean, Alive, Terminal
<1>5. CASE Alive /\ (Starting \/ Deploying \/ Activating \/ Waiting \/ Loading \/ Pausing)
  BY <1>4, <1>5 DEF Starting, Starts, Deploying, Activating, Waiting, Loading, Pausing,
     Fails, Stays, Ends, Enters
<1>6. CASE Alive /\ (ApplyingChaos \/ TearingDown)
  BY <1>4, <1>6 DEF ApplyingChaos, TearingDown, Fails, Stays, Ends, Enters, Counts
<1>7. CASE Alive /\ \E s, next : MeasuringIn(s, next)
  BY <1>4, <1>7 DEF MeasuringIn, WindowEnds, Stays, Ends, Enters, Samples
<1> QED
  BY <1>2, <1>3, <1>5, <1>6, <1>7 DEF ClusterStep, ClusterMoves

LEMMA TidyInit == Init => TidyInv /\ RepetitionsOver
<1> SUFFICES ASSUME Init PROVE TidyInv /\ RepetitionsOver
  OBVIOUS
<1>1. /\ status.subPhase \in Idle /\ status.phase # "Succeeded"
      /\ owned = {} /\ deployed = {}
  BY Apart DEF Init, Created
<1>2. ~topo.active
  BY DEF Init
<1>3. status.subPhase # "Deploying" /\ status.subPhase # "TopologyDelay"
  BY <1>1, Apart
<1> QED
  BY <1>1, <1>2, <1>3 DEF TidyInv, TopologyTidy, TidyState, SucceededClean, RepetitionsOver

(* As long as no call of a cleanup fails and every manifest names its       *)
(* namespace, and the topology cache has learned of what the experiment     *)
(* switched before it switches again, a successful experiment leaves no     *)
(* chaos object, no ConfigMap and no object of a manifest behind, and its   *)
(* topology is switched off, however many patches and other calls failed,   *)
(* wherever the operator died.  With a late topology cache it may not: the  *)
(* deactivation at the end does nothing when the cache does not know yet    *)
(* that the topology was activated.                                         *)
THEOREM SuccessIsClean ==
  ASSUME NothingForgotten
  PROVE  Spec => []SucceededClean
<1>1. NoStaleReads /\ NoStrayChaos
  BY DEF NothingForgotten, NoStrayChaos
<1>2. TypeOK /\ TypeOK' /\ Fresh /\ ChaosInv /\ RepetitionsOver /\ TidyInv /\ [Next]_vars
        => Fresh' /\ RepetitionsOver' /\ TidyInv'
  BY <1>1, RunSteps, ClusterSteps, OverStep, TidyTopology, TidyStateStep, SucceededStep
     DEF TidyInv
<1>3. TidyInv => SucceededClean
  BY DEF TidyInv
<1>4. Spec => []ChaosInv
  BY <1>1, ChaosHolds
<1> QED
  BY <1>2, <1>3, <1>4, FreshInit, TidyInit, TypeCorrect, PTL DEF Spec

-----------------------------------------------------------------------------
(* The system under measurement.  An experiment that fails takes its system *)
(* away before it is Failed, so a patch that fails there leaves a running   *)
(* experiment without a system; and a deactivation the topology's cache has *)
(* not seen makes the next activation do nothing.                           *)

FailuresRecorded == Faults \cap {"staleCache", "patchError", "staleTopology"} = {}

UsingTopology == {"WaitingForTopology", "LoadDelay", "ApplyingChaos"} \cup Measuring

PresentInv ==
  /\ topo.cached = topo.active
  /\ Alive =>
       /\ status.subPhase \in UsingTopology \cup {"TopologyDelay"} => deployed = Roles
       /\ UseTopology /\ status.subPhase \in UsingTopology => topo.active

LEMMA PresentTopology ==
  ASSUME FailuresRecorded, TypeOK, topo.cached = topo.active, ClusterStep
  PROVE  topo'.cached = topo'.active
<1>1. "staleTopology" \notin Faults /\ TRUE \in BOOLEAN /\ FALSE \in BOOLEAN
  BY DEF FailuresRecorded
<1>2. ASSUME NEW f, f # "staleTopology", NEW wanted \in BOOLEAN, SetActive(f, wanted)
      PROVE  topo'.cached = topo'.active
  BY <1>2, TopologySwitched
<1>3. \A f : f \in Pick(TearDownFaults) \cup Pick({"deactivateError", "staleTopology", "undeployError"})
               => f # "staleTopology"
  BY <1>1 DEF Pick
<1>4. CASE World
  BY <1>4 DEF World
<1>5. CASE Activating
  <2>1. \A f \in Pick({"staleTopology"}) : f # "staleTopology"
    BY <1>1 DEF Pick
  <2> QED
    BY <1>1, <1>2, <1>5, <2>1 DEF Activating, ActivateTopology
<1>6. CASE Waiting
  BY <1>1, <1>2, <1>3, <1>6 DEF Waiting, DeactivateTopology
<1>7. CASE TearingDown
  BY <1>1, <1>2, <1>3, <1>7 DEF TearingDown, DeactivateTopology
<1>8. CASE \/ Starting \/ Deploying \/ Loading \/ Pausing \/ ApplyingChaos \/ Finishing
           \/ \E s, next : MeasuringIn(s, next)
  BY <1>8 DEF Starting, Deploying, Loading, Pausing, ApplyingChaos, Finishing, MeasuringIn,
     cluster
<1> QED
  BY <1>4, <1>5, <1>6, <1>7, <1>8 DEF ClusterStep, ClusterMoves

(* Every move keeps the system and the topology of a window in place.       *)
LEMMA PresentStep ==
  ASSUME FailuresRecorded, TypeOK, TypeOK', PresentInv, ClusterStep
  PROVE  PresentInv'
<1>1. /\ topo'.cached = topo'.active /\ topo.cached = topo.active
      /\ deployed \subseteq Roles /\ deployed' \subseteq Roles
      /\ topo.active \in BOOLEAN /\ topo.cached \in BOOLEAN
  BY PresentTopology DEF PresentInv, TypeOK
<1>2. Fails => Ends("Failed")
  BY DEF Fails, FailuresRecorded
<1>3. ASSUME Ends("Failed") \/ Ends("Succeeded") PROVE PresentInv'
  BY <1>1, <1>3 DEF Ends, PresentInv, Alive, Terminal
<1>4. ASSUME status'.subPhase \notin UsingTopology \cup {"TopologyDelay"} PROVE PresentInv'
  BY <1>1, <1>4 DEF PresentInv
<1>5. ASSUME deployed' = deployed, topo'.active = topo.active,
             status'.phase = status.phase, status'.subPhase = status.subPhase
      PROVE  PresentInv'
  BY <1>1, <1>5 DEF PresentInv, Alive
<1>6. ASSUME Alive, status.subPhase \in UsingTopology, deployed' = deployed,
             topo'.active = topo.active
      PROVE  PresentInv'
  BY <1>1, <1>6 DEF PresentInv
<1>7. \A s \in Idle : s \notin UsingTopology \cup {"TopologyDelay"}
  BY Apart DEF UsingTopology
<1>8. CASE World
  BY <1>5, <1>8 DEF World, SameObjects, Stays, Ages
<1>9. CASE Starting
  BY <1>4, <1>9 DEF Starting, Starts, UsingTopology, Measuring
<1>10. CASE Deploying
  <2>1. CASE Stays \/ Ends("Failed")
    BY <1>3, <1>4, <1>10, <2>1 DEF Deploying, Stays, UsingTopology, Measuring
  <2>2. CASE ~(Stays \/ Ends("Failed"))
    <3>1. PICK s \in {"TopologyDelay", "LoadDelay"}, d \in Nat :
                 /\ (s = "TopologyDelay") = UseTopology
                 /\ Enters(s, d, status.meas, ManifestRefs(status.id, Roles))
      BY <1>10, <2>2 DEF Deploying
    <3>2. deployed' = Roles
      BY <1>1, <1>10, <2>2 DEF Deploying
    <3>3. status'.subPhase = s
      BY <3>1 DEF Enters
    <3>4. UseTopology => status'.subPhase \notin UsingTopology
      BY <3>1, <3>3 DEF UsingTopology, Measuring
    <3> QED
      BY <1>1, <3>2, <3>4 DEF PresentInv
  <2> QED
    BY <2>1, <2>2
<1>11. CASE Alive /\ Activating
  <2>1. CASE Ends("Failed")
    BY <1>3, <2>1
  <2>2. CASE ~Ends("Failed")
    <3>1. SameManifests /\ \E f : ActivateTopology(f)
      BY <1>2, <1>11, <2>2 DEF Activating
    <3>2. topo'.active
      <4>1. (UNCHANGED topo /\ topo.cached = TRUE) \/ topo'.active = TRUE
        <5>1. PICK f \in Pick({"staleTopology"}) : ActivateTopology(f)
          BY <1>2, <1>11, <2>2 DEF Activating
        <5>2. f # "deactivateError"
          BY DEF Pick
        <5> QED
          BY <5>1, <5>2, TopologySwitched, TRUE \in BOOLEAN DEF ActivateTopology
      <4> QED
        BY <1>1, <4>1
    <3>3. deployed' = Roles
      BY <1>11, <3>1 DEF Activating, PresentInv, SameManifests
    <3> QED
      BY <1>1, <3>2, <3>3 DEF PresentInv
  <2> QED
    BY <2>1, <2>2
<1>12. CASE Alive /\ Waiting
  <2>1. CASE Fails
    BY <1>2, <1>3, <2>1
  <2>2. CASE ~Fails
    <3>1. /\ status.subPhase \in UsingTopology /\ deployed' = deployed /\ UNCHANGED topo
      BY <1>12, <2>2 DEF Waiting, UsingTopology, SameManifests
    <3> QED
      BY <1>6, <1>12, <3>1
  <2> QED
    BY <2>1, <2>2
<1>13. CASE Alive /\ Loading
  <2>1. /\ status.subPhase \in UsingTopology /\ deployed' = deployed /\ UNCHANGED topo
    BY <1>13 DEF Loading, UsingTopology, cluster
  <2> QED
    BY <1>6, <1>13, <2>1
<1>14. CASE Pausing
  BY <1>4, <1>7, <1>14 DEF Pausing, Enters
<1>15. CASE Alive /\ ApplyingChaos
  <2>1. CASE Fails
    BY <1>2, <1>3, <2>1
  <2>2. CASE ~Fails
    <3>1. /\ status.subPhase \in UsingTopology /\ deployed' = deployed /\ UNCHANGED topo
      BY <1>15, <2>2 DEF ApplyingChaos, UsingTopology, SameManifests
    <3> QED
      BY <1>6, <1>15, <3>1
  <2> QED
    BY <2>1, <2>2
<1>16. CASE TearingDown
  <2>1. CASE Ends("Failed")
    BY <1>3, <2>1
  <2>2. CASE ~Ends("Failed")
    <3>1. status'.subPhase \in Idle \/ status'.subPhase = "Cleanup"
      BY <1>16, <2>2 DEF TearingDown, Stays, Counts
    <3> QED
      BY <1>4, <1>7, <3>1 DEF UsingTopology, Measuring
  <2> QED
    BY <2>1, <2>2
<1>17. CASE Finishing
  BY <1>3, <1>17 DEF Finishing
<1>18. ASSUME Alive, NEW s \in Measuring, NEW next, MeasuringIn(s, next)
       PROVE  PresentInv'
  <2>1. /\ status.subPhase \in UsingTopology /\ deployed' = deployed /\ UNCHANGED topo
    BY <1>18 DEF MeasuringIn, UsingTopology, cluster
  <2> QED
    BY <1>6, <1>18, <2>1
<1>19. "PreChaosMeasurement" \in Measuring /\ "ChaosMeasurement" \in Measuring
  BY DEF Measuring
<1> QED
  BY <1>8, <1>9, <1>10, <1>11, <1>12, <1>13, <1>14, <1>15, <1>16, <1>17, <1>18, <1>19
     DEF ClusterStep, ClusterMoves

LEMMA PresentInit == Init => PresentInv
<1> SUFFICES ASSUME Init PROVE PresentInv
  OBVIOUS
<1>1. status.subPhase \in Idle
  BY Apart DEF Init, Created
<1>2. status.subPhase \notin UsingTopology \cup {"TopologyDelay"}
  BY <1>1, Apart DEF UsingTopology
<1>3. topo.cached = topo.active
  BY DEF Init
<1> QED
  BY <1>2, <1>3 DEF PresentInv

(* As long as the patches of the status succeed and the topology's cache    *)
(* follows, whatever else fails: while an experiment runs and measures, its *)
(* system is deployed and its topology is switched on.                      *)
THEOREM MeasuredSystemIsPresent ==
  ASSUME FailuresRecorded
  PROVE  Spec => []MeasuredSystemPresent
<1>1. NoStaleReads
  BY DEF FailuresRecorded, NoStaleReads
<1>2. TypeOK /\ TypeOK' /\ Fresh /\ PresentInv /\ [Next]_vars => Fresh' /\ PresentInv'
  BY <1>1, RunSteps, ClusterSteps, PresentStep
<1>3. PresentInv => MeasuredSystemPresent
  <2> SUFFICES ASSUME PresentInv, status.phase = "Running", status.subPhase \in Measuring
               PROVE  deployed = Roles /\ (UseTopology => topo.active)
    BY DEF MeasuredSystemPresent
  <2>1. Alive
    BY DEF Alive, Terminal
  <2> QED
    BY <2>1 DEF PresentInv, UsingTopology
<1> QED
  BY <1>2, <1>3, FreshInit, PresentInit, TypeCorrect, PTL DEF Spec

-----------------------------------------------------------------------------
(* The experiment as its topology sees it.                                  *)

PreparingPhases == Idle \cup {"Deploying", "TopologyDelay"}
UsingPhases == {"LoadDelay", "ApplyingChaos", "Cleanup"} \cup Measuring

(* UseStage of any status.                                                  *)
StageOf(phase, subPhase) ==
  CASE phase = "Succeeded" -> "succeeded"
    [] phase = "Failed" -> "failed"
    [] phase \notin Terminal /\ subPhase = "WaitingForTopology" -> "waiting"
    [] phase \notin Terminal /\ subPhase \in {"", "Deploying", "TopologyDelay", "Pause"}
         -> "preparing"
    [] OTHER -> "using"

LEMMA StageIs ==
  /\ UseStage = StageOf(status.phase, status.subPhase)
  /\ UseStage' = StageOf(status'.phase, status'.subPhase)
BY DEF UseStage, StageOf

LEMMA PreparingIs == PreparingPhases = {"", "Deploying", "TopologyDelay", "Pause"}
BY DEF PreparingPhases, Idle

LEMMA StageValues ==
  ASSUME NEW p, NEW s
  PROVE  /\ p = "Succeeded" => StageOf(p, s) = "succeeded"
         /\ p = "Failed" => StageOf(p, s) = "failed"
         /\ p \notin Terminal /\ s = "WaitingForTopology" => StageOf(p, s) = "waiting"
         /\ p \notin Terminal /\ s \in PreparingPhases => StageOf(p, s) = "preparing"
         /\ p \notin Terminal /\ s \in UsingPhases => StageOf(p, s) = "using"
<1> DEFINE stage == CASE p = "Succeeded" -> "succeeded"
                      [] p = "Failed" -> "failed"
                      [] p \notin Terminal /\ s = "WaitingForTopology" -> "waiting"
                      [] p \notin Terminal /\ s \in PreparingPhases -> "preparing"
                      [] OTHER -> "using"
<1>1. StageOf(p, s) = stage
  BY PreparingIs DEF StageOf
<1>2. s \in PreparingPhases => s # "WaitingForTopology" /\ s \notin UsingPhases
  BY Apart DEF PreparingPhases, UsingPhases, Measuring
<1>3. s \in UsingPhases => s # "WaitingForTopology" /\ s \notin PreparingPhases
  BY <1>2 DEF UsingPhases, Measuring
<1>4. p = "Succeeded" => stage = "succeeded"
  BY DEF Terminal
<1>5. p = "Failed" => stage = "failed"
  BY DEF Terminal
<1>6. p \notin Terminal /\ s = "WaitingForTopology" => stage = "waiting"
  BY <1>2 DEF Terminal
<1>7. p \notin Terminal /\ s \in PreparingPhases => stage = "preparing"
  BY <1>2 DEF Terminal
<1>8. p \notin Terminal /\ s \in UsingPhases => stage = "using"
  BY <1>3 DEF Terminal
<1> HIDE DEF stage
<1> QED
  BY <1>1, <1>4, <1>5, <1>6, <1>7, <1>8

(* The stage before and after a step.                                       *)
LEMMA StageNow ==
  /\ status.phase = "Succeeded" => UseStage = "succeeded"
  /\ status.phase = "Failed" => UseStage = "failed"
  /\ Alive /\ status.subPhase = "WaitingForTopology" => UseStage = "waiting"
  /\ Alive /\ status.subPhase \in PreparingPhases => UseStage = "preparing"
  /\ Alive /\ status.subPhase \in UsingPhases => UseStage = "using"
BY StageIs, StageValues DEF Alive

LEMMA StageThen ==
  /\ status'.phase = "Succeeded" => UseStage' = "succeeded"
  /\ status'.phase = "Failed" => UseStage' = "failed"
  /\ Alive' /\ status'.subPhase = "WaitingForTopology" => UseStage' = "waiting"
  /\ Alive' /\ status'.subPhase \in PreparingPhases => UseStage' = "preparing"
  /\ Alive' /\ status'.subPhase \in UsingPhases => UseStage' = "using"
BY StageIs, StageValues DEF Alive

(* A handler's call and the stage it leads to make a step of TopologyUse.   *)
LEMMA UseStep ==
  ASSUME NEW ask \in TopologySide!Asks, NEW to \in TopologySide!Stages,
         \/ TopologySide!Smooth(UseStage, topo.phase, ask, to)
         \/ TopologySide!Rough(UseStage, topo.phase, ask, to),
         UseStage' = to, TopologySide!Asked(ask)
  PROVE  TopologySide!Use
BY DEF TopologySide!Use

(* What the experiment writes to the topology, as TopologyUse names it.     *)
LEMMA AskedOn ==
  ASSUME TypeOK, NEW f \in Pick({"staleTopology"}), ActivateTopology(f)
  PROVE  TopologySide!Asked("on")
<1>1. topo \in [active : BOOLEAN, cached : BOOLEAN, phase : TopologyPhases]
  BY DEF TypeOK
<1>2. f # "deactivateError"
  BY DEF Pick
<1> QED
  BY <1>1, <1>2 DEF ActivateTopology, SetActive, TopologySide!Asked

LEMMA AskedOff ==
  ASSUME TypeOK, NEW f, DeactivateTopology(f)
  PROVE  TopologySide!Asked("off") \/ (f = "deactivateError" /\ TopologySide!Asked("same"))
<1>1. topo \in [active : BOOLEAN, cached : BOOLEAN, phase : TopologyPhases]
  BY DEF TypeOK
<1> QED
  BY <1>1 DEF DeactivateTopology, SetActive, TopologySide!Asked

LEMMA AskedSame ==
  ASSUME UNCHANGED topo
  PROVE  TopologySide!Asked("same")
BY DEF TopologySide!Asked

LEMMA ElsewhereStep ==
  ASSUME UseStage' = UseStage, topo'.active = topo.active
  PROVE  TopologySide!Elsewhere
BY DEF TopologySide!Elsewhere

(* Every step is one of TopologyUse, or none.                               *)
LEMMA UseRefined ==
  ASSUME UseTopology, TypeOK, RepetitionsOver, ClusterStep
  PROVE  TopologySide!Use \/ TopologySide!Elsewhere
<1>1. /\ {"on", "off", "same"} \subseteq TopologySide!Asks
      /\ {"preparing", "waiting", "using", "succeeded", "failed"} \subseteq TopologySide!Stages
  BY DEF TopologySide!Asks, TopologySide!Stages, TopologySide!Ended
<1>2. ASSUME status'.phase = status.phase, status'.subPhase = status.subPhase
      PROVE  UseStage' = UseStage
  BY <1>2, StageIs
<1>3. Ends("Failed") => UseStage' = "failed"
  BY StageThen DEF Ends
<1>4. Stays => UseStage' = UseStage
  BY <1>2 DEF Stays
<1>5. Alive /\ status'.phase = status.phase => Alive'
  BY DEF Alive
<1>6. ASSUME UNCHANGED topo, UseStage \in {"preparing", "using"}, UseStage' = "failed"
      PROVE  TopologySide!Use
  BY <1>1, <1>6, AskedSame, UseStep DEF TopologySide!Rough
<1>7. CASE World
  <2>1. status'.phase = status.phase /\ status'.subPhase = status.subPhase
    BY <1>7 DEF World, Stays, Ages
  <2> QED
    BY <1>2, <1>7, <2>1, ElsewhereStep DEF World
<1>8. ASSUME Alive, Alive', UNCHANGED topo,
             \/ status.subPhase \in PreparingPhases /\ status'.subPhase \in PreparingPhases
             \/ status.subPhase \in UsingPhases /\ status'.subPhase \in UsingPhases
      PROVE  TopologySide!Elsewhere
  BY <1>8, StageNow, StageThen, ElsewhereStep
<1>9. CASE Alive /\ Starting
  <2>1. status.subPhase \in PreparingPhases /\ status'.subPhase \in PreparingPhases /\ Alive'
    BY <1>9 DEF Starting, Starts, PreparingPhases, Alive, Terminal
  <2> QED
    BY <1>8, <1>9, <2>1 DEF Starting, cluster
<1>10. CASE Alive /\ Deploying
  <2>1. status.subPhase \in PreparingPhases /\ UNCHANGED topo
    BY <1>10 DEF Deploying, PreparingPhases
  <2>2. CASE Ends("Failed")
    BY <1>3, <1>6, <1>10, <2>1, <2>2, StageNow
  <2>3. CASE ~Ends("Failed")
    <3>1. status'.subPhase \in {"Deploying", "TopologyDelay"} /\ status'.phase = status.phase
      BY <1>10, <2>3 DEF Deploying, Stays, Enters
    <3>2. status'.subPhase \in PreparingPhases
      BY <3>1 DEF PreparingPhases
    <3> QED
      BY <1>5, <1>8, <1>10, <2>1, <3>1, <3>2
  <2> QED
    BY <2>2, <2>3
<1>11. CASE Alive /\ Activating
  <2>1. status.subPhase \in PreparingPhases
    BY <1>11 DEF Activating, PreparingPhases
  <2>2. UseStage = "preparing"
    BY <1>11, <2>1, StageNow
  <2>3. CASE Stays /\ \E f \in Pick({"staleTopology"}) : ActivateTopology(f)
    BY <1>1, <1>4, <2>2, <2>3, AskedOn, UseStep DEF TopologySide!Rough
  <2>4. CASE /\ Enters("WaitingForTopology", 0, status.meas, status.refs)
             /\ \E f \in Pick({"staleTopology"}) : ActivateTopology(f)
    <3>1. UseStage' = "waiting"
      BY <1>5, <1>11, <2>4, StageThen DEF Enters
    <3> QED
      BY <1>1, <2>2, <2>4, <3>1, AskedOn, UseStep DEF TopologySide!Smooth
  <2>5. CASE UNCHANGED topo /\ Fails
    BY <1>3, <1>4, <1>6, <2>2, <2>5, ElsewhereStep DEF Fails
  <2> QED
    BY <1>11, <2>3, <2>4, <2>5 DEF Activating
<1>12. CASE Alive /\ Waiting
  <2>1. UseStage = "waiting"
    BY <1>12, StageNow DEF Waiting
  <2>2. CASE /\ topo.phase = "Active" /\ UNCHANGED topo
             /\ Enters("LoadDelay", LoadDelay, status.meas, status.refs)
    <3>1. UseStage' = "using"
      BY <1>5, <1>12, <2>2, StageThen DEF Enters, UsingPhases
    <3> QED
      BY <1>1, <2>1, <2>2, <3>1, AskedSame, UseStep DEF TopologySide!Smooth
  <2>3. CASE topo.phase # "Active" /\ Fails /\ \E f : DeactivateTopology(f)
    <3>1. UseStage' \in {"waiting", "failed"}
      BY <1>3, <1>4, <2>1, <2>3 DEF Fails
    <3>2. TopologySide!Asked("off") \/ TopologySide!Asked("same")
      BY <2>3, AskedOff
    <3> QED
      BY <1>1, <2>1, <2>3, <3>1, <3>2, UseStep DEF TopologySide!Rough
  <2> QED
    BY <1>12, <2>2, <2>3 DEF Waiting
<1>13. CASE Alive /\ Loading
  <2>1. /\ status.subPhase \in UsingPhases /\ status'.subPhase \in UsingPhases
        /\ status'.phase = status.phase /\ UNCHANGED topo
    BY <1>13 DEF Loading, Enters, UsingPhases, Measuring, cluster
  <2> QED
    BY <1>5, <1>8, <1>13, <2>1
<1>14. CASE Alive /\ Pausing
  <2>1. /\ status.subPhase \in PreparingPhases /\ status'.subPhase \in PreparingPhases
        /\ status'.phase = status.phase /\ UNCHANGED topo
    BY <1>14 DEF Pausing, Enters, PreparingPhases, cluster
  <2> QED
    BY <1>5, <1>8, <1>14, <2>1
<1>15. ASSUME Alive, status.subPhase \in UsingPhases, UNCHANGED topo,
              \/ Ends("Failed")
              \/ status'.subPhase \in UsingPhases /\ status'.phase = status.phase
       PROVE  TopologySide!Use \/ TopologySide!Elsewhere
  BY <1>3, <1>5, <1>6, <1>8, <1>15, StageNow
<1>16. CASE Alive /\ ApplyingChaos
  <2>1. status.subPhase \in UsingPhases /\ UNCHANGED topo
    BY <1>16 DEF ApplyingChaos, UsingPhases
  <2>2. \/ Ends("Failed")
        \/ /\ status'.subPhase \in {"ApplyingChaos", "ChaosMeasurement"}
           /\ status'.phase = status.phase
    BY <1>16 DEF ApplyingChaos, Fails, Stays, Enters
  <2> QED
    BY <1>15, <1>16, <2>1, <2>2 DEF UsingPhases, Measuring
<1>17. ASSUME Alive, NEW s \in Measuring, NEW next \in {"ApplyingChaos", "Cleanup"},
              MeasuringIn(s, next)
       PROVE  TopologySide!Use \/ TopologySide!Elsewhere
  <2>1. AfterWindow(next) \in {"ApplyingChaos", "Cleanup", "ChaosMeasurement"}
    BY DEF AfterWindow
  <2>2. status.subPhase \in UsingPhases /\ UNCHANGED topo
    BY <1>17 DEF MeasuringIn, UsingPhases, cluster
  <2>3. \/ Ends("Failed")
        \/ /\ status'.subPhase \in {status.subPhase, "ApplyingChaos", "Cleanup", "ChaosMeasurement"}
           /\ status'.phase = status.phase
    BY <1>17, <2>1 DEF MeasuringIn, WindowEnds, Stays, Samples, Enters
  <2> QED
    BY <1>15, <1>17, <2>2, <2>3 DEF UsingPhases, Measuring
<1>18. CASE Alive /\ TearingDown
  <2>1. UseStage = "using"
    BY <1>18, StageNow DEF TearingDown, UsingPhases
  <2>2. \A s \in Idle : \A d : Counts(s, d) => UseStage' = "preparing"
    BY <1>5, <1>18, StageThen DEF Counts, PreparingPhases
  <2>3. UseStage' \in {"using", "failed", "preparing"}
    BY <1>3, <1>4, <1>18, <2>1, <2>2 DEF TearingDown
  <2>4. CASE TopologySide!Asked("off")
    BY <1>1, <2>1, <2>3, <2>4, UseStep DEF TopologySide!Smooth, TopologySide!Rough
  <2>5. CASE TopologySide!Asked("same")
    <3>1. CASE UseStage' = "using"
      BY <2>1, <2>5, <3>1, ElsewhereStep DEF TopologySide!Asked
    <3>2. CASE UseStage' \in {"failed", "preparing"}
      BY <1>1, <2>1, <2>5, <3>2, UseStep DEF TopologySide!Rough
    <3> QED
      BY <2>3, <3>1, <3>2
  <2> QED
    BY <1>18, <2>4, <2>5, AskedOff, AskedSame DEF TearingDown
<1>19. CASE Alive /\ Finishing
  <2>1. status.subPhase \in PreparingPhases
    BY <1>19 DEF Finishing, RepetitionsOver, PreparingPhases
  <2>2. UseStage = "preparing" /\ UseStage' = "succeeded"
    BY <1>19, <2>1, StageNow, StageThen DEF Finishing, Ends
  <2>3. TopologySide!Asked("same")
    BY <1>19, AskedSame DEF Finishing, cluster
  <2> QED
    BY <1>1, <2>2, <2>3, UseStep DEF TopologySide!Smooth
<1>20. /\ "PreChaosMeasurement" \in Measuring /\ "ChaosMeasurement" \in Measuring
       /\ "ApplyingChaos" \in {"ApplyingChaos", "Cleanup"}
       /\ "Cleanup" \in {"ApplyingChaos", "Cleanup"}
  BY DEF Measuring
<1> QED
  BY <1>7, <1>9, <1>10, <1>11, <1>12, <1>13, <1>14, <1>16, <1>17, <1>18, <1>19, <1>20
     DEF ClusterStep, ClusterMoves

LEMMA UseInit == Init => TopologySide!Init
<1> SUFFICES ASSUME Init PROVE TopologySide!Init
  OBVIOUS
<1>1. status.subPhase \in PreparingPhases /\ Alive
  BY DEF Init, Created, PreparingPhases, Idle, Alive, Terminal
<1>2. UseStage = "preparing"
  BY <1>1, StageNow
<1>3. topo \in [active : {FALSE}, cached : {FALSE}, phase : {"", "Inactive"}]
  BY DEF Init
<1>4. ~topo.active /\ ~topo.cached /\ topo.phase \in {"", "Inactive"}
  BY <1>3
<1> QED
  BY <1>2, <1>4 DEF TopologySide!Init

(* An experiment with a topology, its reads fresh and whatever fails,       *)
(* implements TopologyUse: it switches its topology only in the cleanup,    *)
(* when it is activated and when it is given up, and goes on to measure     *)
(* only after it has read the phase Active.                                 *)
THEOREM TopologyUseImplemented ==
  ASSUME NoStaleReads, UseTopology
  PROVE  Spec => TopologyUsed
<1>1. TypeOK /\ Fresh /\ RepetitionsOver /\ [Next]_vars => Fresh' /\ RepetitionsOver'
  BY RunSteps, ClusterSteps, OverStep
<1>2. TypeOK /\ Fresh /\ RepetitionsOver /\ [Next]_vars
        => [TopologySide!Use \/ TopologySide!Elsewhere]_<<UseStage, topo.active, topo.cached, topo.phase>>
  BY ClusterSteps, UseRefined
<1>3. Init => RepetitionsOver
  BY TidyInit
<1> QED
  BY <1>1, <1>2, <1>3, UseInit, FreshInit, TypeCorrect, PTL
     DEF Spec, TopologyUsed, TopologySide!Spec

=============================================================================
