-------------------------- MODULE ExperimentProofs --------------------------
(* What holds of the experiment controller for every configuration.         *)
EXTENDS Experiment, TLAPS

-----------------------------------------------------------------------------
(* Type correctness.                                                        *)

(* The assumptions on the constants, one by one.                            *)
LEMMA ConstantTypes ==
  /\ Repetitions \in Nat
  /\ TopologyDelay \in Nat /\ LoadDelay \in Nat /\ ChaosDelay \in Nat
  /\ MeasurementDuration \in Nat /\ PauseBetweenRepetitions \in Nat
  /\ SampleInterval \in Nat /\ SampleInterval > 0
  /\ UseTopology \in BOOLEAN /\ UseChaos \in BOOLEAN
BY ExperimentAssumption DEF Repetitions

(* A merge of three statuses is a status.                                   *)
LEMMA MergeType ==
  ASSUME NEW a \in Status, NEW b \in Status, NEW c \in Status
  PROVE  Merge(a, b, c) \in Status
BY DEF Merge, Status

(* What a status patch does to the variables it touches.                    *)
PatchTypes ==
  status \in Status /\ seen \in Status /\ watch \in Seq(Status)
    /\ due \in Nat \cup {NotQueued}

(* A status patch keeps the types of what it touches, however it ends.      *)
LEMMA PatchType ==
  ASSUME PatchTypes, NEW p, NEW base \in Status, NEW mod \in Status,
         NEW wait \in Nat \cup {NotQueued}, Patch(p, base, mod, wait)
  PROVE  PatchTypes'
<1>1. Merge(status, base, mod) \in Status
  BY MergeType DEF PatchTypes
<1>2. Append(watch, Merge(status, base, mod)) \in Seq(Status)
  BY <1>1 DEF PatchTypes
<1> QED
  BY <1>1, <1>2 DEF PatchTypes, Patch

(* So does failExperiment.                                                  *)
LEMMA FailType ==
  ASSUME PatchTypes, NEW p, NEW e \in Status, FailExperiment(p, e)
  PROVE  PatchTypes'
<1>1. [e EXCEPT !.phase = "Failed"] \in Status
  BY DEF Status, Phases, Terminal
<1> QED
  BY <1>1, PatchType DEF FailExperiment

(* So does a crash.                                                         *)
LEMMA DieType ==
  ASSUME PatchTypes, Die
  PROVE  PatchTypes'
BY DEF PatchTypes, Die

(* The budget of failures stays a natural number.                           *)
LEMMA SpendType ==
  ASSUME budget \in Nat, NEW f, NEW p, Spend(f, p)
  PROVE  budget' \in Nat
BY DEF Spend

(* A status with another sub-phase is a status.                             *)
LEMMA SetSubPhaseType ==
  ASSUME NEW e \in Status, NEW s \in SubPhases, NEW d \in Nat
  PROVE  SetSubPhase(e, s, d) \in Status
BY DEF SetSubPhase, Status

(* The reference of a chaos object is a reference.                          *)
LEMMA ChaosRefType ==
  ASSUME NEW id \in Nat, NEW i \in 1..Len(ChaosObjects)
  PROVE  ChaosRef(id, ChaosObjects[i]) \in ChaosObjectRef
<1> DEFINE o == ChaosObjects[i]
<1>1. o.name \in ChaosNames
  BY DEF ChaosNames
<1>2. (IF o.custom THEN 0 ELSE id) \in Nat
  OBVIOUS
<1> HIDE DEF o
<1>3. ChaosRef(id, o) \in ChaosObjectRef
  BY <1>1, <1>2 DEF ChaosRef, ChaosObjectRef
<1> QED
  BY <1>3 DEF o

(* What applying a chaos phase creates and returns.                         *)
LEMMA ChaosTypes ==
  ASSUME live \subseteq ChaosObjectRef, NEW id \in Nat, NEW refused
  PROVE  /\ AppliedChaos(live, id, refused) \subseteq ChaosObjectRef
         /\ ReturnedRefs(live, id, refused) \subseteq ChaosObjectRef
BY ChaosRefType DEF AppliedChaos, CreatedObjects, ReturnedRefs, CompleteFaults

(* The references of deployed roles.                                        *)
LEMMA ManifestRefsType ==
  ASSUME NEW id \in Nat, NEW rs \in SUBSET Roles
  PROVE  ManifestRefs(id, rs) \subseteq ConfigMapRef
BY DEF ManifestRefs, ManifestRef, ConfigMapRef

(* What the deployment of a role leaves behind.                             *)
LEMMA StageTypes ==
  ASSUME owned \subseteq ConfigMapRef, deployed \subseteq Roles, NEW id \in Nat,
         NEW r \in Roles, NEW stage
  PROVE  /\ StageOwned(owned, id, r, stage) \subseteq ConfigMapRef
         /\ StageDeployed(deployed, r, stage) \subseteq Roles
         /\ ManifestRefs(id, Earlier(r)) \subseteq ConfigMapRef
<1>1. /\ Earlier(r) \subseteq Roles
      /\ Earlier(r) \cup (IF stage = "nothing" THEN {} ELSE {r}) \subseteq Roles
  BY DEF Earlier
<1>2. /\ ManifestRefs(id, Earlier(r)) \subseteq ConfigMapRef
      /\ ManifestRefs(id, Earlier(r) \cup (IF stage = "nothing" THEN {} ELSE {r}))
           \subseteq ConfigMapRef
  BY <1>1, ManifestRefsType
<1>3. StageOwned(owned, id, r, stage) \subseteq ConfigMapRef
  BY <1>2 DEF StageOwned, OwnedSet
<1> QED
  BY <1>1, <1>2, <1>3 DEF StageDeployed

(* What a cleanup leaves behind.                                            *)
LEMMA CleanupTypes ==
  ASSUME owned \subseteq ConfigMapRef, deployed \subseteq Roles,
         NEW f, NEW refs, Cleanup(f, refs)
  PROVE  owned' \subseteq ConfigMapRef /\ deployed' \subseteq Roles
BY DEF Cleanup, CleanedOwned, CleanedDeployed

TopoType == [active : BOOLEAN, cached : BOOLEAN, phase : TopologyPhases]

(* Switching the topology.                                                  *)
LEMMA TopoTypes ==
  ASSUME topo \in TopoType, NEW f, NEW wanted \in BOOLEAN, SetActive(f, wanted)
  PROVE  topo' \in TopoType
BY DEF SetActive, TopoType

(* A round of queries adds at most one well-typed sample.                   *)
LEMMA RecordedType ==
  ASSUME TypeOK, seen.subPhase \in Measuring, NEW f
  PROVE  Recorded(f) \in Seq(Sample)
<1>1. {r.name : r \in live} \subseteq ChaosNames
  BY DEF TypeOK, ChaosObjectRef
<1>2. /\ seen.meas \in Seq(Sample)
      /\ seen.reps + 1 \in Nat
      /\ ElapsedSeconds \in Nat
  BY DEF TypeOK, Status, ElapsedSeconds, None
<1>3. [rep |-> seen.reps + 1, window |-> seen.subPhase, at |-> ElapsedSeconds,
       faults |-> {r.name : r \in live}] \in Sample
  BY <1>1, <1>2 DEF Sample
<1> QED
  BY <1>2, <1>3 DEF Recorded

ClusterTypes ==
  /\ live \subseteq ChaosObjectRef
  /\ owned \subseteq ConfigMapRef
  /\ deployed \subseteq Roles
  /\ topo \in TopoType

RecordTypes ==
  /\ results \in Seq(RepetitionResult)
  /\ log \in Seq(LogEntry)
  /\ lastId \in Nat
  /\ budget \in Nat

(* The type invariant by the parts a handler touches together.              *)
LEMMA TypeOKParts == TypeOK <=> PatchTypes /\ ClusterTypes /\ RecordTypes
BY DEF TypeOK, PatchTypes, ClusterTypes, RecordTypes, TopoType

(* The same for the next state.                                             *)
LEMMA TypeOKPrimed ==
  ASSUME PatchTypes', ClusterTypes', RecordTypes'
  PROVE  TypeOK'
BY DEF TypeOK, PatchTypes, ClusterTypes, RecordTypes, TopoType

(* The fields of the status a reconcile reads.                              *)
LEMMA SeenTypes ==
  ASSUME TypeOK
  PROVE  /\ seen \in Status
         /\ seen.phase \in Phases /\ seen.subPhase \in SubPhases
         /\ seen.age \in Nat \cup {None} /\ seen.duration \in Nat
         /\ seen.meas \in Seq(Sample) /\ seen.id \in Nat /\ seen.reps \in Nat
         /\ seen.refs \subseteq Ref /\ seen.slo \in Seq(Sample)
         /\ seen.completed \in BOOLEAN
BY DEF TypeOK, Status

(* The initial states are well typed.                                       *)
LEMMA TypeInit == Init => TypeOK
<1> SUFFICES ASSUME Init PROVE TypeOK
  OBVIOUS
<1>1. Created \in Status
  BY DEF Created, Status, Phases, SubPhases, None
<1>2. topo \in TopoType
  BY DEF Init, TopoType, TopologyPhases
<1>3. FaultBudget \in Nat
  BY ExperimentAssumption
<1>4. PatchTypes
  <2>1. <<>> \in Seq(Status) /\ 0 \in Nat \cup {NotQueued}
    OBVIOUS
  <2> QED
    BY <1>1, <2>1 DEF Init, PatchTypes
<1>5. ClusterTypes
  BY <1>2 DEF Init, ClusterTypes
<1>6. RecordTypes
  <2>1. <<>> \in Seq(RepetitionResult) /\ <<>> \in Seq(LogEntry) /\ 0 \in Nat
    OBVIOUS
  <2> QED
    BY <1>3, <2>1 DEF Init, RecordTypes
<1> QED
  BY <1>4, <1>5, <1>6, TypeOKParts

(* A countdown, used by three of the handlers.                              *)
LEMMA CountDownType ==
  ASSUME TypeOK, NEW wait \in Nat, CountDown(wait)
  PROVE  TypeOK'
<1>1. PICK p \in Pick(PatchFaults) : Spend("none", p) /\ Patch(p, seen, seen, wait)
  BY DEF CountDown
<1>2. PatchTypes'
  BY <1>1, PatchType, SeenTypes, TypeOKParts
<1>3. budget' \in Nat
  BY <1>1, SpendType, TypeOKParts DEF RecordTypes
<1> QED
  BY <1>2, <1>3, TypeOKParts, TypeOKPrimed DEF CountDown, cluster, records, ClusterTypes, RecordTypes

(* handleIdle.                                                              *)
LEMMA IdleType ==
  ASSUME TypeOK, HandleIdle
  PROVE  TypeOK'
<1> DEFINE id == IF seen.id = 0 THEN lastId + 1 ELSE seen.id
           mod == [seen EXCEPT !.id = id, !.phase = "Running", !.meas = <<>>,
                               !.subPhase = "Deploying", !.age = None, !.duration = 0]
<1>1. PICK p \in Pick(PatchFaults) : Spend("none", p) /\ Patch(p, seen, mod, 0)
  BY DEF HandleIdle, RandomID
<1>2. id \in Nat /\ lastId' \in Nat
  <2>1. seen.id \in Nat /\ lastId \in Nat
    BY SeenTypes, TypeOKParts DEF RecordTypes
  <2>2. lastId' = IF seen.id = 0 THEN id ELSE lastId
    BY DEF HandleIdle, RandomID
  <2> QED
    BY <2>1, <2>2
<1> HIDE DEF id
<1>3. mod \in Status
  <2>1. seen \in Status
    BY SeenTypes
  <2>2. "Running" \in Phases /\ "Deploying" \in SubPhases /\ <<>> \in Seq(Sample)
    BY DEF Phases, SubPhases
  <2>3. None \in Nat \cup {None}
    OBVIOUS
  <2> HIDE DEF mod
  <2> QED
    BY <1>2, <2>1, <2>2, <2>3 DEF Status, mod
<1> HIDE DEF mod
<1>4. PatchTypes'
  BY <1>1, <1>3, PatchType, SeenTypes, TypeOKParts
<1>5. budget' \in Nat
  BY <1>1, SpendType, TypeOKParts DEF RecordTypes
<1> QED
  BY <1>2, <1>4, <1>5, TypeOKParts, TypeOKPrimed DEF HandleIdle, RandomID, cluster, records, ClusterTypes, RecordTypes

(* handleDeploying, succeeding, failing at a role or interrupted.           *)
LEMMA DeployingType ==
  ASSUME TypeOK, HandleDeploying
  PROVE  TypeOK'
<1>1. PICK f \in Pick({"deployError", "crash"}), p \in Pick(PatchFaults) :
        /\ Spend(f, p)
        /\ \/ Deployed(p)
           \/ \E r \in Roles, stage \in Stages :
                DeployFailed(p, r, stage) \/ DeployInterrupted(r, stage)
  BY DEF HandleDeploying
<1>2. budget' \in Nat
  BY <1>1, SpendType, TypeOKParts DEF RecordTypes
<1>3. PatchTypes' /\ owned' \subseteq ConfigMapRef /\ deployed' \subseteq Roles
  <2>1. CASE Deployed(p)
    <3> DEFINE next == IF UseTopology THEN "TopologyDelay" ELSE "LoadDelay"
               dur == IF UseTopology THEN TopologyDelay ELSE LoadDelay
               mod == [SetSubPhase(seen, next, dur) EXCEPT !.refs = ManifestRefs(seen.id, Roles)]
    <3>1. ManifestRefs(seen.id, Roles) \subseteq ConfigMapRef
      BY SeenTypes, ManifestRefsType
    <3>2. next \in SubPhases /\ dur \in Nat
      BY ConstantTypes DEF SubPhases
    <3>3. SetSubPhase(seen, next, dur) \in Status
      BY <3>2, SeenTypes, SetSubPhaseType
    <3>4. mod \in Status
      BY <3>1, <3>3 DEF Status, Ref
    <3>5. Patch(p, seen, mod, 0)
      BY <2>1 DEF Deployed
    <3> HIDE DEF mod
    <3>6. PatchTypes'
      BY <3>4, <3>5, PatchType, SeenTypes, TypeOKParts
    <3> QED
      BY <2>1, <3>1, <3>6, TypeOKParts DEF Deployed, OwnedSet, DeployedSet, ClusterTypes
  <2>2. ASSUME NEW r \in Roles, NEW stage \in Stages, DeployFailed(p, r, stage)
        PROVE  PatchTypes' /\ owned' \subseteq ConfigMapRef /\ deployed' \subseteq Roles
    <3>1. /\ StageOwned(owned, seen.id, r, stage) \subseteq ConfigMapRef
          /\ StageDeployed(deployed, r, stage) \subseteq Roles
      BY StageTypes, SeenTypes, TypeOKParts DEF ClusterTypes
    <3>2. PatchTypes'
      BY <2>2, FailType, SeenTypes, TypeOKParts DEF DeployFailed
    <3> QED
      BY <2>2, <3>1, <3>2 DEF DeployFailed, CleanedOwned, CleanedDeployed
  <2>3. ASSUME NEW r \in Roles, NEW stage \in Stages, DeployInterrupted(r, stage)
        PROVE  PatchTypes' /\ owned' \subseteq ConfigMapRef /\ deployed' \subseteq Roles
    BY <2>3, StageTypes, SeenTypes, TypeOKParts, DieType DEF ClusterTypes, DeployInterrupted
  <2> QED
    BY <1>1, <2>1, <2>2, <2>3
<1> QED
  BY <1>2, <1>3, TypeOKParts, TypeOKPrimed DEF HandleDeploying, records, ClusterTypes, RecordTypes

(* A handler that ends in a transition and touches nothing but the status.  *)
LEMMA TransitionType ==
  ASSUME TypeOK, NEW s \in SubPhases, NEW d \in Nat, NEW p, Spend("none", p),
         Patch(p, seen, SetSubPhase(seen, s, d), 0),
         UNCHANGED <<cluster, records, lastId>>
  PROVE  TypeOK'
<1>1. SetSubPhase(seen, s, d) \in Status
  BY SeenTypes, SetSubPhaseType
<1>2. PatchTypes'
  BY <1>1, PatchType, SeenTypes, TypeOKParts
<1>3. budget' \in Nat
  BY SpendType, TypeOKParts DEF RecordTypes
<1> QED
  BY <1>2, <1>3, TypeOKParts, TypeOKPrimed DEF cluster, records, ClusterTypes, RecordTypes

(* handleTopologyDelay.                                                     *)
LEMMA TopologyDelayType ==
  ASSUME TypeOK, HandleTopologyDelay
  PROVE  TypeOK'
<1>1. CASE CountDown(1)
  BY <1>1, CountDownType
<1>2. CASE ~CountDown(1)
  <2>1. PICK f \in Pick({"activateError", "staleTopology"}), p \in Pick(PatchFaults) :
          /\ Spend(f, p)
          /\ \/ /\ ActivateTopology(f)
                /\ Patch(p, seen, SetSubPhase(seen, "WaitingForTopology", 0), 0)
                /\ UNCHANGED <<owned, deployed>>
             \/ /\ Cleanup(f, seen.refs)
                /\ FailExperiment(p, seen)
                /\ UNCHANGED topo
    BY <1>2 DEF HandleTopologyDelay
  <2>2. UNCHANGED <<live, records, lastId>>
    BY <1>2 DEF HandleTopologyDelay
  <2>3. budget' \in Nat
    BY <2>1, SpendType, TypeOKParts DEF RecordTypes
  <2>4. PatchTypes' /\ owned' \subseteq ConfigMapRef /\ deployed' \subseteq Roles
          /\ topo' \in TopoType
    <3>1. CASE /\ ActivateTopology(f)
               /\ Patch(p, seen, SetSubPhase(seen, "WaitingForTopology", 0), 0)
               /\ UNCHANGED <<owned, deployed>>
      <4>1. SetSubPhase(seen, "WaitingForTopology", 0) \in Status
        BY SeenTypes, SetSubPhaseType DEF SubPhases
      <4>2. PatchTypes'
        BY <3>1, <4>1, PatchType, SeenTypes, TypeOKParts
      <4>3. topo' \in TopoType
        BY <3>1, TopoTypes, TypeOKParts DEF ClusterTypes, ActivateTopology
      <4> QED
        BY <3>1, <4>2, <4>3, TypeOKParts DEF ClusterTypes
    <3>2. CASE Cleanup(f, seen.refs) /\ FailExperiment(p, seen) /\ UNCHANGED topo
      BY <3>2, CleanupTypes, FailType, SeenTypes, TypeOKParts DEF ClusterTypes
    <3> QED
      BY <2>1, <3>1, <3>2
  <2> QED
    BY <2>2, <2>3, <2>4, TypeOKParts, TypeOKPrimed DEF records, ClusterTypes, RecordTypes
<1> QED
  BY <1>1, <1>2

(* handleWaitingForTopology.                                                *)
LEMMA WaitingType ==
  ASSUME TypeOK, HandleWaitingForTopology
  PROVE  TypeOK'
<1>1. CASE TopologyUnread
  <2>1. budget' \in Nat
    BY <1>1, SpendType, TypeOKParts DEF RecordTypes, TopologyUnread
  <2>2. PatchTypes'
    BY <1>1, TypeOKParts DEF TopologyUnread, PatchTypes
  <2> QED
    BY <1>1, <2>1, <2>2, TypeOKParts, TypeOKPrimed
       DEF TopologyUnread, cluster, records, ClusterTypes, RecordTypes
<1>2. CASE TopologyActive
  <2>1. "LoadDelay" \in SubPhases /\ LoadDelay \in Nat
    BY ConstantTypes DEF SubPhases
  <2> QED
    BY <1>2, <2>1, TransitionType DEF TopologyActive
<1>3. CASE TopologyAbandoned
  <2>1. PICK f, p : /\ Spend(f, p)
                    /\ DeactivateTopology(f)
                    /\ Cleanup(f, seen.refs)
                    /\ FailExperiment(p, seen)
    BY <1>3 DEF TopologyAbandoned
  <2>2. budget' \in Nat
    BY <2>1, SpendType, TypeOKParts DEF RecordTypes
  <2>3. PatchTypes'
    BY <2>1, FailType, SeenTypes, TypeOKParts
  <2>4. topo' \in TopoType
    BY <2>1, TopoTypes, TypeOKParts DEF ClusterTypes, DeactivateTopology
  <2>5. owned' \subseteq ConfigMapRef /\ deployed' \subseteq Roles
    BY <2>1, CleanupTypes, TypeOKParts DEF ClusterTypes
  <2> QED
    BY <1>3, <2>2, <2>3, <2>4, <2>5, TypeOKParts, TypeOKPrimed
       DEF TopologyAbandoned, records, ClusterTypes, RecordTypes
<1>4. CASE CountDown(2)
  BY <1>4, CountDownType
<1> QED
  BY <1>1, <1>2, <1>3, <1>4 DEF HandleWaitingForTopology

(* handleLoadDelay and handlePause.                                         *)
LEMMA TimedWaitType ==
  ASSUME TypeOK, NEW s, NEW next \in SubPhases, NEW d \in Nat,
         HandleTimedWait(s, next, d)
  PROVE  TypeOK'
<1>1. CASE CountDown(1)
  BY <1>1, CountDownType
<1>2. CASE ~CountDown(1)
  BY <1>2, TransitionType DEF HandleTimedWait
<1> QED
  BY <1>1, <1>2

(* handleMeasurement, of both windows.                                      *)
LEMMA MeasurementType ==
  ASSUME TypeOK, NEW s \in Measuring, NEW next \in {"ApplyingChaos", "Cleanup"},
         HandleMeasurement(s, next)
  PROVE  TypeOK'
<1>1. seen.subPhase \in Measuring
  BY DEF HandleMeasurement, Dispatch
<1>2. UNCHANGED <<cluster, results, lastId>>
  BY DEF HandleMeasurement
<1>3. CASE due' = 1 /\ UNCHANGED <<status, seen, watch, log, budget>>
  <2>1. PatchTypes'
    BY <1>3, TypeOKParts DEF PatchTypes
  <2> QED
    BY <1>2, <1>3, <2>1, TypeOKParts, TypeOKPrimed DEF cluster, ClusterTypes, RecordTypes
<1>4. CASE \E f, p :
             /\ Spend(f, p)
             /\ \/ WindowComplete(f, p, next)
                \/ /\ Patch(p, seen, [seen EXCEPT !.meas = Recorded(f)], 1)
                   /\ UNCHANGED log
  <2>1. PICK f, p :
             /\ Spend(f, p)
             /\ \/ WindowComplete(f, p, next)
                \/ /\ Patch(p, seen, [seen EXCEPT !.meas = Recorded(f)], 1)
                   /\ UNCHANGED log
    BY <1>4
  <2>2. budget' \in Nat
    BY <2>1, SpendType, TypeOKParts DEF RecordTypes
  <2>3. Recorded(f) \in Seq(Sample)
    BY <1>1, RecordedType
  <2>4. [seen EXCEPT !.meas = Recorded(f)] \in Status
    BY <2>3, SeenTypes DEF Status
  <2>5. CASE Patch(p, seen, [seen EXCEPT !.meas = Recorded(f)], 1) /\ UNCHANGED log
    <3> DEFINE mod == [seen EXCEPT !.meas = Recorded(f)]
    <3>1. PatchTypes'
      <4>1. mod \in Status /\ Patch(p, seen, mod, 1)
        BY <2>4, <2>5
      <4> HIDE DEF mod
      <4> QED
        BY <4>1, PatchType, SeenTypes, TypeOKParts
    <3> QED
      BY <1>2, <2>2, <2>5, <3>1, TypeOKParts, TypeOKPrimed DEF cluster, ClusterTypes, RecordTypes
  <2>6. CASE WindowComplete(f, p, next)
    <3> DEFINE actual == IF next = "ApplyingChaos" /\ ~UseChaos THEN "ChaosMeasurement" ELSE next
               m == Recorded(f)
               e == SetSubPhase([seen EXCEPT !.meas = m], actual, MeasurementDuration)
               mod == IF actual = "ChaosMeasurement" THEN [e EXCEPT !.meas = <<>>] ELSE e
    <3>1. actual \in SubPhases
      BY DEF SubPhases, Measuring
    <3>2. e \in Status
      BY <2>4, <3>1, SetSubPhaseType, ConstantTypes
    <3>3. mod \in Status
      <4>1. <<>> \in Seq(Sample)
        OBVIOUS
      <4> HIDE DEF e
      <4> QED
        BY <3>2, <4>1 DEF Status
    <3>4. PatchTypes' /\ log' \in Seq(LogEntry)
      <4>1. CASE /\ FailExperiment(p, [seen EXCEPT !.meas = m])
                 /\ UNCHANGED log
        BY <4>1, <2>4, FailType, TypeOKParts DEF RecordTypes
      <4>2. CASE /\ log' = Append(log, [rep |-> seen.reps + 1, window |-> seen.subPhase,
                                        samples |-> m])
                 /\ Patch(p, seen, mod, 0)
        <5> HIDE DEF mod
        <5>1. [rep |-> seen.reps + 1, window |-> seen.subPhase, samples |-> m] \in LogEntry
          BY <1>1, <2>3, SeenTypes DEF LogEntry
        <5>2. log \in Seq(LogEntry)
          BY TypeOKParts DEF RecordTypes
        <5>3. log' \in Seq(LogEntry)
          BY <4>2, <5>1, <5>2
        <5> QED
          BY <4>2, <3>3, <5>3, PatchType, SeenTypes, TypeOKParts
      <4> QED
        BY <2>6, <4>1, <4>2 DEF WindowComplete, AppendMeasurements
    <3> QED
      BY <1>2, <2>2, <3>4, TypeOKParts, TypeOKPrimed DEF cluster, ClusterTypes, RecordTypes
  <2> QED
    BY <2>1, <2>5, <2>6
<1> QED
  BY <1>3, <1>4 DEF HandleMeasurement

(* handleApplyingChaos.                                                     *)
LEMMA ApplyingChaosType ==
  ASSUME TypeOK, HandleApplyingChaos
  PROVE  TypeOK'
<1>1. PICK f, p :
        /\ Spend(f, p)
        /\ \/ ChaosApplied(p)
           \/ ChaosFailed(p, {})
           \/ ChaosPhaseUnread(p)
           \/ \E k \in 1..Len(ChaosObjects) : ChaosFailed(p, {k}) \/ ChaosInterrupted(k)
  BY DEF HandleApplyingChaos
<1>2. budget' \in Nat
  BY <1>1, SpendType, TypeOKParts DEF RecordTypes
<1> DEFINE Typed == /\ PatchTypes'
                    /\ live' \subseteq ChaosObjectRef
                    /\ owned' \subseteq ConfigMapRef
                    /\ deployed' \subseteq Roles
<1>3. seen.id \in Nat /\ live \subseteq ChaosObjectRef
  BY SeenTypes, TypeOKParts DEF ClusterTypes
<1>4. ASSUME ChaosApplied(p) PROVE Typed
  <2> DEFINE refs == ReturnedRefs(live, seen.id, {})
             e == SetSubPhase(seen, "ChaosMeasurement", MeasurementDuration)
             mod == [e EXCEPT !.refs = @ \cup refs, !.meas = <<>>]
  <2>1. refs \subseteq Ref /\ AppliedChaos(live, seen.id, {}) \subseteq ChaosObjectRef
    BY <1>3, ChaosTypes DEF Ref
  <2>2. e \in Status
    BY SeenTypes, SetSubPhaseType, ConstantTypes DEF SubPhases, Measuring
  <2>3. mod \in Status
    <3>1. <<>> \in Seq(Sample)
      OBVIOUS
    <3> HIDE DEF e, refs
    <3>2. e.refs \cup refs \in SUBSET Ref
      BY <2>1, <2>2 DEF Status
    <3> QED
      BY <2>2, <3>1, <3>2 DEF Status
  <2>4. Patch(p, seen, mod, 0)
    BY <1>4 DEF ChaosApplied
  <2> HIDE DEF mod
  <2>5. PatchTypes'
    BY <2>3, <2>4, PatchType, SeenTypes, TypeOKParts
  <2> QED
    BY <1>4, <2>1, <2>5, TypeOKParts DEF ChaosApplied, ClusterTypes
<1>5. ASSUME NEW refused, ChaosFailed(p, refused) PROVE Typed
  <2>1. live' \subseteq ChaosObjectRef
    BY <1>3, <1>5, ChaosTypes DEF ChaosFailed, CleanedChaos
  <2>2. owned' \subseteq ConfigMapRef /\ deployed' \subseteq Roles
    BY <1>5, CleanupTypes, TypeOKParts DEF ChaosFailed, ClusterTypes
  <2>3. PatchTypes'
    BY <1>5, FailType, SeenTypes, TypeOKParts DEF ChaosFailed
  <2> QED
    BY <2>1, <2>2, <2>3
<1>6. ASSUME ChaosPhaseUnread(p) PROVE Typed
  <2>1. owned' \subseteq ConfigMapRef /\ deployed' \subseteq Roles
    BY <1>6, CleanupTypes, TypeOKParts DEF ChaosPhaseUnread, ClusterTypes
  <2>2. PatchTypes'
    BY <1>6, FailType, SeenTypes, TypeOKParts DEF ChaosPhaseUnread
  <2> QED
    BY <1>3, <1>6, <2>1, <2>2 DEF ChaosPhaseUnread
<1>7. ASSUME NEW k, ChaosInterrupted(k) PROVE Typed
  <2>1. live' \subseteq ChaosObjectRef
    BY <1>3, <1>7, ChaosTypes DEF ChaosInterrupted
  <2>2. PatchTypes'
    BY <1>7, DieType, TypeOKParts DEF ChaosInterrupted
  <2> QED
    BY <1>7, <2>1, <2>2, TypeOKParts DEF ChaosInterrupted, ClusterTypes
<1>8. Typed
  BY <1>1, <1>4, <1>5, <1>6, <1>7
<1> QED
  BY <1>2, <1>8, TypeOKParts, TypeOKPrimed
     DEF HandleApplyingChaos, records, ClusterTypes, RecordTypes

(* What handleCleanup removes.                                              *)
LEMMA TornDownType ==
  ASSUME TypeOK, NEW f, TornDown(f)
  PROVE  ClusterTypes'
<1>1. live' \subseteq ChaosObjectRef
  BY TypeOKParts DEF TornDown, CleanedChaos, ClusterTypes
<1>2. owned' \subseteq ConfigMapRef /\ deployed' \subseteq Roles
  BY CleanupTypes, TypeOKParts DEF TornDown, ClusterTypes
<1>3. topo' \in TopoType
  BY TopoTypes, TypeOKParts DEF TornDown, DeactivateTopology, ClusterTypes
<1> QED
  BY <1>1, <1>2, <1>3 DEF ClusterTypes

(* A crash in the middle of handleCleanup.                                  *)
LEMMA TearDownInterruptedType ==
  ASSUME TypeOK, TearDownInterrupted
  PROVE  ClusterTypes' /\ PatchTypes'
<1>1. live' \subseteq ChaosObjectRef
  BY TypeOKParts DEF TearDownInterrupted, CleanedChaos, ClusterTypes
<1>2. owned' \subseteq ConfigMapRef /\ deployed' \subseteq Roles
  BY CleanupTypes, TypeOKParts DEF TearDownInterrupted, ClusterTypes
<1>3. topo' \in TopoType
  BY TopoTypes, TypeOKParts DEF TearDownInterrupted, DeactivateTopology, ClusterTypes
<1> QED
  BY <1>1, <1>2, <1>3, DieType, TypeOKParts DEF TearDownInterrupted, ClusterTypes

(* handleCleanup.                                                           *)
LEMMA CleanupHandlerType ==
  ASSUME TypeOK, HandleCleanup
  PROVE  TypeOK'
<1>1. PICK f, p :
        /\ Spend(f, p)
        /\ \/ TearDownInterrupted /\ UNCHANGED results
           \/ TornDown(f) /\ FailExperiment(p, seen) /\ UNCHANGED results
           \/ TornDown(f) /\ RepetitionDone(p)
  BY DEF HandleCleanup
<1>2. budget' \in Nat
  BY <1>1, SpendType, TypeOKParts DEF RecordTypes
<1>3. ClusterTypes'
  BY <1>1, TornDownType, TearDownInterruptedType
<1>4. PatchTypes' /\ results' \in Seq(RepetitionResult)
  <2>1. CASE TearDownInterrupted /\ UNCHANGED results
    BY <2>1, TearDownInterruptedType, TypeOKParts DEF RecordTypes
  <2>2. CASE FailExperiment(p, seen) /\ UNCHANGED results
    BY <2>2, FailType, SeenTypes, TypeOKParts DEF RecordTypes
  <2>3. CASE RepetitionDone(p)
    <3> DEFINE rep == seen.reps + 1
               done == [seen EXCEPT !.reps = rep, !.slo = seen.meas, !.refs = {}, !.meas = <<>>]
               mod == IF rep < Repetitions /\ PauseBetweenRepetitions > 0
                      THEN SetSubPhase(done, "Pause", PauseBetweenRepetitions)
                      ELSE SetSubPhase(done, "", 0)
    <3>1. results' = Append(results, [rep |-> rep, samples |-> seen.meas])
          /\ Patch(p, seen, mod, 0)
      BY <2>3 DEF RepetitionDone, AppendRepetition
    <3>2. rep \in Nat /\ <<>> \in Seq(Sample) /\ {} \in SUBSET Ref /\ seen.meas \in Seq(Sample)
      BY SeenTypes
    <3> HIDE DEF rep
    <3>3. done \in Status
      <4>1. seen \in Status
        BY SeenTypes
      <4> QED
        BY <3>2, <4>1 DEF Status
    <3> HIDE DEF done
    <3>4. mod \in Status
      BY <3>3, SetSubPhaseType, ConstantTypes DEF SubPhases
    <3> HIDE DEF mod
    <3>5. PatchTypes'
      BY <3>1, <3>4, PatchType, SeenTypes, TypeOKParts
    <3>6. [rep |-> rep, samples |-> seen.meas] \in RepetitionResult
      BY <3>2 DEF RepetitionResult
    <3>7. results \in Seq(RepetitionResult)
      BY TypeOKParts DEF RecordTypes
    <3> QED
      BY <3>1, <3>5, <3>6, <3>7
  <2> QED
    BY <1>1, <2>1, <2>2, <2>3
<1> QED
  BY <1>2, <1>3, <1>4, TypeOKParts, TypeOKPrimed DEF HandleCleanup, RecordTypes

(* A status one second later is a status.                                   *)
LEMMA OlderType ==
  ASSUME NEW v \in Status
  PROVE  Older(v) \in Status
<1>1. CASE v.age = None
  BY <1>1 DEF Older
<1>2. CASE v.age # None
  <2> DEFINE a == v.age + 1
  <2>1. a \in Nat
    BY <1>2 DEF Status
  <2>2. Older(v) = [v EXCEPT !.age = a]
    BY <1>2 DEF Older
  <2> HIDE DEF a
  <2> QED
    BY <2>1, <2>2 DEF Status
<1> QED
  BY <1>1, <1>2

(* The passing of time.                                                     *)
LEMMA TickType ==
  ASSUME TypeOK, Tick
  PROVE  TypeOK'
<1>1. budget' \in Nat
  BY SpendType, TypeOKParts DEF RecordTypes, Tick
<1>2. due' \in Nat \cup {NotQueued}
  BY TypeOKParts DEF Tick, PatchTypes, NotQueued
<1>3. status' \in Status /\ seen' \in Status
  BY OlderType, TypeOKParts DEF Tick, PatchTypes
<1>4. watch' \in Seq(Status)
  <2>1. watch \in Seq(Status) /\ watch' = [i \in 1..Len(watch) |-> Older(watch[i])]
    BY TypeOKParts DEF Tick, PatchTypes
  <2>2. \A i \in 1..Len(watch) : Older(watch[i]) \in Status
    BY <2>1, OlderType
  <2>3. Len(watch) \in Nat
    BY <2>1
  <2> QED
    BY <2>1, <2>2, <2>3
<1> QED
  BY <1>1, <1>2, <1>3, <1>4, TypeOKParts, TypeOKPrimed
     DEF Tick, PatchTypes, cluster, records, ClusterTypes, RecordTypes

(* The end of an experiment, all repetitions done.                          *)
LEMMA FinalizeType ==
  ASSUME TypeOK, Finalize
  PROVE  TypeOK'
<1> DEFINE e == [seen EXCEPT !.completed = TRUE]
           mod == [e EXCEPT !.phase = "Succeeded"]
<1>1. PICK p : Spend("none", p) /\ Patch(p, e, mod, NotQueued)
  BY DEF Finalize
<1>2. e \in Status /\ mod \in Status
  BY SeenTypes DEF Status, Phases, Terminal
<1> HIDE DEF e, mod
<1>3. PatchTypes'
  BY <1>1, <1>2, PatchType, TypeOKParts
<1>4. budget' \in Nat
  BY <1>1, SpendType, TypeOKParts DEF RecordTypes
<1> QED
  BY <1>3, <1>4, TypeOKParts, TypeOKPrimed
     DEF Finalize, cluster, records, ClusterTypes, RecordTypes

(* The steps of everyone else.                                              *)
LEMMA WorldType ==
  ASSUME TypeOK,
         ReconcileTerminal \/ Deliver \/ Restart \/ SpecEdit \/ TopologyController
           \/ TopologyCached \/ UNCHANGED vars
  PROVE  TypeOK'
<1>1. budget' \in Nat
  BY SpendType, TypeOKParts DEF RecordTypes, ReconcileTerminal, Deliver, Restart, SpecEdit,
     TopologyController, TopologyCached, vars
<1>2. PatchTypes'
  <2>1. CASE Deliver
    <3>1. watch \in Seq(Status) /\ watch # <<>>
      BY <2>1, TypeOKParts DEF Deliver, PatchTypes
    <3>2. Head(watch) \in Status /\ Tail(watch) \in Seq(Status)
      BY <3>1
    <3> QED
      BY <2>1, <3>2, TypeOKParts DEF Deliver, PatchTypes
  <2>2. CASE Restart
    BY <2>2, DieType, TypeOKParts DEF Restart
  <2> QED
    BY <2>1, <2>2, TypeOKParts DEF ReconcileTerminal, SpecEdit, TopologyController,
       TopologyCached, vars, PatchTypes
<1>3. topo' \in TopoType
  BY TypeOKParts DEF ReconcileTerminal, Deliver, Restart, SpecEdit,
     TopologyController, TopologyCached, vars, cluster, ClusterTypes, TopoType, TopologyPhases
<1>4. UNCHANGED <<live, owned, deployed, records, lastId>>
  BY DEF ReconcileTerminal, Deliver, Restart, SpecEdit,
     TopologyController, TopologyCached, vars, cluster, records
<1> QED
  BY <1>1, <1>2, <1>3, <1>4, TypeOKParts, TypeOKPrimed DEF records, ClusterTypes, RecordTypes

(* Every step preserves the type invariant.                                 *)
LEMMA TypeStep == TypeOK /\ [Next]_vars => TypeOK'
<1> SUFFICES ASSUME TypeOK, [Next]_vars PROVE TypeOK'
  OBVIOUS
<1>1. CASE HandleTimedWait("LoadDelay", "PreChaosMeasurement", ChaosDelay)
  BY <1>1, TimedWaitType, ConstantTypes DEF SubPhases, Measuring
<1>2. CASE HandleTimedWait("Pause", "", 0)
  BY <1>2, TimedWaitType DEF SubPhases
<1>3. CASE HandleMeasurement("PreChaosMeasurement", "ApplyingChaos")
  BY <1>3, MeasurementType DEF Measuring
<1>4. CASE HandleMeasurement("ChaosMeasurement", "Cleanup")
  BY <1>4, MeasurementType DEF Measuring
<1> QED
  BY <1>1, <1>2, <1>3, <1>4, FinalizeType, IdleType, DeployingType, TopologyDelayType,
     WaitingType, ApplyingChaosType, CleanupHandlerType, TickType, WorldType
     DEF Next, Reconcile, Done

(* The model's state keeps its types: in particular the merge patches of    *)
(* stale and fresh copies never produce a status out of its domain.         *)
THEOREM TypeCorrect == Spec => []TypeOK
BY TypeInit, TypeStep, PTL DEF Spec

-----------------------------------------------------------------------------
(* Reconciles that start from the current status.  What most of the         *)
(* properties need is that no reconcile reads a status older than the       *)
(* stored one: then the merge patch of a handler writes exactly the status  *)
(* the handler computed, or nothing.                                        *)

NoStaleReads == "staleCache" \notin Faults

Fresh == seen = status /\ watch = <<>>

(* A status is its ten fields.                                              *)
LEMMA StatusEqual ==
  ASSUME NEW a \in Status, NEW b \in Status,
         a.phase = b.phase, a.subPhase = b.subPhase, a.age = b.age,
         a.duration = b.duration, a.meas = b.meas, a.id = b.id, a.reps = b.reps,
         a.refs = b.refs, a.slo = b.slo, a.completed = b.completed
  PROVE  a = b
BY DEF Status

(* With the base equal to the stored status, a merge patch writes the       *)
(* handler's object.                                                        *)
LEMMA MergeFresh ==
  ASSUME NEW s \in Status, NEW m \in Status
  PROVE  Merge(s, s, m) = m
BY DEF Merge, Status

(* The final patch of a handler stores the status it computed, or nothing.  *)
LEMMA FreshPatch ==
  ASSUME TypeOK, Fresh, NoStaleReads, NEW p \in Pick(PatchFaults), NEW mod \in Status,
         NEW wait, Patch(p, seen, mod, wait)
  PROVE  Fresh' /\ status' \in {status, mod}
<1>1. p # "staleCache"
  BY DEF Pick, NoStaleReads
<1>2. Merge(status, seen, mod) = mod
  BY MergeFresh DEF TypeOK, Fresh
<1> QED
  BY <1>1, <1>2 DEF Patch, Fresh

(* What a step may do to the status.                                        *)
Stays == status' = status

(* A field of the run that most handlers leave alone.                       *)
KeepsRun ==
  status'.id = status.id /\ status'.reps = status.reps /\ status'.slo = status.slo

(* setPhase.                                                                *)
Ends(phase) ==
  /\ status'.phase = phase /\ status'.subPhase = status.subPhase
  /\ status'.age = status.age /\ status'.duration = status.duration
  /\ status'.meas = status.meas /\ status'.refs = status.refs
  /\ KeepsRun

(* A transition to sub-phase s.                                             *)
Enters(s, d, meas, refs) ==
  /\ status'.phase = status.phase /\ status'.subPhase = s
  /\ status'.age = 0 /\ status'.duration = d
  /\ status'.meas = meas /\ status'.refs = refs
  /\ KeepsRun

(* The start of a repetition.                                               *)
Starts(id) ==
  /\ status'.phase = "Running" /\ status'.subPhase = "Deploying"
  /\ status'.age = None /\ status'.duration = 0
  /\ status'.meas = <<>> /\ status'.refs = status.refs
  /\ status'.id = id /\ status'.reps = status.reps /\ status'.slo = status.slo

(* A round of queries.                                                      *)
Samples(meas) ==
  /\ status'.phase = status.phase /\ status'.subPhase = status.subPhase
  /\ status'.age = status.age /\ status'.duration = status.duration
  /\ status'.meas = meas /\ status'.refs = status.refs
  /\ KeepsRun

(* The end of a repetition.                                                 *)
Counts(s, d) ==
  /\ status'.phase = status.phase /\ status'.subPhase = s
  /\ status'.age = 0 /\ status'.duration = d
  /\ status'.meas = <<>> /\ status'.refs = {}
  /\ status'.id = status.id /\ status'.reps = status.reps + 1
  /\ status'.slo = status.meas

(* A second passes.                                                         *)
Ages ==
  /\ status'.phase = status.phase /\ status'.subPhase = status.subPhase
  /\ status'.age = (IF status.age = None THEN None ELSE status.age + 1)
  /\ status'.duration = status.duration
  /\ status'.meas = status.meas /\ status'.refs = status.refs
  /\ KeepsRun

(* setPhase writes the phase alone, also when the handler has changed the   *)
(* object before, as handleMeasurement does.                                *)
LEMMA FreshPhase ==
  ASSUME TypeOK, Fresh, NoStaleReads, NEW p \in Pick(PatchFaults), NEW e \in Status,
         e.phase = seen.phase, NEW phase \in Phases, NEW wait,
         Patch(p, e, [e EXCEPT !.phase = phase], wait)
  PROVE  Fresh' /\ (Stays \/ Ends(phase))
<1> DEFINE mod == [e EXCEPT !.phase = phase]
<1>0. mod \in Status
  BY DEF Status
<1>1. /\ mod.phase = phase /\ mod.subPhase = e.subPhase /\ mod.age = e.age
      /\ mod.duration = e.duration /\ mod.meas = e.meas /\ mod.id = e.id
      /\ mod.reps = e.reps /\ mod.refs = e.refs /\ mod.slo = e.slo
      /\ mod.completed = e.completed
  BY DEF Status
<1>2. Patch(p, e, mod, wait) /\ p # "staleCache"
  BY DEF Pick, NoStaleReads
<1> HIDE DEF mod
<1>3. Merge(status, e, mod) = [status EXCEPT !.phase = phase]
  <2> DEFINE failed == [status EXCEPT !.phase = phase]
             merged == Merge(status, e, mod)
  <2>1. status \in Status /\ e.phase = status.phase
    BY DEF TypeOK, Fresh
  <2>2. /\ failed \in Status
        /\ failed.phase = phase /\ failed.subPhase = status.subPhase
        /\ failed.age = status.age /\ failed.duration = status.duration
        /\ failed.meas = status.meas /\ failed.id = status.id /\ failed.reps = status.reps
        /\ failed.refs = status.refs /\ failed.slo = status.slo
        /\ failed.completed = status.completed
    BY <2>1 DEF Status
  <2>3. merged.phase = phase
    BY <1>1, <2>1 DEF Merge
  <2>4. /\ merged.subPhase = status.subPhase
        /\ merged.age = status.age /\ merged.duration = status.duration
        /\ merged.meas = status.meas /\ merged.id = status.id /\ merged.reps = status.reps
        /\ merged.refs = status.refs /\ merged.slo = status.slo
        /\ merged.completed = status.completed
    BY <1>1 DEF Merge
  <2>5. merged \in Status
    BY <1>0, <2>1, MergeType
  <2> HIDE DEF failed, merged
  <2>6. failed = merged
    BY <2>2, <2>3, <2>4, <2>5, StatusEqual
  <2> QED
    BY <2>6 DEF failed, merged
<1>4. status' \in {status, [status EXCEPT !.phase = phase]} /\ Fresh'
  BY <1>2, <1>3 DEF Patch, Fresh
<1> QED
  BY <1>4 DEF Stays, Ends, KeepsRun, TypeOK, Status

LEMMA FreshFail ==
  ASSUME TypeOK, Fresh, NoStaleReads, NEW p \in Pick(PatchFaults), NEW e \in Status,
         e.phase = seen.phase, FailExperiment(p, e)
  PROVE  Fresh' /\ (Stays \/ Ends("Failed"))
BY FreshPhase DEF FailExperiment, Phases, Terminal

LEMMA FreshDie ==
  ASSUME Fresh, Die
  PROVE  Fresh' /\ Stays
BY DEF Fresh, Die, Stays

LEMMA FreshCountDown ==
  ASSUME TypeOK, Fresh, NoStaleReads, NEW wait, CountDown(wait)
  PROVE  Fresh' /\ Stays
<1>1. PICK p \in Pick(PatchFaults) : Patch(p, seen, seen, wait)
  BY DEF CountDown
<1> QED
  BY <1>1, FreshPatch DEF TypeOK, Fresh, Stays

(* The handlers.                                                            *)
LEMMA FreshFinalize ==
  ASSUME TypeOK, Fresh, NoStaleReads, Finalize
  PROVE  Fresh' /\ (Stays \/ Ends("Succeeded"))
<1> DEFINE e == [seen EXCEPT !.completed = TRUE]
<1>1. e \in Status /\ e.phase = seen.phase
  BY SeenTypes DEF Status
<1>2. PICK p \in Pick(PatchFaults) : Patch(p, e, [e EXCEPT !.phase = "Succeeded"], NotQueued)
  BY DEF Finalize
<1>3. "Succeeded" \in Phases
  BY DEF Phases, Terminal
<1> HIDE DEF e
<1> QED
  BY <1>1, <1>2, <1>3, FreshPhase

LEMMA FreshIdle ==
  ASSUME TypeOK, Fresh, NoStaleReads, HandleIdle
  PROVE  /\ Fresh'
         /\ \E id \in Nat : (Stays \/ Starts(id)) /\ (status.id # 0 => id = status.id)
<1> DEFINE id == IF seen.id = 0 THEN lastId + 1 ELSE seen.id
           mod == [seen EXCEPT !.id = id, !.phase = "Running", !.meas = <<>>,
                               !.subPhase = "Deploying", !.age = None, !.duration = 0]
<1>1. PICK p \in Pick(PatchFaults) : Patch(p, seen, mod, 0)
  BY DEF HandleIdle, RandomID
<1>2. id \in Nat /\ (seen.id # 0 => id = seen.id)
  BY SeenTypes, TypeOKParts DEF RecordTypes
<1> HIDE DEF id
<1>3. /\ mod \in Status
      /\ mod.phase = "Running" /\ mod.subPhase = "Deploying"
      /\ mod.age = None /\ mod.duration = 0
      /\ mod.meas = <<>> /\ mod.refs = seen.refs
      /\ mod.id = id /\ mod.reps = seen.reps /\ mod.slo = seen.slo
  <2>1. seen \in Status
    BY SeenTypes
  <2>2. "Running" \in Phases /\ "Deploying" \in SubPhases /\ <<>> \in Seq(Sample)
    BY DEF Phases, SubPhases
  <2> QED
    BY <1>2, <2>1, <2>2 DEF Status
<1> HIDE DEF mod
<1>4. Fresh' /\ status' \in {status, mod}
  BY <1>1, <1>3, FreshPatch
<1>5. Stays \/ Starts(id)
  BY <1>3, <1>4 DEF Stays, Starts, Fresh
<1> QED
  BY <1>2, <1>4, <1>5 DEF Fresh

(* The fields of a status on its way to another sub-phase.                  *)
LEMMA EnteredFields ==
  ASSUME NEW e \in Status, NEW s \in SubPhases, NEW d \in Nat
  PROVE  LET mod == SetSubPhase(e, s, d) IN
         /\ mod \in Status
         /\ mod.phase = e.phase /\ mod.subPhase = s /\ mod.age = 0 /\ mod.duration = d
         /\ mod.meas = e.meas /\ mod.refs = e.refs
         /\ mod.id = e.id /\ mod.reps = e.reps /\ mod.slo = e.slo
<1>1. SetSubPhase(e, s, d) \in Status
  BY SetSubPhaseType
<1> QED
  BY <1>1 DEF SetSubPhase, Status

LEMMA FreshMove ==
  ASSUME TypeOK, Fresh, NoStaleReads, NEW p \in Pick(PatchFaults),
         NEW s \in SubPhases, NEW d \in Nat,
         Patch(p, seen, SetSubPhase(seen, s, d), 0)
  PROVE  Fresh' /\ (Stays \/ Enters(s, d, status.meas, status.refs))
<1> DEFINE mod == SetSubPhase(seen, s, d)
<1>1. /\ mod \in Status
      /\ mod.phase = seen.phase /\ mod.subPhase = s /\ mod.age = 0 /\ mod.duration = d
      /\ mod.meas = seen.meas /\ mod.refs = seen.refs
      /\ mod.id = seen.id /\ mod.reps = seen.reps /\ mod.slo = seen.slo
  BY EnteredFields, SeenTypes
<1>2. Patch(p, seen, mod, 0)
  OBVIOUS
<1> HIDE DEF mod
<1>3. Fresh' /\ status' \in {status, mod}
  BY <1>1, <1>2, FreshPatch
<1> QED
  BY <1>1, <1>3 DEF Stays, Enters, KeepsRun, Fresh

LEMMA FreshDeployed ==
  ASSUME TypeOK, Fresh, NoStaleReads, NEW p \in Pick(PatchFaults), Deployed(p)
  PROVE  /\ Fresh'
         /\ \/ Stays
            \/ Enters(IF UseTopology THEN "TopologyDelay" ELSE "LoadDelay",
                      IF UseTopology THEN TopologyDelay ELSE LoadDelay,
                      status.meas, ManifestRefs(status.id, Roles))
<1> DEFINE s == IF UseTopology THEN "TopologyDelay" ELSE "LoadDelay"
           d == IF UseTopology THEN TopologyDelay ELSE LoadDelay
           e == SetSubPhase(seen, s, d)
           refs == ManifestRefs(seen.id, Roles)
           mod == [e EXCEPT !.refs = refs]
<1>1. s \in SubPhases /\ d \in Nat /\ refs \in SUBSET Ref
  BY ConstantTypes, ManifestRefsType, SeenTypes DEF SubPhases, Ref
<1>2. Patch(p, seen, mod, 0)
  BY DEF Deployed
<1> HIDE DEF s, d
<1>3. /\ e \in Status
      /\ e.phase = seen.phase /\ e.subPhase = s /\ e.age = 0 /\ e.duration = d
      /\ e.meas = seen.meas /\ e.id = seen.id /\ e.reps = seen.reps /\ e.slo = seen.slo
  <2>1. seen \in Status
    BY SeenTypes
  <2> QED
    BY <1>1, <2>1, EnteredFields
<1> HIDE DEF e, refs
<1>4. /\ mod \in Status
      /\ mod.phase = seen.phase /\ mod.subPhase = s /\ mod.age = 0 /\ mod.duration = d
      /\ mod.meas = seen.meas /\ mod.refs = refs
      /\ mod.id = seen.id /\ mod.reps = seen.reps /\ mod.slo = seen.slo
  BY <1>1, <1>3 DEF Status
<1> HIDE DEF mod
<1>5. Fresh' /\ status' \in {status, mod}
  BY <1>2, <1>4, FreshPatch
<1>6. Stays \/ Enters(s, d, status.meas, refs)
  BY <1>4, <1>5 DEF Stays, Enters, KeepsRun, Fresh
<1> QED
  BY <1>5, <1>6 DEF s, d, refs, Fresh

LEMMA FreshSample ==
  ASSUME TypeOK, Fresh, NoStaleReads, NEW p \in Pick(PatchFaults),
         NEW meas \in Seq(Sample), NEW wait,
         Patch(p, seen, [seen EXCEPT !.meas = meas], wait)
  PROVE  Fresh' /\ (Stays \/ Samples(meas))
<1> DEFINE mod == [seen EXCEPT !.meas = meas]
<1>1. /\ mod \in Status
      /\ mod.phase = seen.phase /\ mod.subPhase = seen.subPhase /\ mod.age = seen.age
      /\ mod.duration = seen.duration
      /\ mod.meas = meas /\ mod.refs = seen.refs
      /\ mod.id = seen.id /\ mod.reps = seen.reps /\ mod.slo = seen.slo
  BY SeenTypes DEF Status
<1>2. Patch(p, seen, mod, wait)
  OBVIOUS
<1> HIDE DEF mod
<1>3. Fresh' /\ status' \in {status, mod}
  BY <1>1, <1>2, FreshPatch
<1> QED
  BY <1>1, <1>3 DEF Stays, Samples, KeepsRun, Fresh

(* Where a window leads.                                                    *)
AfterWindow(next) == IF next = "ApplyingChaos" /\ ~UseChaos THEN "ChaosMeasurement" ELSE next

LEMMA FreshWindow ==
  ASSUME TypeOK, Fresh, NoStaleReads, NEW p \in Pick(PatchFaults), NEW f,
         NEW next \in {"ApplyingChaos", "Cleanup"},
         seen.subPhase \in Measuring, WindowComplete(f, p, next)
  PROVE  /\ Fresh'
         /\ \/ (Stays \/ Ends("Failed")) /\ UNCHANGED log
            \/ /\ log' = Append(log, [rep |-> status.reps + 1, window |-> status.subPhase,
                                      samples |-> Recorded(f)])
               /\ \/ Stays
                  \/ Enters(AfterWindow(next), MeasurementDuration,
                            IF AfterWindow(next) = "ChaosMeasurement" THEN <<>> ELSE Recorded(f),
                            status.refs)
<1> DEFINE meas == Recorded(f)
           m == [seen EXCEPT !.meas = meas]
           s == AfterWindow(next)
           e == SetSubPhase(m, s, MeasurementDuration)
           mod == IF s = "ChaosMeasurement" THEN [e EXCEPT !.meas = <<>>] ELSE e
           kept == IF s = "ChaosMeasurement" THEN <<>> ELSE meas
<1>1. \/ FailExperiment(p, m) /\ UNCHANGED log
      \/ /\ log' = Append(log, [rep |-> seen.reps + 1, window |-> seen.subPhase,
                                samples |-> meas])
         /\ Patch(p, seen, mod, 0)
  BY DEF WindowComplete, AppendMeasurements, AfterWindow
<1>2. meas \in Seq(Sample) /\ <<>> \in Seq(Sample)
  BY RecordedType
<1>3. s \in SubPhases /\ MeasurementDuration \in Nat
  BY ConstantTypes DEF AfterWindow, SubPhases, Measuring
<1> HIDE DEF meas, s
<1>4. /\ m \in Status
      /\ m.phase = seen.phase /\ m.refs = seen.refs /\ m.meas = meas
      /\ m.id = seen.id /\ m.reps = seen.reps /\ m.slo = seen.slo
  <2>1. seen \in Status
    BY SeenTypes
  <2> QED
    BY <1>2, <2>1 DEF Status
<1> HIDE DEF m
<1>5. /\ e \in Status
      /\ e.phase = seen.phase /\ e.subPhase = s /\ e.age = 0
      /\ e.duration = MeasurementDuration
      /\ e.refs = seen.refs /\ e.meas = meas
      /\ e.id = seen.id /\ e.reps = seen.reps /\ e.slo = seen.slo
  BY <1>3, <1>4, EnteredFields
<1> HIDE DEF e
<1>6. /\ mod \in Status
      /\ mod.phase = seen.phase /\ mod.subPhase = s /\ mod.age = 0
      /\ mod.duration = MeasurementDuration
      /\ mod.refs = seen.refs /\ mod.meas = kept
      /\ mod.id = seen.id /\ mod.reps = seen.reps /\ mod.slo = seen.slo
  <2>1. CASE s = "ChaosMeasurement"
    BY <1>2, <1>5, <2>1 DEF Status
  <2>2. CASE s # "ChaosMeasurement"
    BY <1>5, <2>2
  <2> QED
    BY <2>1, <2>2
<1> HIDE DEF mod
<1>7. CASE FailExperiment(p, m) /\ UNCHANGED log
  BY <1>4, <1>7, FreshFail
<1>8. CASE /\ log' = Append(log, [rep |-> seen.reps + 1, window |-> seen.subPhase,
                                  samples |-> meas])
           /\ Patch(p, seen, mod, 0)
  <2>1. Fresh' /\ status' \in {status, mod}
    BY <1>6, <1>8, FreshPatch
  <2>2. Stays \/ Enters(s, MeasurementDuration, kept, status.refs)
    BY <1>6, <2>1 DEF Stays, Enters, KeepsRun, Fresh
  <2>3. log' = Append(log, [rep |-> status.reps + 1, window |-> status.subPhase,
                            samples |-> meas])
    BY <1>8 DEF Fresh
  <2> QED
    BY <2>1, <2>2, <2>3 DEF meas, s
<1> QED
  BY <1>1, <1>7, <1>8

LEMMA FreshChaos ==
  ASSUME TypeOK, Fresh, NoStaleReads, NEW p \in Pick(PatchFaults), ChaosApplied(p)
  PROVE  /\ Fresh'
         /\ \/ Stays
            \/ Enters("ChaosMeasurement", MeasurementDuration, <<>>,
                      status.refs \cup ReturnedRefs(live, status.id, {}))
<1> DEFINE e == SetSubPhase(seen, "ChaosMeasurement", MeasurementDuration)
           new == ReturnedRefs(live, seen.id, {})
           mod == [e EXCEPT !.refs = @ \cup new, !.meas = <<>>]
<1>1. "ChaosMeasurement" \in SubPhases /\ MeasurementDuration \in Nat /\ <<>> \in Seq(Sample)
  BY ConstantTypes DEF SubPhases, Measuring
<1>2. new \subseteq Ref
  BY ChaosTypes, SeenTypes, TypeOKParts DEF ClusterTypes, Ref
<1>3. Patch(p, seen, mod, 0)
  BY DEF ChaosApplied
<1>4. /\ e \in Status
      /\ e.phase = seen.phase /\ e.subPhase = "ChaosMeasurement" /\ e.age = 0
      /\ e.duration = MeasurementDuration /\ e.refs = seen.refs
      /\ e.id = seen.id /\ e.reps = seen.reps /\ e.slo = seen.slo
  <2>1. seen \in Status
    BY SeenTypes
  <2> QED
    BY <1>1, <2>1, EnteredFields
<1> HIDE DEF e, new
<1>5. e.refs \cup new \in SUBSET Ref
  BY <1>2, <1>4 DEF Status
<1>6. /\ mod \in Status
      /\ mod.phase = seen.phase /\ mod.subPhase = "ChaosMeasurement" /\ mod.age = 0
      /\ mod.duration = MeasurementDuration /\ mod.refs = seen.refs \cup new
      /\ mod.meas = <<>>
      /\ mod.id = seen.id /\ mod.reps = seen.reps /\ mod.slo = seen.slo
  BY <1>1, <1>4, <1>5 DEF Status
<1> HIDE DEF mod
<1>7. Fresh' /\ status' \in {status, mod}
  BY <1>3, <1>6, FreshPatch
<1>8. Stays \/ Enters("ChaosMeasurement", MeasurementDuration, <<>>, status.refs \cup new)
  BY <1>6, <1>7 DEF Stays, Enters, KeepsRun, Fresh
<1> QED
  BY <1>7, <1>8 DEF new, Fresh

(* Where the end of repetition rep leads.                                   *)
PauseFollows(rep) == rep < Repetitions /\ PauseBetweenRepetitions > 0

LEMMA FreshRepetition ==
  ASSUME TypeOK, Fresh, NoStaleReads, NEW p \in Pick(PatchFaults), RepetitionDone(p)
  PROVE  /\ Fresh'
         /\ results' = Append(results, [rep |-> status.reps + 1, samples |-> status.meas])
         /\ \/ Stays
            \/ Counts("Pause", PauseBetweenRepetitions) /\ PauseFollows(status.reps + 1)
            \/ Counts("", 0)
<1> DEFINE rep == seen.reps + 1
           done == [seen EXCEPT !.reps = rep, !.slo = seen.meas, !.refs = {}, !.meas = <<>>]
           s == IF PauseFollows(rep) THEN "Pause" ELSE ""
           d == IF PauseFollows(rep) THEN PauseBetweenRepetitions ELSE 0
           mod == SetSubPhase(done, s, d)
<1>1. Patch(p, seen, mod, 0)
  BY DEF RepetitionDone, PauseFollows
<1>2. s \in SubPhases
  BY DEF SubPhases
<1>3. d \in Nat
  BY ConstantTypes
<1>4. rep \in Nat /\ <<>> \in Seq(Sample) /\ {} \in SUBSET Ref /\ seen.meas \in Seq(Sample)
  BY SeenTypes
<1>5. (s = "Pause" /\ d = PauseBetweenRepetitions /\ PauseFollows(rep)) \/ (s = "" /\ d = 0)
  OBVIOUS
<1> HIDE DEF s, d, rep
<1>6. /\ done \in Status
      /\ done.phase = seen.phase /\ done.meas = <<>> /\ done.refs = {}
      /\ done.id = seen.id /\ done.reps = rep /\ done.slo = seen.meas
  <2>1. seen \in Status
    BY SeenTypes
  <2> QED
    BY <1>4, <2>1 DEF Status
<1> HIDE DEF done
<1>7. /\ mod \in Status
      /\ mod.phase = seen.phase /\ mod.subPhase = s /\ mod.age = 0 /\ mod.duration = d
      /\ mod.meas = <<>> /\ mod.refs = {}
      /\ mod.id = seen.id /\ mod.reps = rep /\ mod.slo = seen.meas
  BY <1>2, <1>3, <1>6, EnteredFields
<1> HIDE DEF mod
<1>8. Fresh' /\ status' \in {status, mod}
  BY <1>1, <1>7, FreshPatch
<1>9. rep = status.reps + 1
  BY DEF rep, Fresh
<1>10. Stays \/ Counts(s, d)
  BY <1>7, <1>8, <1>9 DEF Stays, Counts, Fresh
<1>11. results' = Append(results, [rep |-> status.reps + 1, samples |-> status.meas])
  BY DEF RepetitionDone, AppendRepetition, Fresh
<1> QED
  BY <1>5, <1>8, <1>9, <1>10, <1>11

LEMMA FreshTick ==
  ASSUME TypeOK, Fresh, Tick
  PROVE  Fresh' /\ Ages
<1>1. Fresh'
  BY DEF Tick, Fresh
<1>2. status \in Status /\ status' = Older(status)
  BY DEF Tick, TypeOK
<1> QED
  BY <1>1, <1>2 DEF Older, Ages, KeepsRun, Status

(* The steps that have no part in the status.                               *)
LEMMA FreshElsewhere ==
  ASSUME Fresh, UNCHANGED <<status, seen, watch>>
  PROVE  Fresh' /\ Stays
BY DEF Fresh, Stays

(* Nothing is on its way to the cache.                                      *)
LEMMA NothingDelivered == Fresh => ~Deliver
BY DEF Fresh, Deliver

LEMMA FreshInit == Init => Fresh
BY DEF Init, Fresh

-----------------------------------------------------------------------------
(* What a step does to the status, the results and the measurements.        *)

Alive == status.phase \notin Terminal
Quiet == UNCHANGED records

Idle == {"", "Pause"}
Before == {"Deploying", "TopologyDelay", "WaitingForTopology", "LoadDelay"}
AfterBaseline == {"ApplyingChaos", "ChaosMeasurement", "Cleanup"}

(* The sub-phases apart.                                                    *)
LEMMA Apart ==
  /\ "" \in Idle /\ "Pause" \in Idle
  /\ \A s \in Idle : s \notin Before /\ s \notin AfterBaseline /\ s \notin Measuring
                     /\ s # "Cleanup" /\ s # "ChaosMeasurement" /\ s # "ApplyingChaos"
                     /\ s # "PreChaosMeasurement" /\ s # "Deploying"
                     /\ s # "TopologyDelay" /\ s # "WaitingForTopology" /\ s # "LoadDelay"
  /\ \A s \in Before : s \notin AfterBaseline /\ s \notin Measuring
  /\ "Deploying" \in Before /\ "TopologyDelay" \in Before
  /\ "WaitingForTopology" \in Before /\ "LoadDelay" \in Before
  /\ SubPhases = Idle \cup Before \cup AfterBaseline \cup Measuring
BY DEF Idle, Before, AfterBaseline, Measuring, SubPhases

(* The window that ends writes its values, then it is left; if the write    *)
(* fails, so does the experiment.                                           *)
WindowEnds(next) ==
  \E f :
    /\ UNCHANGED results
    /\ log' = Append(log, [rep |-> status.reps + 1, window |-> status.subPhase,
                           samples |-> Recorded(f)])
    /\ \/ Stays
       \/ Enters(AfterWindow(next), MeasurementDuration,
                 IF AfterWindow(next) = "ChaosMeasurement" THEN <<>> ELSE Recorded(f),
                 status.refs)

(* The result is written, then the repetition is counted.                   *)
RepetitionEnds ==
  /\ UNCHANGED log
  /\ results' = Append(results, [rep |-> status.reps + 1, samples |-> status.meas])
  /\ Stays \/ \E s \in Idle, d \in Nat : Counts(s, d)

(* The moves of a running experiment.                                       *)
Moves ==
  \/ Quiet /\ \E phase \in Terminal : Ends(phase)
  \/ Quiet /\ \E id \in Nat : Starts(id)
  \/ /\ Quiet /\ status.subPhase \in Before
     /\ \E s \in Before, d \in Nat : \E refs : Enters(s, d, status.meas, refs)
  \/ /\ Quiet /\ status.subPhase = "LoadDelay"
     /\ Enters("PreChaosMeasurement", ChaosDelay, status.meas, status.refs)
  \/ Quiet /\ \E s \in Idle : Enters(s, 0, status.meas, status.refs)
  \/ Quiet /\ status.subPhase \in Measuring /\ \E f : Samples(Recorded(f))
  \/ status.subPhase = "PreChaosMeasurement" /\ WindowEnds("ApplyingChaos")
  \/ status.subPhase = "ChaosMeasurement" /\ WindowEnds("Cleanup")
  \/ /\ Quiet /\ status.subPhase = "ApplyingChaos"
     /\ \E refs : Enters("ChaosMeasurement", MeasurementDuration, <<>>, refs)
  \/ status.subPhase = "Cleanup" /\ RepetitionEnds

RunStep == (Quiet /\ (Stays \/ Ages)) \/ (Alive /\ due = 0 /\ Moves)

LEMMA RunDeploying ==
  ASSUME TypeOK, Fresh, NoStaleReads, HandleDeploying
  PROVE  Fresh' /\ RunStep
<1>1. PICK p \in Pick(PatchFaults) : Deployed(p) \/ FailExperiment(p, seen) \/ Die
  BY DEF HandleDeploying, DeployFailed, DeployInterrupted
<1>2. Quiet /\ Alive /\ due = 0 /\ status.subPhase \in Before
  BY Apart DEF HandleDeploying, Dispatch, ReconcileDue, Quiet, records, Alive, Fresh
<1>3. CASE Deployed(p)
  <2>1. /\ (IF UseTopology THEN "TopologyDelay" ELSE "LoadDelay") \in Before
        /\ (IF UseTopology THEN TopologyDelay ELSE LoadDelay) \in Nat
    BY Apart, ConstantTypes
  <2> QED
    BY <1>2, <1>3, <2>1, FreshDeployed DEF RunStep, Moves
<1>4. CASE FailExperiment(p, seen)
  BY <1>2, <1>4, FreshFail, SeenTypes DEF RunStep, Moves, Terminal
<1>5. CASE Die
  BY <1>2, <1>5, FreshDie DEF RunStep
<1> QED
  BY <1>1, <1>3, <1>4, <1>5

LEMMA RunTopologyDelay ==
  ASSUME TypeOK, Fresh, NoStaleReads, HandleTopologyDelay
  PROVE  Fresh' /\ RunStep
<1>1. Quiet /\ Alive /\ due = 0 /\ status.subPhase \in Before
  BY Apart DEF HandleTopologyDelay, CountDown, Dispatch, ReconcileDue, Quiet, records, Alive, Fresh
<1>2. CASE CountDown(1)
  BY <1>1, <1>2, FreshCountDown DEF RunStep
<1>3. CASE ~CountDown(1)
  <2>1. PICK p \in Pick(PatchFaults) :
               \/ Patch(p, seen, SetSubPhase(seen, "WaitingForTopology", 0), 0)
               \/ FailExperiment(p, seen)
    BY <1>3 DEF HandleTopologyDelay
  <2>2. CASE Patch(p, seen, SetSubPhase(seen, "WaitingForTopology", 0), 0)
    <3>1. "WaitingForTopology" \in Before /\ "WaitingForTopology" \in SubPhases /\ 0 \in Nat
      BY Apart
    <3> QED
      BY <1>1, <2>2, <3>1, FreshMove DEF RunStep, Moves
  <2>3. CASE FailExperiment(p, seen)
    BY <1>1, <2>3, FreshFail, SeenTypes DEF RunStep, Moves, Terminal
  <2> QED
    BY <2>1, <2>2, <2>3
<1> QED
  BY <1>2, <1>3

LEMMA RunWaiting ==
  ASSUME TypeOK, Fresh, NoStaleReads, HandleWaitingForTopology
  PROVE  Fresh' /\ RunStep
<1>1. Quiet /\ Alive /\ due = 0 /\ status.subPhase \in Before
  BY Apart DEF HandleWaitingForTopology, CountDown, Dispatch, ReconcileDue, Quiet, records, Alive, Fresh,
     TopologyUnread, TopologyActive, TopologyAbandoned
<1>2. CASE CountDown(2)
  BY <1>1, <1>2, FreshCountDown DEF RunStep
<1>3. CASE TopologyUnread
  BY <1>1, <1>3, FreshElsewhere DEF RunStep, TopologyUnread
<1>4. CASE TopologyActive
  <2>1. PICK p \in Pick(PatchFaults) : Patch(p, seen, SetSubPhase(seen, "LoadDelay", LoadDelay), 0)
    BY <1>4 DEF TopologyActive
  <2>2. "LoadDelay" \in Before /\ "LoadDelay" \in SubPhases /\ LoadDelay \in Nat
    BY Apart, ConstantTypes
  <2> QED
    BY <1>1, <2>1, <2>2, FreshMove DEF RunStep, Moves
<1>5. CASE TopologyAbandoned
  <2>1. PICK p \in Pick(PatchFaults) : FailExperiment(p, seen)
    BY <1>5 DEF TopologyAbandoned
  <2> QED
    BY <1>1, <2>1, FreshFail, SeenTypes DEF RunStep, Moves, Terminal
<1> QED
  BY <1>2, <1>3, <1>4, <1>5 DEF HandleWaitingForTopology

(* LoadDelay and Pause, which only let time pass.                            *)
LEMMA RunTimedWait ==
  ASSUME TypeOK, Fresh, NoStaleReads, NEW s, NEW next \in SubPhases, NEW d \in Nat,
         HandleTimedWait(s, next, d)
  PROVE  /\ Fresh' /\ Quiet /\ Alive /\ due = 0 /\ status.subPhase = s
         /\ Stays \/ Enters(next, d, status.meas, status.refs)
<1>1. Quiet /\ Alive /\ due = 0 /\ status.subPhase = s
  BY DEF HandleTimedWait, CountDown, Dispatch, ReconcileDue, Quiet, records, Alive, Fresh
<1>2. CASE CountDown(1)
  BY <1>1, <1>2, FreshCountDown
<1>3. CASE ~CountDown(1)
  <2>1. PICK p \in Pick(PatchFaults) : Patch(p, seen, SetSubPhase(seen, next, d), 0)
    BY <1>3 DEF HandleTimedWait
  <2> QED
    BY <1>1, <2>1, FreshMove
<1> QED
  BY <1>2, <1>3

(* A window: it fails, takes values, or ends and is logged.                 *)
LEMMA RunMeasurement ==
  ASSUME TypeOK, Fresh, NoStaleReads, NEW s \in Measuring,
         NEW next \in {"ApplyingChaos", "Cleanup"}, HandleMeasurement(s, next)
  PROVE  /\ Fresh' /\ Alive /\ due = 0 /\ status.subPhase = s
         /\ \/ Quiet /\ (Stays \/ Ends("Failed") \/ \E f : Samples(Recorded(f)))
            \/ WindowEnds(next)
<1>1. UNCHANGED results /\ Alive /\ due = 0 /\ status.subPhase = s /\ seen.subPhase = s
  BY DEF HandleMeasurement, Dispatch, ReconcileDue, Alive, Fresh
<1>2. CASE UNCHANGED <<status, seen, watch, log>>
  BY <1>1, <1>2, FreshElsewhere DEF Quiet, records
<1>3. ASSUME NEW f, NEW p \in Pick(PatchFaults), WindowComplete(f, p, next)
      PROVE  /\ Fresh'
             /\ \/ Quiet /\ (Stays \/ Ends("Failed"))
                \/ WindowEnds(next)
  BY <1>1, <1>3, FreshWindow DEF Quiet, records, WindowEnds
<1>4. ASSUME NEW f, NEW p \in Pick(PatchFaults),
             Patch(p, seen, [seen EXCEPT !.meas = Recorded(f)], 1), UNCHANGED log
      PROVE  Fresh' /\ Quiet /\ (Stays \/ \E g : Samples(Recorded(g)))
  <2>1. Recorded(f) \in Seq(Sample)
    BY <1>1, RecordedType
  <2> QED
    BY <1>1, <1>4, <2>1, FreshSample DEF Quiet, records
<1> QED
  BY <1>1, <1>2, <1>3, <1>4 DEF HandleMeasurement

LEMMA RunApplyingChaos ==
  ASSUME TypeOK, Fresh, NoStaleReads, HandleApplyingChaos
  PROVE  Fresh' /\ RunStep
<1>1. PICK p \in Pick(PatchFaults) : ChaosApplied(p) \/ FailExperiment(p, seen) \/ Die
  BY DEF HandleApplyingChaos, ChaosFailed, ChaosPhaseUnread, ChaosInterrupted
<1>2. Quiet /\ Alive /\ due = 0 /\ status.subPhase = "ApplyingChaos"
  BY DEF HandleApplyingChaos, Dispatch, ReconcileDue, Quiet, records, Alive, Fresh
<1>3. CASE ChaosApplied(p)
  BY <1>2, <1>3, FreshChaos DEF RunStep, Moves
<1>4. CASE FailExperiment(p, seen)
  BY <1>2, <1>4, FreshFail, SeenTypes DEF RunStep, Moves, Terminal
<1>5. CASE Die
  BY <1>2, <1>5, FreshDie DEF RunStep
<1> QED
  BY <1>1, <1>3, <1>4, <1>5

(* The end of a repetition, in which it is counted.                         *)
LEMMA RunCleanup ==
  ASSUME TypeOK, Fresh, NoStaleReads, HandleCleanup
  PROVE  Fresh' /\ RunStep
<1>1. Alive /\ due = 0 /\ status.subPhase = "Cleanup" /\ UNCHANGED log
  BY DEF HandleCleanup, Dispatch, ReconcileDue, Alive, Fresh
<1>2. PICK p \in Pick(PatchFaults) :
             \/ Die /\ UNCHANGED results
             \/ FailExperiment(p, seen) /\ UNCHANGED results
             \/ RepetitionDone(p)
  BY DEF HandleCleanup, TearDownInterrupted
<1>3. CASE Die /\ UNCHANGED results
  BY <1>1, <1>3, FreshDie DEF RunStep, Quiet, records
<1>4. CASE FailExperiment(p, seen) /\ UNCHANGED results
  <2>1. Quiet
    BY <1>1, <1>4 DEF Quiet, records
  <2> QED
    BY <1>1, <1>4, <2>1, FreshFail, SeenTypes DEF RunStep, Moves, Terminal
<1>5. CASE RepetitionDone(p)
  <2>1. PauseBetweenRepetitions \in Nat /\ 0 \in Nat
    BY ConstantTypes
  <2>2. /\ Fresh'
        /\ results' = Append(results, [rep |-> status.reps + 1, samples |-> status.meas])
        /\ Stays \/ Counts("Pause", PauseBetweenRepetitions) \/ Counts("", 0)
    BY <1>5, FreshRepetition
  <2>3. Stays \/ \E s \in Idle, d \in Nat : Counts(s, d)
    BY <2>1, <2>2, Apart
  <2> QED
    BY <1>1, <2>2, <2>3 DEF RunStep, Moves, RepetitionEnds
<1> QED
  BY <1>2, <1>3, <1>4, <1>5

(* Every step of an experiment whose reads are fresh.                       *)
LEMMA RunSteps ==
  ASSUME NoStaleReads, TypeOK, Fresh, [Next]_vars
  PROVE  Fresh' /\ RunStep
<1>1. CASE ReconcileTerminal \/ SpecEdit \/ TopologyController \/ TopologyCached \/ UNCHANGED vars
  <2>1. UNCHANGED <<status, seen, watch>> /\ Quiet
    BY <1>1 DEF ReconcileTerminal, SpecEdit, TopologyController, TopologyCached, vars,
       Quiet, records
  <2> QED
    BY <2>1, FreshElsewhere DEF RunStep
<1>2. CASE Restart
  BY <1>2, FreshDie DEF Restart, RunStep, Quiet
<1>3. CASE Finalize
  <2>1. Quiet /\ Alive /\ due = 0 /\ "Succeeded" \in Terminal
    BY <1>3 DEF Finalize, ReconcileDue, Quiet, Alive, Fresh, Terminal
  <2> QED
    BY <1>3, <2>1, FreshFinalize DEF RunStep, Moves
<1>4. CASE HandleIdle
  <2>1. Quiet /\ Alive /\ due = 0
    BY <1>4 DEF HandleIdle, Dispatch, ReconcileDue, Quiet, Alive, Fresh
  <2> QED
    BY <1>4, <2>1, FreshIdle DEF RunStep, Moves
<1>5. CASE HandleTimedWait("LoadDelay", "PreChaosMeasurement", ChaosDelay)
  <2>1. "PreChaosMeasurement" \in SubPhases /\ ChaosDelay \in Nat
    BY ConstantTypes DEF SubPhases, Measuring
  <2> QED
    BY <1>5, <2>1, RunTimedWait DEF RunStep, Moves
<1>6. CASE HandleTimedWait("Pause", "", 0)
  <2>1. "" \in SubPhases /\ 0 \in Nat /\ "" \in Idle
    BY Apart DEF SubPhases
  <2> QED
    BY <1>6, <2>1, RunTimedWait DEF RunStep, Moves
<1>7. CASE HandleMeasurement("PreChaosMeasurement", "ApplyingChaos")
  <2>1. "PreChaosMeasurement" \in Measuring /\ "Failed" \in Terminal
    BY DEF Measuring, Terminal
  <2> QED
    BY <1>7, <2>1, RunMeasurement DEF RunStep, Moves
<1>8. CASE HandleMeasurement("ChaosMeasurement", "Cleanup")
  <2>1. "ChaosMeasurement" \in Measuring /\ "Failed" \in Terminal
    BY DEF Measuring, Terminal
  <2> QED
    BY <1>8, <2>1, RunMeasurement DEF RunStep, Moves
<1>9. CASE Tick
  BY <1>9, FreshTick DEF Tick, RunStep, Quiet
<1>10. CASE Deliver
  BY <1>10, NothingDelivered
<1> QED
  BY <1>1, <1>2, <1>3, <1>4, <1>5, <1>6, <1>7, <1>8, <1>9, <1>10, RunDeploying,
     RunTopologyDelay, RunWaiting, RunApplyingChaos, RunCleanup DEF Next, Reconcile, Done

=============================================================================
