---------------------------- MODULE Experiment ----------------------------
(* The experiment controller (internal/controller/experiment_controller.go) *)
(* running one Experiment object: the sub-phase state machine that deploys  *)
(* a system under test, activates its topology, measures it before and      *)
(* under chaos, cleans up, records the repetition and starts the next one.  *)
(*                                                                          *)
(* The controller keeps nothing in memory.  A reconcile reads the object    *)
(* from the informer cache, calls the API server, and ends in at most one   *)
(* merge patch of the status; each handler is one action here, with the     *)
(* calls that fail chosen by the environment.  Time is counted in whole     *)
(* seconds, and a start time is kept as its age.                            *)
EXTENDS Integers, Sequences, FiniteSets, ChaosPhase, Manifests

CONSTANTS
  SpecRepetitions,      \* spec.duration.repetitions, 0 when it is not set
  TopologyDelay, LoadDelay, ChaosDelay,
  MeasurementDuration, PauseBetweenRepetitions,
  SampleInterval,       \* spec.duration.measurementSampleInterval
  TopologyTimeout,      \* the 300 seconds of handleWaitingForTopology
  UseTopology,          \* spec.topologyRef is set
  UseChaos,             \* spec.chaosPhaseRef is set
  Faults,               \* the kinds of failure the environment may show
  FaultBudget,          \* bound: how many of them in one behaviour
  MaxLag                \* bound: status versions the cache may be behind

CallFaults == {"deployError", "activateError", "deactivateError", "getError",
               "chaosError", "chaosDeleteError", "undeployError", "resultsError",
               "measurementsError", "queryError", "staleTopology", "crash"}
PatchFaults == {"patchError", "lostReply", "staleCache"}
WorldFaults == {"restart", "specEdit", "lateRun", "topologyFailed"}

ASSUME ExperimentAssumption ==
  /\ SpecRepetitions \in Nat
  /\ {TopologyDelay, LoadDelay, ChaosDelay, MeasurementDuration,
      PauseBetweenRepetitions, TopologyTimeout, FaultBudget} \subseteq Nat
  /\ SampleInterval \in Nat \ {0}
  /\ MaxLag \in Nat \ {0}
  /\ {UseTopology, UseChaos} \subseteq BOOLEAN
  /\ Faults \subseteq CallFaults \cup PatchFaults \cup WorldFaults

VARIABLES
  status,    \* the status of the Experiment in the API server
  seen,      \* the status in the informer cache, which reconciles read
  watch,     \* versions of the status on their way to the cache, oldest first
  due,       \* seconds to the next reconcile, 0 when it is due, NotQueued
  live,      \* references of the Chaos Mesh objects that exist
  owned,     \* references of the owned manifest ConfigMaps that exist
  deployed,  \* the roles whose objects exist
  topo,      \* the Topology: spec.active in the API server, and spec.active
             \* and status.phase in the informer cache
  results,   \* the results ConfigMap: the repetitions in the order written
  log,       \* the measurements ConfigMap: the windows in the order written
  lastId,    \* the last experiment identifier drawn
  budget     \* failures the environment may still show

vars == <<status, seen, watch, due, live, owned, deployed, topo, results, log,
          lastId, budget>>
cluster == <<live, owned, deployed, topo>>
records == <<results, log>>

NotQueued == -1
None == -1   \* a nil start time

Terminal == {"Succeeded", "Failed"}
Phases == {"", "Running"} \cup Terminal
Measuring == {"PreChaosMeasurement", "ChaosMeasurement"}
SubPhases == {"", "Deploying", "TopologyDelay", "WaitingForTopology", "LoadDelay",
              "ApplyingChaos", "Cleanup", "Pause"} \cup Measuring
TopologyPhases == {"", "Inactive", "Active", "Failed"}

Repetitions == IF SpecRepetitions = 0 THEN 1 ELSE SpecRepetitions

ChaosNames == {ChaosObjects[i].name : i \in 1..Len(ChaosObjects)}

(* One SLI value: the repetition, window and second it was queried in, and  *)
(* the chaos objects that existed then.                                     *)
Sample == [rep : Nat, window : Measuring, at : Nat, faults : SUBSET ChaosNames]

(* A reference in status.manifestConfigMaps: to an owned ConfigMap or to a  *)
(* chaos object.                                                            *)
ConfigMapRef == [kind : {"ConfigMap"}, id : Nat, name : Roles]
ChaosObjectRef == [kind : {"chaos"}, id : Nat, name : ChaosNames]
Ref == ConfigMapRef \cup ChaosObjectRef

Status == [phase : Phases, subPhase : SubPhases,
           age : Nat \cup {None}, duration : Nat, meas : Seq(Sample), id : Nat,
           reps : Nat, refs : SUBSET Ref, slo : Seq(Sample), completed : BOOLEAN]

RepetitionResult == [rep : Nat, samples : Seq(Sample)]
LogEntry == [rep : Nat, window : Measuring, samples : Seq(Sample)]

Created == [phase |-> "", subPhase |-> "", age |-> None, duration |-> 0,
            meas |-> <<>>, id |-> 0, reps |-> 0, refs |-> {}, slo |-> <<>>,
            completed |-> FALSE]

Init ==
  /\ status = Created
  /\ seen = Created
  /\ watch = <<>>
  /\ due = 0
  /\ live = {}
  /\ owned = {}
  /\ deployed = {}
  /\ topo \in [active : {FALSE}, cached : {FALSE}, phase : {"", "Inactive"}]
  /\ results = <<>>
  /\ log = <<>>
  /\ lastId = 0
  /\ budget = FaultBudget

-----------------------------------------------------------------------------
(* Failures.                                                                *)

Pick(kinds) == {"none"} \cup (Faults \cap kinds)

(* At most one call and at most the final patch of a reconcile fail, each   *)
(* at the cost of one from the budget.                                      *)
Spend(f, p) ==
  LET cost == (IF f = "none" THEN 0 ELSE 1) + (IF p = "none" THEN 0 ELSE 1)
  IN  cost <= budget /\ budget' = budget - cost

-----------------------------------------------------------------------------
(* The status patch.                                                        *)

(* A JSON merge patch carries the fields in which the object differs from   *)
(* the copy taken before it was changed, and leaves the others of the       *)
(* stored status alone.                                                     *)
Merge(stored, base, mod) ==
  [phase     |-> IF mod.phase = base.phase THEN stored.phase ELSE mod.phase,
   subPhase  |-> IF mod.subPhase = base.subPhase THEN stored.subPhase ELSE mod.subPhase,
   age       |-> IF mod.age = base.age THEN stored.age ELSE mod.age,
   duration  |-> IF mod.duration = base.duration THEN stored.duration ELSE mod.duration,
   meas      |-> IF mod.meas = base.meas THEN stored.meas ELSE mod.meas,
   id        |-> IF mod.id = base.id THEN stored.id ELSE mod.id,
   reps      |-> IF mod.reps = base.reps THEN stored.reps ELSE mod.reps,
   refs      |-> IF mod.refs = base.refs THEN stored.refs ELSE mod.refs,
   slo       |-> IF mod.slo = base.slo THEN stored.slo ELSE mod.slo,
   completed |-> IF mod.completed = base.completed THEN stored.completed ELSE mod.completed]

(* Status().Patch and the end of the reconcile: "wait" is when the next one *)
(* is due if the call returned no error.  The patch can fail, succeed with  *)
(* its answer lost, or reach the cache only later.                          *)
Patch(p, base, mod, wait) ==
  IF p = "patchError"
  THEN due' = 0 /\ UNCHANGED <<status, seen, watch>>
  ELSE LET new == Merge(status, base, mod) IN
       /\ status' = new
       /\ IF p = "staleCache" \/ watch # <<>>
          THEN watch' = Append(watch, new) /\ UNCHANGED seen
          ELSE seen' = new /\ UNCHANGED watch
       /\ due' = IF p = "lostReply" THEN 0 ELSE wait

(* Mutants of FailExperiment: a phase the controller never uses; the phase  *)
(* left unwritten, so that the error is retried.                            *)
FailAsCancelled(p, experiment) ==
  Patch(p, experiment, [experiment EXCEPT !.phase = "Cancelled"], 0)
FailUnrecorded(p, experiment) == due' = 0 /\ UNCHANGED <<status, seen, watch>>

(* failExperiment: setPhase copies the object as it stands, so the patch    *)
(* carries the phase only, and the error returned requeues the object       *)
(* whether the patch succeeded or not.                                      *)
FailExperiment(p, experiment) ==
  Patch(p, experiment, [experiment EXCEPT !.phase = "Failed"], 0)

(* The process dies in the middle of a reconcile.  The next one starts from *)
(* a fresh list of the objects.                                             *)
Die == seen' = status /\ watch' = <<>> /\ due' = 0 /\ UNCHANGED status

SetSubPhase(experiment, subPhase, duration) ==
  [experiment EXCEPT !.subPhase = subPhase, !.age = 0, !.duration = duration]

ElapsedSeconds == IF seen.age = None THEN 0 ELSE seen.age

-----------------------------------------------------------------------------
(* Reconcile.                                                               *)

ReconcileDue == due = 0 /\ Len(watch) < MaxLag

(* Terminal phases: nothing left to do.                                     *)
ReconcileTerminal ==
  /\ ReconcileDue
  /\ seen.phase \in Terminal
  /\ due' = NotQueued
  /\ UNCHANGED <<status, seen, watch, cluster, records, lastId, budget>>

(* All repetitions are done.  CompletionTime is set before setPhase copies  *)
(* the object, so the copy has it too.                                      *)
Finalize ==
  /\ ReconcileDue
  /\ seen.phase \notin Terminal
  /\ seen.reps >= Repetitions
  /\ \E p \in Pick(PatchFaults) :
       LET experiment == [seen EXCEPT !.completed = TRUE] IN
       /\ Spend("none", p)
       /\ Patch(p, experiment, [experiment EXCEPT !.phase = "Succeeded"], NotQueued)
  /\ UNCHANGED <<cluster, records, lastId>>

(* Mutant of Dispatch: terminal phases are not looked at.                   *)
DispatchAlways(subPhase) ==
  /\ ReconcileDue
  /\ seen.reps < Repetitions
  /\ seen.subPhase = subPhase

Dispatch(subPhase) ==
  /\ ReconcileDue
  /\ seen.phase \notin Terminal
  /\ seen.reps < Repetitions
  /\ seen.subPhase = subPhase

(* cleanup: undeploy what the references name; f may make one call fail.    *)
BadCalls(f) ==
  IF f = "undeployError"
  THEN {{<<r, c>>} : r \in Roles, c \in {"get", "objects", "configMap"}}
  ELSE {{}}

Cleanup(f, refs) ==
  \E bad \in BadCalls(f) :
    /\ owned' = CleanedOwned(owned, refs, bad)
    /\ deployed' = CleanedDeployed(deployed, owned, refs, bad)

-----------------------------------------------------------------------------
(* The handlers, in the order of a repetition.                              *)

(* Identifiers are drawn at random; two draws are taken to differ.          *)
RandomID == lastId + 1

HandleIdle ==
  LET id == IF seen.id = 0 THEN RandomID ELSE seen.id IN
  /\ Dispatch("")
  /\ lastId' = IF seen.id = 0 THEN id ELSE lastId
  /\ \E p \in Pick(PatchFaults) :
       /\ Spend("none", p)
       /\ Patch(p, seen,
                [seen EXCEPT !.id = id, !.phase = "Running", !.meas = <<>>,
                             !.subPhase = "Deploying", !.age = None, !.duration = 0],
                0)
  /\ UNCHANGED <<cluster, records>>

(* Every role was deployed.                                                 *)
Deployed(p) ==
  /\ owned' = OwnedSet(owned, seen.id, Roles)
  /\ deployed' = DeployedSet(deployed, Roles)
  /\ Patch(p, seen,
           [SetSubPhase(seen, IF UseTopology THEN "TopologyDelay" ELSE "LoadDelay",
                              IF UseTopology THEN TopologyDelay ELSE LoadDelay)
              EXCEPT !.refs = ManifestRefs(seen.id, Roles)],
           0)

(* Role r failed half-way: the roles before it are undeployed, what r left  *)
(* behind is not, for its name is recorded only once it is deployed.        *)
DeployFailed(p, r, stage) ==
  LET own == StageOwned(owned, seen.id, r, stage)
      done == ManifestRefs(seen.id, Earlier(r))
  IN  /\ owned' = CleanedOwned(own, done, {})
      /\ deployed' = CleanedDeployed(StageDeployed(deployed, r, stage), own, done, {})
      /\ FailExperiment(p, seen)

DeployInterrupted(r, stage) ==
  /\ owned' = StageOwned(owned, seen.id, r, stage)
  /\ deployed' = StageDeployed(deployed, r, stage)
  /\ Die

HandleDeploying ==
  /\ Dispatch("Deploying")
  /\ \E f \in Pick({"deployError", "crash"}), p \in Pick(PatchFaults) :
       /\ Spend(f, p)
       /\ \/ f = "none" /\ Deployed(p)
          \/ \E r \in Roles, stage \in Stages :
               \/ f = "deployError" /\ DeployFailed(p, r, stage)
               \/ f = "crash" /\ p = "none" /\ DeployInterrupted(r, stage)
  /\ UNCHANGED <<live, topo, records, lastId>>

(* A countdown that has not reached its end patches the elapsed seconds,    *)
(* which nothing reads back, and comes again after "wait" seconds.          *)
CountDown(wait) ==
  /\ \E p \in Pick(PatchFaults) : Spend("none", p) /\ Patch(p, seen, seen, wait)
  /\ UNCHANGED <<cluster, records, lastId>>

(* Both calls read the topology from the cache and do nothing when its      *)
(* spec.active is as wanted.  What they change is changed in the API server;*)
(* the cache may be late to learn of it.                                    *)
SetActive(f, wanted) ==
  topo' = IF f = "deactivateError" \/ topo.cached = wanted THEN topo
          ELSE [topo EXCEPT !.active = wanted,
                            !.cached = IF f = "staleTopology" THEN @ ELSE wanted]

ActivateTopology(f) == SetActive(f, TRUE)
DeactivateTopology(f) == SetActive(f, FALSE)

HandleTopologyDelay ==
  /\ Dispatch("TopologyDelay")
  /\ \/ ElapsedSeconds < seen.duration /\ CountDown(1)
     \/ /\ ElapsedSeconds >= seen.duration
        /\ \E f \in Pick({"activateError", "staleTopology"}), p \in Pick(PatchFaults) :
             /\ Spend(f, p)
             /\ \/ /\ f # "activateError"
                   /\ ActivateTopology(f)
                   /\ Patch(p, seen, SetSubPhase(seen, "WaitingForTopology", 0), 0)
                   /\ UNCHANGED <<owned, deployed>>
                \/ /\ f = "activateError"
                   /\ Cleanup(f, seen.refs)
                   /\ FailExperiment(p, seen)
                   /\ UNCHANGED topo
        /\ UNCHANGED <<live, records, lastId>>

(* The topology cannot be read: the error is returned and retried.          *)
TopologyUnread ==
  /\ Spend("getError", "none")
  /\ due' = 0
  /\ UNCHANGED <<status, seen, watch, cluster, records, lastId>>

(* Mutant of TopologyActive: the phase is not looked at.                    *)
TopologyAssumed ==
  /\ \E p \in Pick(PatchFaults) :
       Spend("none", p) /\ Patch(p, seen, SetSubPhase(seen, "LoadDelay", LoadDelay), 0)
  /\ UNCHANGED <<cluster, records, lastId>>

TopologyActive ==
  /\ topo.phase = "Active"
  /\ \E p \in Pick(PatchFaults) :
       Spend("none", p) /\ Patch(p, seen, SetSubPhase(seen, "LoadDelay", LoadDelay), 0)
  /\ UNCHANGED <<cluster, records, lastId>>

(* Mutant of TopologyAbandoned: no timeout.                                 *)
TopologyAbandonedOnFailure ==
  /\ topo.phase = "Failed"
  /\ \E p \in Pick(PatchFaults) :
       /\ Spend("none", p)
       /\ DeactivateTopology("none")
       /\ Cleanup("none", seen.refs)
       /\ FailExperiment(p, seen)
  /\ UNCHANGED <<live, records, lastId>>

TopologyAbandoned ==
  /\ topo.phase # "Active"
  /\ topo.phase = "Failed" \/ ElapsedSeconds > TopologyTimeout
  /\ \E f \in Pick({"deactivateError", "staleTopology", "undeployError"}), p \in Pick(PatchFaults) :
       /\ Spend(f, p)
       /\ DeactivateTopology(f)
       /\ Cleanup(f, seen.refs)
       /\ FailExperiment(p, seen)
  /\ UNCHANGED <<live, records, lastId>>

HandleWaitingForTopology ==
  /\ Dispatch("WaitingForTopology")
  /\ \/ "getError" \in Faults /\ TopologyUnread
     \/ TopologyActive
     \/ TopologyAbandoned
     \/ /\ topo.phase \notin {"Active", "Failed"}
        /\ ElapsedSeconds <= TopologyTimeout
        /\ CountDown(2)

HandleTimedWait(subPhase, next, nextDuration) ==
  /\ Dispatch(subPhase)
  /\ \/ ElapsedSeconds < seen.duration /\ CountDown(1)
     \/ /\ ElapsedSeconds >= seen.duration
        /\ \E p \in Pick(PatchFaults) :
             Spend("none", p) /\ Patch(p, seen, SetSubPhase(seen, next, nextDuration), 0)
        /\ UNCHANGED <<cluster, records, lastId>>

(* recordMeasurement: a query that fails or returns nothing is skipped.     *)
Recorded(f) ==
  IF f = "queryError" THEN seen.meas
  ELSE Append(seen.meas, [rep |-> seen.reps + 1, window |-> seen.subPhase,
                          at |-> ElapsedSeconds, faults |-> {r.name : r \in live}])

OnSampleBoundary == ElapsedSeconds % SampleInterval = 0

(* Mutant of WindowOver: the comparison is strict.                          *)
WindowExceeded == ElapsedSeconds > seen.duration
WindowOver == ElapsedSeconds >= seen.duration

(* One line for each value goes to the measurements ConfigMap.              *)
AppendMeasurements(samples) ==
  log' = Append(log, [rep |-> seen.reps + 1, window |-> seen.subPhase, samples |-> samples])

(* Mutants of WindowComplete: the state is not cleared before the chaos     *)
(* window; the last value is not yet in what is written.                    *)
WindowKeepsState(f, p, next) ==
  LET actualNext == IF next = "ApplyingChaos" /\ ~UseChaos THEN "ChaosMeasurement" ELSE next
  IN  /\ AppendMeasurements(Recorded(f))
      /\ Patch(p, seen, SetSubPhase([seen EXCEPT !.meas = Recorded(f)], actualNext,
                                    MeasurementDuration), 0)
WindowLogsBeforeLast(f, p, next) ==
  LET actualNext == IF next = "ApplyingChaos" /\ ~UseChaos THEN "ChaosMeasurement" ELSE next
  IN  /\ AppendMeasurements(seen.meas)
      /\ Patch(p, seen, SetSubPhase([seen EXCEPT !.meas = Recorded(f)], actualNext,
                                    MeasurementDuration), 0)

(* The window is over: its values go to the measurements ConfigMap, and the *)
(* state is cleared on the way to the chaos window.                         *)
WindowComplete(f, p, next) ==
  LET actualNext == IF next = "ApplyingChaos" /\ ~UseChaos THEN "ChaosMeasurement" ELSE next
      meas == Recorded(f)
      experiment == SetSubPhase([seen EXCEPT !.meas = meas], actualNext, MeasurementDuration)
  IN  \/ /\ f = "measurementsError"
         /\ FailExperiment(p, [seen EXCEPT !.meas = meas])
         /\ UNCHANGED log
      \/ /\ f # "measurementsError"
         /\ AppendMeasurements(meas)
         /\ Patch(p, seen,
                  IF actualNext = "ChaosMeasurement"
                  THEN [experiment EXCEPT !.meas = <<>>] ELSE experiment,
                  0)

HandleMeasurement(subPhase, next) ==
  /\ Dispatch(subPhase)
  /\ \/ /\ ~OnSampleBoundary
        /\ due' = 1
        /\ UNCHANGED <<status, seen, watch, log, budget>>
     \/ /\ OnSampleBoundary
        /\ \E f \in Pick({"queryError", "measurementsError"}), p \in Pick(PatchFaults) :
             /\ Spend(f, p)
             /\ \/ WindowOver /\ WindowComplete(f, p, next)
                \/ /\ ~WindowOver
                   /\ f # "measurementsError"
                   /\ Patch(p, seen, [seen EXCEPT !.meas = Recorded(f)], 1)
                   /\ UNCHANGED log
  /\ UNCHANGED <<cluster, results, lastId>>

-----------------------------------------------------------------------------
(* Chaos and the end of a repetition.                                       *)

(* Mutants of ChaosApplied: the references are not recorded; the baseline's *)
(* values are kept.                                                         *)
ChaosUntracked(p) ==
  /\ live' = AppliedChaos(live, seen.id, {})
  /\ Patch(p, seen, [SetSubPhase(seen, "ChaosMeasurement", MeasurementDuration)
                       EXCEPT !.meas = <<>>], 0)
  /\ UNCHANGED <<owned, deployed>>
ChaosKeepsBaseline(p) ==
  /\ live' = AppliedChaos(live, seen.id, {})
  /\ Patch(p, seen, [SetSubPhase(seen, "ChaosMeasurement", MeasurementDuration)
                       EXCEPT !.refs = @ \cup ReturnedRefs(live, seen.id, {})], 0)
  /\ UNCHANGED <<owned, deployed>>

ChaosApplied(p) ==
  /\ live' = AppliedChaos(live, seen.id, {})
  /\ Patch(p, seen,
           [SetSubPhase(seen, "ChaosMeasurement", MeasurementDuration)
              EXCEPT !.refs = @ \cup ReturnedRefs(live, seen.id, {}), !.meas = <<>>],
           0)
  /\ UNCHANGED <<owned, deployed>>

(* A create fails: what the returned references name is deleted again.      *)
ChaosFailed(p, refused) ==
  /\ live' = CleanedChaos(AppliedChaos(live, seen.id, refused),
                          ReturnedRefs(live, seen.id, refused), {})
  /\ Cleanup("none", seen.refs)
  /\ FailExperiment(p, seen)

ChaosPhaseUnread(p) ==
  /\ Cleanup("none", seen.refs)
  /\ FailExperiment(p, seen)
  /\ UNCHANGED live

ChaosInterrupted(k) ==
  /\ live' = AppliedChaos(live, seen.id, {k})
  /\ Die
  /\ UNCHANGED <<owned, deployed>>

HandleApplyingChaos ==
  /\ Dispatch("ApplyingChaos")
  /\ \E f \in Pick({"getError", "chaosError", "crash"}), p \in Pick(PatchFaults) :
       /\ Spend(f, p)
       /\ \/ f = "none" /\ ApplySucceeds(live, seen.id, {}) /\ ChaosApplied(p)
          \/ f = "none" /\ ~ApplySucceeds(live, seen.id, {}) /\ ChaosFailed(p, {})
          \/ f = "getError" /\ ChaosPhaseUnread(p)
          \/ \E k \in 1..Len(ChaosObjects) :
               \/ f = "chaosError" /\ ChaosFailed(p, {k})
               \/ f = "crash" /\ p = "none" /\ ChaosInterrupted(k)
  /\ UNCHANGED <<topo, records, lastId>>

StuckObjects(f) == IF f = "chaosDeleteError" THEN {{r} : r \in live} ELSE {{}}

(* A result is added to the list in the results ConfigMap.                  *)
AppendRepetition(rep) == results' = Append(results, [rep |-> rep, samples |-> seen.meas])

(* Mutants of RepetitionDone: repetitions recorded from 0; the score taken  *)
(* from the state after it was cleared.                                     *)
RepetitionFromZero(p) ==
  LET done == [seen EXCEPT !.reps = @ + 1, !.slo = seen.meas, !.refs = {}, !.meas = <<>>]
  IN  /\ AppendRepetition(seen.reps)
      /\ Patch(p, seen, SetSubPhase(done, "", 0), 0)
RepetitionClearedFirst(p) ==
  LET done == [seen EXCEPT !.reps = @ + 1, !.slo = <<>>, !.refs = {}, !.meas = <<>>]
  IN  /\ AppendRepetition(seen.reps + 1)
      /\ Patch(p, seen, SetSubPhase(done, "", 0), 0)

(* The repetition is in the results ConfigMap: count it.                    *)
RepetitionDone(p) ==
  LET rep == seen.reps + 1
      done == [seen EXCEPT !.reps = rep, !.slo = seen.meas, !.refs = {}, !.meas = <<>>]
  IN  /\ AppendRepetition(rep)
      /\ Patch(p, seen,
               IF rep < Repetitions /\ PauseBetweenRepetitions > 0
               THEN SetSubPhase(done, "Pause", PauseBetweenRepetitions)
               ELSE SetSubPhase(done, "", 0),
               0)

(* Mutants of TornDown: the chaos objects or the topology are forgotten.    *)
TornDownExceptChaos(f) ==
  /\ UNCHANGED live
  /\ Cleanup(f, seen.refs)
  /\ IF UseTopology THEN DeactivateTopology(f) ELSE UNCHANGED topo
TornDownExceptTopology(f) ==
  /\ live' = CleanedChaos(live, seen.refs, {})
  /\ Cleanup(f, seen.refs)
  /\ UNCHANGED topo

TornDown(f) ==
  /\ \E stuck \in StuckObjects(f) : live' = CleanedChaos(live, seen.refs, stuck)
  /\ Cleanup(f, seen.refs)
  /\ IF UseTopology THEN DeactivateTopology(f) ELSE UNCHANGED topo

(* The process dies after the chaos objects, after the manifests, or after  *)
(* the topology was dealt with.                                             *)
TearDownInterrupted ==
  /\ live' = CleanedChaos(live, seen.refs, {})
  /\ \/ UNCHANGED <<owned, deployed, topo>>
     \/ Cleanup("none", seen.refs) /\ UNCHANGED topo
     \/ UseTopology /\ Cleanup("none", seen.refs) /\ DeactivateTopology("none")
  /\ Die

HandleCleanup ==
  /\ Dispatch("Cleanup")
  /\ \E f \in Pick({"chaosDeleteError", "undeployError", "deactivateError",
                    "staleTopology", "resultsError", "crash"}), p \in Pick(PatchFaults) :
       /\ Spend(f, p)
       /\ \/ f = "crash" /\ p = "none" /\ TearDownInterrupted /\ UNCHANGED results
          \/ f = "resultsError" /\ TornDown(f) /\ FailExperiment(p, seen) /\ UNCHANGED results
          \/ f \notin {"crash", "resultsError"} /\ TornDown(f) /\ RepetitionDone(p)
  /\ UNCHANGED <<log, lastId>>

-----------------------------------------------------------------------------
(* The world around the controller.                                         *)

(* The watch brings the next version of the object to the cache.            *)
Deliver ==
  /\ watch # <<>>
  /\ seen' = Head(watch)
  /\ watch' = Tail(watch)
  /\ UNCHANGED <<status, due, cluster, records, lastId, budget>>

Older(v) == IF v.age = None THEN v ELSE [v EXCEPT !.age = @ + 1]

(* A second passes.  A reconcile that is due runs before the next second    *)
(* unless the queue is late.                                                *)
Tick ==
  /\ \/ due > 0 /\ due' = due - 1 /\ UNCHANGED budget
     \/ /\ due = 0
        /\ "lateRun" \in Faults
        /\ Spend("lateRun", "none")
        /\ UNCHANGED due
  /\ status' = Older(status)
  /\ seen' = Older(seen)
  /\ watch' = [i \in 1..Len(watch) |-> Older(watch[i])]
  /\ UNCHANGED <<cluster, records, lastId>>

(* The operator restarts between two reconciles and lists all objects.      *)
Restart ==
  /\ "restart" \in Faults
  /\ Spend("restart", "none")
  /\ Die
  /\ UNCHANGED <<cluster, records, lastId>>

(* An edit of the spec passes the generation predicate and queues the       *)
(* object at once.                                                          *)
SpecEdit ==
  /\ "specEdit" \in Faults
  /\ Spend("specEdit", "none")
  /\ due' = 0
  /\ UNCHANGED <<status, seen, watch, cluster, records, lastId>>

(* The topology controller brings status.phase in line with spec.active,    *)
(* at any time or never, or fails to.  Versions reach the cache in order:   *)
(* while it does not know of a change of spec.active, it knows of no phase  *)
(* that answers it.                                                         *)
TopologyController ==
  /\ UseTopology
  /\ \/ /\ topo.phase # (IF topo.cached THEN "Active" ELSE "Inactive")
        /\ topo' = [topo EXCEPT !.phase = IF topo.cached THEN "Active" ELSE "Inactive"]
        /\ UNCHANGED budget
     \/ /\ "topologyFailed" \in Faults
        /\ Spend("topologyFailed", "none")
        /\ topo' = [topo EXCEPT !.phase = "Failed"]
  /\ UNCHANGED <<status, seen, watch, due, live, owned, deployed, records, lastId>>

(* The change reaches the cache, at any time: nothing makes it arrive       *)
(* before the next reconcile of the experiment.                             *)
TopologyCached ==
  /\ topo.cached # topo.active
  /\ topo' = [topo EXCEPT !.cached = topo.active]
  /\ UNCHANGED <<status, seen, watch, due, live, owned, deployed, records, lastId, budget>>

Reconcile ==
  \/ ReconcileTerminal
  \/ Finalize
  \/ HandleIdle
  \/ HandleDeploying
  \/ HandleTopologyDelay
  \/ HandleWaitingForTopology
  \/ HandleTimedWait("LoadDelay", "PreChaosMeasurement", ChaosDelay)
  \/ HandleMeasurement("PreChaosMeasurement", "ApplyingChaos")
  \/ HandleApplyingChaos
  \/ HandleMeasurement("ChaosMeasurement", "Cleanup")
  \/ HandleCleanup
  \/ HandleTimedWait("Pause", "", 0)

(* An experiment that has ended and left the queue stays as it is.          *)
Done ==
  /\ due = NotQueued
  /\ watch = <<>>
  /\ UNCHANGED vars

Next ==
  \/ Reconcile
  \/ Deliver
  \/ Tick
  \/ Restart
  \/ SpecEdit
  \/ TopologyController
  \/ TopologyCached
  \/ Done

Spec == Init /\ [][Next]_vars

(* The work queue hands out what is due, the watch delivers, time passes.   *)
FairSpec == Spec /\ WF_vars(Reconcile) /\ WF_vars(Deliver) /\ WF_vars(Tick)

-----------------------------------------------------------------------------
(* Properties.                                                              *)

TypeOK ==
  /\ status \in Status
  /\ seen \in Status
  /\ watch \in Seq(Status)
  /\ due \in Nat \cup {NotQueued}
  /\ live \subseteq ChaosObjectRef
  /\ owned \subseteq ConfigMapRef
  /\ deployed \subseteq Roles
  /\ topo \in [active : BOOLEAN, cached : BOOLEAN, phase : TopologyPhases]
  /\ results \in Seq(RepetitionResult)
  /\ log \in Seq(LogEntry)
  /\ lastId \in Nat
  /\ budget \in Nat

(* A repetition the status counts as completed is in the results ConfigMap, *)
(* whatever failed, was retried or was read stale on the way.               *)
ResultsRecorded ==
  \A r \in 1..status.reps : \E i \in 1..Len(results) : results[i].rep = r

(* The score in the status is that of a recorded run of the repetition the  *)
(* status last counted.                                                     *)
ScoreRecorded ==
  status.reps > 0 =>
    \E i \in 1..Len(results) :
      results[i].rep = status.reps /\ results[i].samples = status.slo

(* What a repetition is scored on was measured in that repetition's own     *)
(* chaos window: no value of the baseline or of another repetition.         *)
ResultsFromOwnWindow ==
  \A i \in 1..Len(results) : \A j \in 1..Len(results[i].samples) :
    LET s == results[i].samples[j] IN
    s.rep = results[i].rep /\ s.window = "ChaosMeasurement"

(* Every scored window is in the measurements ConfigMap with the very       *)
(* values it was scored on, next to a baseline window of its repetition.    *)
ResultsLogged ==
  \A i \in 1..Len(results) :
    /\ \E k \in 1..Len(log) : log[k].rep = results[i].rep
                              /\ log[k].window = "PreChaosMeasurement"
    /\ \E k \in 1..Len(log) : log[k].rep = results[i].rep
                              /\ log[k].window = "ChaosMeasurement"
                              /\ log[k].samples = results[i].samples

(* A baseline value was measured with no chaos object of the experiment in  *)
(* the cluster, a value of the chaos window with all of them.               *)
MeasuredUnderChaos ==
  \A k \in 1..Len(log) : \A j \in 1..Len(log[k].samples) :
    log[k].samples[j].faults =
      IF UseChaos /\ log[k].window = "ChaosMeasurement" THEN ChaosNames ELSE {}

(* A chaos object is named in the status, also when the experiment has      *)
(* failed, so that somebody can remove it.  While chaos is being applied,   *)
(* and when that has failed or was broken off, the status names it only by  *)
(* the identifier of the repetition: it is one of those that the ChaosPhase *)
(* and this identifier tell, and no cleanup of the code will find it.       *)
ChaosTracked ==
  live \subseteq IF status.subPhase = "ApplyingChaos"
                THEN status.refs \cup ChaosRefs(status.id, Len(ChaosObjects)) ELSE status.refs

(* A successful experiment leaves nothing behind: no chaos, no ConfigMap,   *)
(* no object of a manifest, and its topology is switched off.  It does as   *)
(* long as the topology cache follows and no call of a cleanup fails.       *)
SucceededClean ==
  status.phase = "Succeeded" =>
    live = {} /\ owned = {} /\ deployed = {} /\ ~topo.active

(* While an experiment runs and measures, its system is deployed and its    *)
(* topology is switched on.                                                 *)
MeasuredSystemPresent ==
  status.phase = "Running" /\ status.subPhase \in Measuring =>
    deployed = Roles /\ (UseTopology => topo.active)

(* Completed repetitions are counted one by one and never uncounted, and a  *)
(* terminal phase is final.                                                 *)
Progress ==
  [][/\ status'.reps \in {status.reps, status.reps + 1}
     /\ status.phase \in Terminal => status'.phase = status.phase]_vars

(* A window ends at the first sample boundary after its duration; a late    *)
(* run of the queue costs at most one more sample interval.                 *)
WindowBounded ==
  status.subPhase \in Measuring /\ status.phase = "Running" =>
    status.age <= status.duration + SampleInterval * (1 + FaultBudget - budget) - 1

(* Within a window, being measured or written, no second is sampled twice   *)
(* and the samples are in order, the patch of a sample failing or not.      *)
SamplesOrdered ==
  \A w \in {status.meas} \cup {log[k].samples : k \in 1..Len(log)} :
    \A i, j \in 1..Len(w) : i < j => w[i].at < w[j].at

(* How far the repetition is as seen from the topology.                     *)
UseStage ==
  CASE status.phase = "Succeeded" -> "succeeded"
    [] status.phase = "Failed" -> "failed"
    [] status.phase \notin Terminal /\ status.subPhase = "WaitingForTopology" -> "waiting"
    [] status.phase \notin Terminal /\ status.subPhase \in {"", "Deploying", "TopologyDelay", "Pause"}
         -> "preparing"
    [] OTHER -> "using"

TopologySide == INSTANCE TopologyUse
  WITH stage <- UseStage, active <- topo.active, known <- topo.cached, phase <- topo.phase

(* The experiment uses its topology as TopologyUse has it, and as the       *)
(* composition with the topology controller relies on: it is switched only  *)
(* in the cleanup, when it is activated and when it is given up, and        *)
(* measuring starts only after a phase Active was read.                     *)
TopologyUsed == TopologySide!Spec

(* Every experiment comes to an end.                                        *)
Termination == <>(status.phase \in Terminal)

=============================================================================
