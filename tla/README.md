# Ecoscape: a TLA+ model of the operator

Ecoscape is a Kubernetes operator that runs resilience experiments: it deploys a
system under test into a simulated edge topology, measures service level indicators
before and under injected chaos, scores the difference and repeats. This directory
holds TLA+ specifications of its controllers, of the kubectl plugin and of the two
systems under test that come with it, the TLC configurations that check them on small
instances, and TLAPS proofs of what holds for every instance. Paths below
are relative to the root of the repository.

## 1. Inventory

| Component | Source | State it keeps | Operations | Module |
|---|---|---|---|---|
| Experiment controller | `internal/controller/experiment_controller.go` | none in memory; `Experiment.status` (phase, subPhase, start time, measurement state, repetition count, references), the results and measurements ConfigMaps | `Reconcile` dispatching to one handler per sub-phase: Idle, Deploying, TopologyDelay, WaitingForTopology, LoadDelay, PreChaosMeasurement, ApplyingChaos, ChaosMeasurement, Cleanup, Pause; `failExperiment`, `setPhase`, `transitionTo` | `Experiment` |
| ChaosPhase application | `internal/controller/chaosphase.go` | Chaos Mesh objects | `applyChaosPhase`, `cleanupChaosPhase` | `ChaosPhase` (operators) |
| Manifest deployment | `internal/controller/manifest.go`, `applyManifestSet` | owned ConfigMaps, deployed objects | `deployManifests`, `undeployManifests` | `Manifests` (operators) |
| Topology controller | `internal/controller/topology_controller.go` | `Topology.status`, namespaces, quotas, NetworkChaos objects, a finalizer | `reconcileApply`, `reconcileDeactivate`, `reconcileDelete`, `setPhase` | `Topology`, `TopologyContract` |
| SLO scoring | `recordMeasurement`, `recordMeasurementAggregate`, `buildRepetitionResult` in `experiment_controller.go` | `status.measurementState` | one query per SLO and round; scores of a window | `Slo` |
| Prometheus client | `queryPrometheus` in `experiment_controller.go` | none | a query: a value, NaN, nothing, an error | environment of `Experiment` and `Slo` |
| API types | `api/v1alpha1` | - | fields, defaults, documented meaning | types and assumptions of the modules |
| Manager | `cmd/main.go` | work queue, informer cache, watch (controller-runtime) | starts, restarts | environment of `Experiment` and `Topology` |
| kubectl plugin | `cmd/kubectl-ecoscape` | none between invocations; it creates ConfigMaps and Experiments | `init`, `bundle`, `run [--wait]`, `list`, `results` | `Kubectl` |
| Edge sensor pipeline | `sut/edge-sensor-pipeline` | a Redis stream and a consumer group; the worker's batch | produce, read, count, acknowledge, reconnect | `SensorPipeline` |
| Outlier detection | `sut/outlier-detection` | a count window, models by version, waiting and scored events of each case, the latest scores | number, split, mine, broadcast, score, collect | `OutlierDetection` |
| Python runner | `ecoscape-python/experiment_runner` | in memory | the predecessor of the operator | not modelled |
| Analysis, charts, generated code | `analysis`, `charts`, `config`, `zz_generated*` | none | - | not modelled |

**How they interact.** Everything goes through the API server. A reconcile reads an
object from the informer cache, calls the API server for the objects it creates or
deletes, and ends with one write of its own object. The experiment controller ends
in a *merge patch* against the copy it read (no conflict detection: fields that
differ are overwritten, the others are left alone). The topology controller ends in
an *Update* with the version it read (refused when the stored object moved on). The
experiment controller switches `Topology.spec.active` and polls `Topology.status.phase`;
that is the only coupling between the two controllers, and the only one between two
experiments that name the same Topology. The plugin talks to the API server like any
user. The systems under test know nothing of the operator; it deploys them, disturbs
their network and queries what they export.

**What is hard.** A failed write makes a handler run again on what it already did; a
crash between two calls leaves objects no status names; a cache that is behind makes a
whole handler run again from an old sub-phase; the two controllers interleave at every
write; the end of a measuring window depends on the second in which the queue gets to
it; errors of single deletes are logged and forgotten; two experiments switch one
topology; invocations of the plugin meet each other and what an earlier one left; Redis
carries out a call whose answer is lost; models and the events they are for come by
different streams. `PROJECT.json` lists these
hazards one by one, at the line where they bite.

**What makes each component correct.**

* Experiment: every counted repetition is recorded, scored on its own chaos window and
  logged with the very values it was scored on; the baseline is measured without chaos
  and the chaos window under all of it; the measured system is there; windows have
  their length; a successful experiment leaves the cluster as it found it; every
  experiment ends, and an ended one stays as it is.
* ChaosPhase, Manifests: what was created is named, so that somebody can remove it.
* Topology: a phase observed for the current generation is true; only deletion removes
  namespaces; a deleted Topology leaves nothing; after the last edit it converges.
* SLO scoring: aggregates agree with the values written, scores are normalised, no score
  without a violation.
* Shared topology: who has the topology to itself measures on a provisioned one and
  leaves it undone; every experiment ends, whatever others do to its topology.
* kubectl plugin: the ConfigMaps of an `init` that got to its Experiment are all there and
  all its own; what `run --wait` reports is true and stays so; a wait ends.
* Edge sensor pipeline: entries are counted in order and once, none goes missing without
  a trace, what is stranded by a fault is bounded, the worker gets to every entry; readings
  are stored once but for what faults cost.
* Outlier detection: a score is about the whole trace up to its event and comes from the
  model of the window before; no score is lost, no event waits for a model that is
  there; lossy counting keeps its error bounds.

## 2. The modules and the code

### `Experiment` (with `ChaosPhase` and `Manifests`)

One Experiment object and the cluster around it.

| Variable | Code |
|---|---|
| `status`, `seen`, `watch` | `experiment.Status` in the API server; in the informer cache; versions on their way to it |
| `due` | when the work queue hands the object out next (`Requeue`, `RequeueAfter`, errors) |
| `live`, `owned`, `deployed` | Chaos Mesh objects, owned manifest ConfigMaps, roles whose objects exist |
| `topo` | `spec.active` of the Topology in the API server; `spec.active` and `status.phase` in the informer cache |
| `results`, `log` | the results and the measurements ConfigMap |
| `lastId` | identifiers drawn by `randomID` (draws are taken to differ) |
| `budget` | bounds the failures of the environment |

Each handler is one action: guard (`Dispatch`, elapsed time), its effect on the
cluster, and the final patch. `Patch` has four outcomes: it succeeds, fails, succeeds
with its answer lost, or reaches the cache late. `Merge` is the JSON merge patch,
field by field. A handler that makes several calls has an alternative for each place
where one of them can fail (`DeployFailed`, `ChaosFailed`, `TopologyAbandoned`, ...)
and one for the operator dying between calls (`DeployInterrupted`, `ChaosInterrupted`,
`TearDownInterrupted`). A start time is kept as its age in whole seconds; `Tick` lets
a second pass, and lets a due reconcile wait only if `lateRun` is among the failures.
An SLI value is abstracted to where and when it was queried and which chaos objects
existed then: that is what the properties tell apart. `activateTopology` and
`deactivateTopology` are `SetActive`: both look at the cached `spec.active`, patch the API
server if it is not as wanted, and with `staleTopology` the cache does not learn of it
until `TopologyCached`. `TopologyController` stands for the other controller and takes
the steps `TopologyContract` allows; versions reach the cache in order, so it answers in
`topo.phase` only a change of `spec.active` that the cache has.

Abstracted: contents of manifests and chaos objects (a role's objects appear and
disappear together), conditions and messages of the status, the elapsed-seconds field
(written and never read), events.

### `Topology` and `TopologyContract`

One Topology object: `stored`, `cached` and `watch` are its versions, `namespaces` and
`chaos` the cluster. `Conflict` is optimistic concurrency: a version that is not the
stored one is refused. The actions are the branches of `Reconcile` (`NotFound`,
`AddFinalizer`, `Skip`, `ReconcileApply`, `ReconcileDeactivate`, `ReconcileDelete`),
with every partial outcome of their loops, and the users' `SwitchActive`, `EditSpec` and
`DeleteTopology`. `TopologyContract` is what an experiment relies on: the phase becomes
Active only while `spec.active` is set and Inactive only while it is not. `Topology`
implements it with `active <- stored.active, phase <- stored.phase`.

### `TopologyUse` and `SharedTopology`

`TopologyUse` is an experiment as its topology sees it: it prepares, switches
`spec.active` on, waits, uses the topology and switches it off. `Smooth` has the steps in
which every call succeeds, `Rough` those in which one fails or the operator dies.
`Experiment` implements it (`TopologyUsed`), with `UseStage` for `stage`.

`SharedTopology` extends `Topology` with several experiments of this kind. Both
controllers run in one manager, so experiments read the Topology from the same cache
(`cached`) and write it with a merge patch (`Patched`), which unlike the controller's
Update is never refused. To switch on takes a Topology that the cache shows as active, in
which case nothing is written, or one that is there to be patched (`Reachable`). `Advance`, `Refused` and `Stumble` are the experiments' steps;
`left` counts repetitions. `sole` and `freed` are history: an experiment is in `sole` if
it switched the topology on when it was settled and nobody else was engaged, and nobody
has touched it since; `freed` says that such an experiment was the last to touch it.

### `Kubectl`

Invocations of the plugin (`Clients`), each at the call it makes next (`at`), with its
command line and what it found on disk (`job`), the roles still to be bundled (`todo`)
and its exit. `experiments` and `configMaps` are the cluster, with the invocation that
created each object, so that the properties can tell whose it is, and for an Experiment
whether it was created with its spec: that of `run` is, that of `init` is not
(`ExperimentAdded`). A call works, fails,
or takes effect without an answer. `Operate` is the operator, which takes an Experiment
through its phases at any speed or not at all; `DeleteExperiment` is a user. Left out:
formatting, completion, flags that only change what is printed.

### `SensorPipeline`

One zone: the producer's loop, the Redis stream and its consumer group, and the worker
thread of the aggregator. Redis and its client library are external and modelled from
how they are used: `CutOff` is a connection that breaks before or after the call was
carried out, after which the library sends the call again or the caller gets a
ConnectionError. `entries`, `counted` and `dropped` are history. Redis may be restarted
(it keeps nothing on disk), and so may the aggregator. Left out: the values, their
average, the gauges and their times.

### `OutlierDetection`

The Flink job: `Read` (`ParseKafkaEvent` and the split), `Mine` (a full count window,
lossy counting of its activities, discovery of a model), `Learn(s)` (a shard receives a
model), `Conform(c, e)` (a shard receives an event and goes through all its cases) and
`Collect`. Streams keep their order and have none among each other. A model is its
version and the window it was mined from, a score its event, that window and the set of
events it is about. Left out: the miner and the alignment (pm4py), checkpoints of Flink,
messages that are not well formed, and `on_timer`, which never runs because no timer is
registered anywhere.

### `Slo`

The aggregates of a measuring window and the scores made from them: `state` is
`status.measurementState`, `elapsed` the second in which the next reconcile of the window
runs, `over` the end of the window. `Skip` is a reconcile between two sample boundaries,
`Evaluate` one on a boundary, `NextWindow` clears the state. Values are integers and scores
exact fractions, so nothing depends on rounding; float overflow is out of scope. A NaN
cannot be marshalled to JSON, so the patch of that round fails, the round is lost and the
handler is retried (`NotANumber`).

## 3. Runs

| Run | What is checked | What it shows |
|---|---|---|
| `experiment_records` | `TypeOK`, `ResultsRecorded`, `ScoreRecorded`, `ResultsFromOwnWindow`, `ResultsLogged`, `Progress` | the records stay consistent when reconciles start from a status up to three versions old, patches fail or are unanswered, calls fail, the operator crashes or restarts, the spec is edited |
| `experiment_clean` | `MeasuredUnderChaos`, `ChaosTracked`, `SucceededClean` | two faults with three chaos objects, created half-way, retried, conflicting with themselves: measured under all or none, always named by the status or by the identifier in it, gone after a success |
| `experiment_present` | `MeasuredSystemPresent`, `Termination` | the measured system is deployed and its topology on; every experiment ends, also if the topology never becomes Active |
| `experiment_timing` | `WindowBounded`, `SamplesOrdered`, `TopologyUsed` | windows end at the first sample boundary after their duration, a late queue costs one sample interval each; no second is sampled twice; the experiment implements `TopologyUse`, with a topology cache that may be late |
| `topology_settled` | `ProvisionedWhenSettled`, `NamespacesKept`, `PhaseContract` | with edits that add and remove zones, quotas and links, one of them unprovisionable |
| `topology_clean` | `TrackedWhenActive`, `DeletedClean`, `Convergence` | with edits that take nothing away and deletes that succeed |
| `slo_scoring` | `AggregatesMatchValues`, `ScoreNormalised`, `NoScoreWithoutViolation` | all windows of up to five seconds with a sample every second one, for an SLO of either direction |
| `shared_topology` | `SoleUseProvisioned`, `SoleUseUndone`, `EveryExperimentEnds` | two experiments, one with two repetitions, and the topology controller, with late caches, failing calls, crashes, an edit and the deletion of the Topology |
| `kubectl` | `InitBundles`, `ReportTrue`, `WaitEnds` | two invocations at a time on two names, calls that fail before or after they took effect, Experiments that are deleted |
| `sensor_pipeline` | `CountedInOrder`, `EveryEntryAccounted`, `StrandedBounded`, `EntriesReached`, `ReadingsOffByFaults` | lost replies, calls sent again, reconnects, restarts on every side, trimming, an entry that does not parse |
| `outlier_detection` | `ScoredInTurn`, `ScoredByWindowBefore`, `LatestShown`, `NoNeedlessWait`, `LossyCounting`, `EventsScored` | all sequences of five events of three cases in two shards, with every interleaving of the tasks, windows with and without a model |
| `doc_init` | `InitComplete` (violated) | the Experiment that `init` creates has no spec and refers to none of the ConfigMaps created for it |

Type invariants that are proved for every instance (`Topology`, `Kubectl`,
`SensorPipeline`, `OutlierDetection`) are not checked by a run as well.

**Conditions under which the passing properties hold, and why they are stated.** Each
cfg names the failures it admits. Where one is missing the property fails under it, and
this is how the code behaves:

* `SucceededClean`, `ChaosTracked`: no failing delete, because errors of deletes are
  logged and their references dropped. `SucceededClean` needs a topology cache that
  follows, too: one that lags through a whole use still shows the topology off when the
  cleanup looks, which then leaves it on. Nor does a successful experiment remove objects
  whose manifest has no `metadata.namespace`: `applyManifests` fills it in,
  `deleteManifests` does not (`Namespaced` is all roles in this run and empty in
  `experiment_records`).
* `ChaosTracked` says of chaos that is being applied, or whose application failed, only
  that the identifier in the status tells which objects it may have left; the code
  never looks for these, and they stay after a Failed experiment.
* `MeasuredSystemPresent`: no late topology cache, with which an activation may do nothing
  (`experiment_controller.go:883`), and no failing status patch. A failure path undeploys first and
  records Failed second; if recording fails, the retry measures a system that is gone.
* `ResultsFromOwnWindow`, `ResultsLogged`: late caches and failing queries each, not
  both: with both, the same window can be ended twice, logged empty and scored on the
  values of the other end, or on those of the baseline.
* `Progress` with late caches: no failing write of the results. A cleanup repeated from
  a stale status can store Failed, and the finalisation that follows from the older
  version in the cache stores Succeeded over it.
* `SamplesOrdered`: no restart, lost answer or edit, each of which queues the object
  again in a second that was sampled already.
* `TrackedWhenActive`, `DeletedClean`: no edit that removes a link or zone and no
  failing delete; links, quotas and zones removed by an edit are forgotten, not removed.
* `TopologyUsed`: reconciles start from the current status. A handler that runs again
  from an older one may switch the topology in a stage of its own.
* `SoleUseProvisioned`, `SoleUseUndone`: about experiments that had the topology to
  themselves. With two of them the first to finish a repetition switches it off, and
  nothing reserves a topology. An experiment that used it
  alone but fails leaves it on; that is a step of `Rough`, and then `freed` is not set.
  A cache that lags through a whole use can make the switching off a no-op as well.
* `InitBundles`: about the ConfigMaps alone. `init` prints an Experiment with a reference to
  each of them but creates one without a spec (`doc_init`): `yaml.Unmarshal` gets the map
  of the object by value (`init.go:177`) and fills a map of its own. The CRD does not
  require a spec, and the operator runs one repetition of nothing.
* `AggregatesMatchValues`: one value at most for each sample boundary. Three places say
  that aggregates are computed from every measurement whatever the sample interval:
  `experiment_types.go:59-62` and the CRD generated from it,
  `experiment_controller.go:568-570` and `593-595`. But between two boundaries
  `handleMeasurement` returns before it queries anything, and `recordMeasurement`
  aggregates what it also writes.
* `ReadingsOffByFaults`: a connection that breaks at an `XADD` costs one reading at most,
  missing or stored twice.
* `ReportTrue`: about Experiments that nobody deleted; the wait polls by name and would
  follow a new Experiment of that name. ConfigMaps are not deleted in the model.
* `EntriesReached`: unless the thread died (a connection that breaks in `_ensure_group`
  is caught by nobody) or it polls a group that Redis lost in a restart (the NOGROUP
  error is logged, and the group is created only after a reconnect). Reached is
  delivered: entries whose reply was lost stay pending for ever, which is what
  `StrandedBounded` bounds.
* `EventsScored`: unless the window before that of the event, or of an earlier event of
  its case, yielded no model, which blocks the case for good; or every model is there
  and no further event comes to the shard: models are stored without looking at what
  waits, and there is no timer.
* `ScoreNormalised`: values and thresholds are not negative; the score of a negative
  mean is not clamped and exceeds 1. A negative maximum is reported as 0.

Other disagreements with comments or documents met on the way, not kept as runs:

* Experiment: the system is deployed before its topology is activated
  (`experiment_types.go:136` says after); the completion time is set before the base copy
  of the patch is taken and never stored; a repetition is appended to the results twice
  when the patch that counts it fails (`requirements.md:274` asks for re-entrant phases);
  failure paths after the activation leave the topology active (`topology_types.go:95-98`
  says that the controller sets it back to false once the experiment completes); a role that fails
  half-way is not cleaned up; a stress fault that fails at its second zone leaves the
  object of the first; a stale read after the terminal phase creates objects again; a
  late topology cache makes an activation a no-op, and the old phase Active is believed,
  or makes a deactivation one, and the topology stays on;
  negative repetitions succeed at once; a custom fault of another version than v1alpha1
  gets a reference that does not find it again.
* Topology: an inactive topology has namespaces and quotas (`topology_types.go:108` says
  none), and chaos objects too if it was switched off before its activation was
  recorded; the phase says Active for a moment with no chaos objects behind it when
  `spec.active` goes off and on.
* Scoring: a window with violations scores 0 when its mean is within the threshold.
* Plugin: `results` always fails, because the scheme of the client has no ConfigMap
  (`client.go:21`, `results.go:74`); its help shows `--csv` and `--json`, which do not
  exist; `list --all-namespaces` lists one namespace; the help of `init` names a
  directory `chaos/` that is not looked at; `init` cannot be repeated after it failed
  half-way, since the ConfigMaps it created are in the way.
* Edge sensor pipeline: entries that are stranded do not show in the lag that the
  example's SLO uses; seconds spent reconnecting are not counted as offline.
* Outlier detection, against its README: the windows are of 200 events and not 30, there
  are no conformance windows, the default error is 0.01 and not 0.05, the Kafka source is
  always used, and each event uses the model of its own version.

### Bounds

| Bound | Value | Why it is enough |
|---|---|---|
| repetitions | 2 | leftovers of one repetition meet the next one, which is the last |
| `FaultBudget` | 2 or 3 | a failure, the failure of the handling of it, and one more |
| `MaxLag` | 1 to 3 | three versions: a handler, its repetition and the one after start from the same status |
| durations | 0 to 4 seconds | zero, one sample, several samples, a duration no multiple of the interval |
| chaos objects | 1 or 3 | a custom fault (fixed name), a stress fault over two zones |
| roles | 1 or 2 | a role before the one that fails |
| zones, links | 2, 2 | one removed, one kept |
| `MaxGeneration` | 4 | off, on and off again, or an edit in between |
| `SampleInterval`, `Duration`, `MaxSeconds`; values | 2, 3, 4; 0..4 | boundaries and seconds between them, a duration no multiple of the interval, up to three rounds; below, at and above both thresholds |
| shared topology | 2 experiments, 2 and 1 repetitions, 1 zone, 1 link, `MaxGeneration` 20 | one uses the topology before, during and after the other; generations do not run out |
| invocations, names, roles | 2, 2, 2, budget 2 | a race on one name, another name as a control, a failure between two ConfigMaps |
| `ReadCount`, `MaxLen`, entries | 2, 3, 5, budget 2 | batches of one and two, trimming with entries pending, a fault during the recovery from another |
| window, width, events | 2, 2, 5 | two complete windows and a third begun; windows that yield a model and others that do not; buckets before and after a boundary |
| cases, shards | 3, 2 | two cases that share a shard and one that does not |

No symmetry is used: the roles are ordered, and zones have different specs.
Deadlock is checked in every run; `Done`, `Idle`, `Rest`, `Over`, `Dead` and `Quiet` are
the states in which a system may rest.

### Fairness

`FairSpec` of `Experiment` has weak fairness of `Reconcile` (the work queue hands out
what it holds), `Deliver` (the watch delivers) and `Tick` (time passes). Nothing is
assumed of the topology controller: the timeout of WaitingForTopology is what ends the
wait. `FairSpec` of `Topology` has the first two. Failures are bounded by the budget, so
they stop eventually; users need not act.

`SharedFairSpec` has weak fairness of each experiment's steps (`Advance`, `Refused`: the
work queue, and the timeout of the wait), of `Reconcile` and of `Deliver`. `FairSpec` of
`Kubectl` carries on a command that was started and lets the deadline of its context
pass; nothing is assumed of the operator. That of `SensorPipeline` has weak fairness of
the worker's thread, nothing of the producer. That of `OutlierDetection` has it for the
tasks that mine, learn and score (Flink schedules them), nothing of the topic.

## 4. Proofs

`ExperimentProofs` proves `TypeCorrect`, `Spec => []TypeOK`, by one lemma per handler:
the status keeps its type through `Patch`, since a merge of three statuses is a status
(`MergeType`), and the sets of cluster objects through the operators of `ChaosPhase` and
`Manifests`.

`ExperimentResultsProofs` proves `RepetitionsAreRecorded`, `Spec => []ResultsRecorded`:
no repetition is counted that is missing from the results ConfigMap. `ResultsRecorded`
speaks of the stored status alone and is not inductive: a reconcile starts from the
cached version, which the merge may write into the stored one. The inductive invariant
`CountedVersions` says the same of the stored version, the cached one and every version
in the watch; it is preserved since a patch either leaves the count alone, and the merge
then takes that of a version covered already, or counts a repetition the same step
appended (`PatchCounted`), and since results are only ever appended.

Both hold for every number of repetitions, all durations, every ChaosPhase, any set and
number of failures and any lag of the cache. They rest on `ExperimentAssumption`,
`ChaosObjectsAssumption` and `RolesAssumption`: constants have their types, the sample
interval is positive. The other theorems about `Experiment` rest on these too, and each
names in a hypothesis on `Faults` the failures under which the property fails; every
failure that is not named is admitted, in any number. Most assume `NoStaleReads`, that no
reconcile starts from a status older than the stored one. Then `Fresh` is invariant (the
cache has the stored status), the merge patch writes what the handler computed or
nothing (`MergeFresh`), and each handler is one of a few moves of the run (`RunStep`,
shown by one lemma per handler from `RunDeploying` to `RunCleanup`). What is proved of
moves needs no look at the handlers again.

| Theorem | Property | Hypothesis | Inductive invariant |
|---|---|---|---|
| `ScoresFromOwnWindow`, `ScoresAreLogged`, `ScoresAreRecorded` | `ResultsFromOwnWindow`, `ResultsLogged`, `ScoreRecorded` | `NoStaleReads` | `RecordsInv`: what the status holds on the way to the result (`WindowState`: no values before a window, those of this window in it, the baseline logged after it, these very values logged by the cleanup) |
| `ProgressMade` | `Progress` | `NoStaleReads` | `Fresh`: each move counts at most one repetition, and none starts from an ended status |
| `SamplesAreOrdered` | `SamplesOrdered` | `Promptly`: nothing but its schedule queues the object | `OrderInv`: every value was taken before the next one is due (`SampleTimes`) |
| `WindowsAreBounded` | `WindowBounded` | `NoStaleReads` | `WindowInv`: the age at which the object is due next is at most a multiple of the interval that covers the duration, plus one interval for each failure so far |
| `BaselineApartFromChaos`, `ChaosIsTracked` | `MeasuredUnderChaos`, `ChaosTracked` | `NoStrayChaos`: no stale read, no failing delete of a chaos object | `ChaosInv`: which objects exist in which sub-phase, those of this repetition's identifier and no others; and `ChaosTracked` itself, for what is there when an experiment fails is all there will be (`TrackedAlive`, `TrackedOver`) |
| `SuccessIsClean` | `SucceededClean` | `NothingForgotten`: `NoStrayChaos`, no other failing call of a cleanup, no late topology cache, every manifest names its namespace | `TidyInv` and `RepetitionsOver`: each deployed role is backed by an owned ConfigMap the status names, an idle experiment owns nothing, and the last repetition is followed by an idle sub-phase |
| `MeasuredSystemIsPresent` | `MeasuredSystemPresent` | `FailuresRecorded`: status patches succeed, caches follow | `PresentInv`: deployed from the end of Deploying, the topology on from WaitingForTopology |
| `TopologyUseImplemented` | `TopologyUsed` | `NoStaleReads`, the experiment has a topology | `RepetitionsOver`; every step is a step of `TopologyUse` or leaves its variables alone |

The theorems down to `WindowsAreBounded` are in `ExperimentResultsProofs`, the others in
`ExperimentClusterProofs`, which adds to the moves what each does to the cluster
(`ClusterStep`).

How far the hypotheses are needed was asked of TLC. A late topology cache alone
violates `SucceededClean` and `MeasuredSystemPresent`. With stale reads it finds
`SucceededClean` and `TopologyUsed` violated by them alone, `ResultsFromOwnWindow`,
`ResultsLogged` and `MeasuredUnderChaos` together with a failed query (the patch that
opens the chaos window agrees with its old copy on an empty measurement state, and so
leaves the values of the baseline in place), `Progress` together with a failing write of
the results (Failed is overwritten by Succeeded). For `ScoreRecorded`, `ChaosTracked`,
`WindowBounded` and `MeasuredSystemPresent` it finds no such run: there `NoStaleReads` is
what this proof needs, since it reasons about the stored status alone.
`experiment_records` and `experiment_present` check the first and the last of them with
stale reads. The other hypotheses are the conditions of section 3.

`TopologyProofs` proves first four theorems about the topology controller, for every set of
zones, links and specs, any number of edits and failures and any lag of the cache, from
`TopologyAssumption` (constants have their types, users write specs of the declared
form): `TopologyTypeCorrect`; `SettledIsProvisioned`, `Spec => []ProvisionedWhenSettled`;
`NamespacesAreKept`, the action property `NamespacesKept`; and `PhaseContractKept`, that
the controller implements `TopologyContract`. `ProvisionedWhenSettled` is not inductive:
a reconcile that starts from an old version could undo what a newer spec asks for. The
inductive invariant `IInv` adds `Versions`: once the watch is empty the cache has the
stored version (`Sync`), and every version a reconcile may start from is `Behind` the
stored one, which says that an equal generation means an equal spec and that nothing
newer than it has been observed. So once a generation has been observed no reconcile can
start from an older one, and those that start from the same generation redo what is
there (`Careful`). `StepSound` shows, one lemma per action, that each step preserves the
invariant, is a step of the contract or none, and keeps the namespaces; the four
theorems follow from it.

Two more are about what the controller forgets. `ActiveIsTracked` (`TrackedWhenActive`)
assumes `LinksAreKept`, that edits add and drop no link; its invariant `LinksInv` says
that only links of the spec have chaos objects and that an Active status names them all.
`DeletionIsClean` (`DeletedClean`) assumes `ZonesAreKept` and that no single delete fails;
`EndInv` says that chaos objects live in namespaces of the spec, that nothing is there
before the finalizer is and that no version a reconcile may still start from would
provision a Topology that is gone.

`SoleUseIsProvisioned` (`SoleUseProvisioned`) and `SoleUseIsUndone` (`SoleUseUndone`) are
about `SharedTopology`, for every number of experiments. `SharedInvariant` shows that the
steps of experiments and users, whose merge patches are never refused, preserve `IInv`
as well; `ControllerStep` says what a reconcile does to the versions of the Topology
(`Still`, `Relisted`, `Revised`). `SoleInv` holds of an experiment on its own: the
Topology is active, and a version that says Active is the last one (`ActiveIsLast`), so
that an experiment which reads Active reads the stored object. `FreedInv` holds after it
has switched the topology off: versions still active have been observed, so nothing is
provisioned from them, and the status names what remains. The second theorem assumes
`LinksAreKept` and that no delete of a chaos object fails.

`SloProofs` is about every list of SLOs, every sample interval and windows of any length.
`OnePerInterval` says that a window has at most one round for each boundary it has passed
(`RoundAtIntervals`: a round moves the window on by at least one interval, since two
boundaries are that far apart, `BeforeBoundary`). The invariant `WindowAggregated` says of each SLO that the aggregates are those of its values
(`Aggregated`) and that the sum is on the right side of the threshold as long as no value
violated it. `RunningAggregatesAreExact` (`AggregatesMatchValues`) has no hypothesis.
`NoViolationNoScore` (`NoScoreWithoutViolation`) assumes `DistinctNames`
(`experiment_types.go:99`): of two SLOs with one name the last one's threshold judges
both. `ScoresAreNormalised` (`ScoreNormalised`) assumes also that values and thresholds
are not negative and that the weights sum to at most one (`experiment_types.go:119`); its
core is `PlusInPercent`, that adding a score weighted with w percent to a total of at most
W percent gives at most W + w percent.

`KubectlProofs` proves `TypeCorrect`, `InitConfigMapsAreOwn` (`InitBundles`) and
`ReportsAreTrue` (`ReportTrue`) for any number of invocations, names and roles. Neither
is inductive. `InitBundles` speaks of Experiments that exist; the invariant adds
`InitUnderWay`, that an invocation of `init` has created the ConfigMap of every role no
longer in `todo`, `Creators` (who created an Experiment is at or after its wait)
and `Stages` (which commands may be at which call). `ReportTrue` needs `WaitsForOwn`:
who waits, waits for an Experiment it created, or for a name that has been deleted.

`SensorPipelineProofs` proves `TypeCorrect`, `CountingInOrder` (`CountedInOrder`) and
`NothingMissing` (`EveryEntryAccounted`), for every batch size, stream length and number
of faults. The invariant adds what the order rests on: readings are stored in the order
in which they were made (`ReadingsOrdered`), what is in hand is a run of entries whose
first, at an acknowledgement, is the one just counted (`BatchInOrder`), the group is past
all that was counted or is in hand, or Redis has dropped it (`Passed`), and what was
counted parses (`ReadableCounted`).

`OutlierProofs` proves `TypeCorrect`, `ScoringInTurn`, `ScoringByWindowBefore`,
`LatestIsShown` and `NobodyWaitsNeedlessly`, for every size of window, any number of
events and every spread of cases over shards. The invariant adds `Traces` (the events of
a case are on their way, waiting or scored, each in one of the places, and in that
order), `ModelsNumbered` (the version of a model is that of the window after its own) and
`Shows` (what was scored is known as processed). From `Traces` follows that what one
event sets free in a case is the first part of what waits there, so that it continues
what was scored before; this is the whole argument for `ScoredInTurn`.

`StrandingIsBounded` (`StrandedBounded`, in `SensorPipelineProofs`) bounds a cardinality:
`StrandInv` says that a batch lies in a stretch of `ReadCount` entries, and every fault
adds at most one such stretch to what is stranded. `ReadingsAreStoredOnce`
(`ReadingsOffByFaults`) counts as well. The reading in hand may be stored already, if the
answer was lost, and will then be stored again or given up; so the invariant `OffInv`
bounds `Owed`, which is the repeats and the missing readings plus a `Credit` of one for a
reading in hand that is stored.

`CountingIsLossy` (`LossyCounting`, in `OutlierProofs`) is about what a recursion over a
window computes, and the totals and scores of `SloProofs` about folds. The induction
theorems of the library take the predicate as an operator, so these proofs use
`SetInduction` instead, where the predicate is a set of numbers; it is proved from the
cardinality theorems (a counterexample n would make a finite set of numbers map
injectively into itself without n). For lossy counting the induction is over
the prefix of the window (`Right`): a count and its error bracket what was seen, and an
error is at most the number of complete buckets. For folds it first shows that the recursion
has a solution (`SumStepExists`, `ScoreStepExists`), then follows its partial results.

Every invariant, action property and refinement that a passing run checks is thus proved for all
values of the constants, under the hypotheses given above. Only model-checked: what holds
of stale reads beyond `TypeOK` and `ResultsRecorded` (`experiment_records` checks it for
the failures it admits), and liveness (`Termination`, `Convergence`, `EveryExperimentEnds`,
`WaitEnds`, `EntriesReached`, `EventsScored`), which is out of the prover's reach. The
composition is proved in two halves: `TopologyUseImplemented` shows what an experiment does
to a topology, and the theorems about `SharedTopology` what follows when several do that.
That the experiments of `SharedTopology` are those of `TopologyUse` holds by definition for
their steps, not by a theorem for whole `Experiment`s side by side.

## 5. What is not modelled, and why

* Deletion of an Experiment in mid-run inside `Experiment` (it has no finalizer, and
  everything deployed stays; `Kubectl` deletes Experiments, without what they deployed)
  and a change of the SLO list during a window.
* The Python runner: one thread that sleeps, calls helm and queries in sequence. (It repeats
  the pause between repetitions and not the scenario, `ecoscape_core.py:46`.)
* The miner and the alignment search of the outlier detection, which are a library's,
  and the checkpoints of Flink, which the code only switches on.
* Gauges, averages and their times in the edge sensor pipeline.
* The manager beyond its work queue, cache and watch; HTTP, JSON, YAML, Helm, plotting
  and generated code: no state of their own.

## 6. Plan

Done: the controllers, scoring, the composition of experiments with the topology
controller, the plugin and the two systems under test, and proofs of all their safety
properties.

1. Deletion of an Experiment; edits of repetitions and of the SLO list during a run.
2. Proofs under stale reads of `MeasuredSystemPresent`, `ScoreRecorded`, `ChaosTracked` and
   `WindowBounded`. The way to them is an invariant about the versions a reconcile may
   start from: all are in one sub-phase or the one after it, in this order, because a
   handler that runs again writes the same successor and the cache never goes back.
