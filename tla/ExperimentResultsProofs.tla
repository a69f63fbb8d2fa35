----------------------- MODULE ExperimentResultsProofs -----------------------
(* What a repetition records: nothing is missing from the results, they are *)
(* those of its own window and logged, the samples are in order and windows *)
(* have their length.                                                       *)
EXTENDS ExperimentProofs

-----------------------------------------------------------------------------
(* ResultsRecorded, whatever fails and however stale the cache is.  It has  *)
(* to hold of every version of the status a reconcile may still start from: *)
(* the stored one, the cached one and those on their way to the cache.      *)

Has(r) == \E i \in 1..Len(results) : results[i].rep = r

Counted(v) == \A r \in 1..v.reps : Has(r)

CountedVersions ==
  /\ Counted(status)
  /\ Counted(seen)
  /\ \A i \in 1..Len(watch) : Counted(watch[i])

(* A patch that counts no repetition, or one that is in the results now.    *)
LEMMA PatchCounted ==
  ASSUME TypeOK, CountedVersions, NEW p, NEW base, NEW mod,
         NEW wait, Patch(p, base, mod, wait),
         \A r : Has(r) => Has(r)',
         mod.reps # base.reps => \A r \in 1..mod.reps : Has(r)'
  PROVE  CountedVersions'
<1> DEFINE new == Merge(status, base, mod)
<1>1. status \in Status /\ seen \in Status /\ watch \in Seq(Status)
  BY DEF TypeOK
<1>2. new.reps = IF mod.reps = base.reps THEN status.reps ELSE mod.reps
  BY DEF Merge
<1> HIDE DEF new
<1>4. /\ \A r \in 1..new.reps : Has(r)'
      /\ \A r \in 1..status.reps : Has(r)'
      /\ \A r \in 1..seen.reps : Has(r)'
      /\ \A i \in 1..Len(watch) : \A r \in 1..watch[i].reps : Has(r)'
  BY <1>2 DEF CountedVersions, Counted
<1>5. CASE p = "patchError"
  BY <1>4, <1>5 DEF Patch, CountedVersions, Counted
<1>6. CASE p # "patchError"
  <2>1. status' = new
    BY <1>6 DEF Patch, new
  <2>2. CASE seen' = new /\ UNCHANGED watch
    BY <1>4, <2>1, <2>2 DEF CountedVersions, Counted
  <2>3. CASE watch' = Append(watch, new) /\ UNCHANGED seen
    <3>1. \A i \in 1..Len(watch') : watch'[i] = new \/ (i \in 1..Len(watch) /\ watch'[i] = watch[i])
      BY <1>1, <2>3
    <3> QED
      BY <1>4, <2>1, <2>3, <3>1 DEF CountedVersions, Counted
  <2> QED
    BY <1>6, <2>2, <2>3 DEF Patch, new
<1> QED
  BY <1>5, <1>6

(* A patch that leaves the count of repetitions alone.                      *)
LEMMA KeepCounted ==
  ASSUME TypeOK, CountedVersions, UNCHANGED results,
         \/ UNCHANGED <<status, seen, watch>>
         \/ Die
         \/ \E p, wait, base, mod :
              mod.reps = base.reps /\ Patch(p, base, mod, wait)
  PROVE  CountedVersions'
<1>1. \A r : Has(r) => Has(r)'
  BY DEF Has
<1>2. CASE UNCHANGED <<status, seen, watch>>
  BY <1>2 DEF CountedVersions, Counted, Has
<1>3. CASE Die
  BY <1>3 DEF Die, CountedVersions, Counted, Has
<1>4. CASE \E p, wait, base, mod :
              mod.reps = base.reps /\ Patch(p, base, mod, wait)
  BY <1>1, <1>4, PatchCounted
<1> QED
  BY <1>2, <1>3, <1>4

(* failExperiment is such a patch.                                          *)
LEMMA FailCounted ==
  ASSUME TypeOK, CountedVersions, UNCHANGED results,
         NEW p, NEW e \in Status, FailExperiment(p, e)
  PROVE  CountedVersions'
<1>1. [e EXCEPT !.phase = "Failed"].reps = e.reps
  BY DEF Status
<1> QED
  BY <1>1, KeepCounted DEF FailExperiment

(* A change of sub-phase keeps the count.                                   *)
LEMMA SeenReps ==
  ASSUME TypeOK
  PROVE  /\ seen \in Status
         /\ \A s, d : SetSubPhase(seen, s, d).reps = seen.reps
BY SeenTypes DEF SetSubPhase, Status

(* Every step preserves the inductive invariant.                            *)
LEMMA CountedStep == TypeOK /\ CountedVersions /\ [Next]_vars => CountedVersions'
<1> SUFFICES ASSUME TypeOK, CountedVersions, [Next]_vars PROVE CountedVersions'
  OBVIOUS
<1>1. CASE ReconcileTerminal \/ SpecEdit \/ TopologyController \/ TopologyCached \/ UNCHANGED vars
  BY <1>1, KeepCounted
     DEF ReconcileTerminal, SpecEdit, TopologyController, TopologyCached, vars, records
<1>2. CASE Restart
  BY <1>2, KeepCounted DEF Restart, records
<1>3. CASE Finalize
  <2> DEFINE e == [seen EXCEPT !.completed = TRUE]
             mod == [e EXCEPT !.phase = "Succeeded"]
  <2>1. mod.reps = e.reps
    BY SeenTypes DEF Status
  <2>2. PICK p : Patch(p, e, mod, NotQueued)
    BY <1>3 DEF Finalize
  <2> HIDE DEF e, mod
  <2> QED
    BY <1>3, <2>1, <2>2, KeepCounted DEF Finalize, records
<1>4. CASE HandleIdle
  <2> DEFINE id == IF seen.id = 0 THEN lastId + 1 ELSE seen.id
             mod == [seen EXCEPT !.id = id, !.phase = "Running", !.meas = <<>>,
                                 !.subPhase = "Deploying", !.age = None, !.duration = 0]
  <2>1. PICK p : Patch(p, seen, mod, 0)
    BY <1>4 DEF HandleIdle, RandomID
  <2>2. mod.reps = seen.reps
    BY SeenTypes DEF Status
  <2> HIDE DEF mod
  <2> QED
    BY <1>4, <2>1, <2>2, KeepCounted DEF HandleIdle, RandomID, records
<1>5. CASE HandleDeploying
  <2>1. UNCHANGED results
    BY <1>5 DEF HandleDeploying, records
  <2>2. PICK p : \/ Deployed(p)
                 \/ FailExperiment(p, seen)
                 \/ Die
    BY <1>5 DEF HandleDeploying, DeployFailed, DeployInterrupted
  <2>3. CASE Deployed(p)
    <3> DEFINE e == SetSubPhase(seen, IF UseTopology THEN "TopologyDelay" ELSE "LoadDelay",
                                      IF UseTopology THEN TopologyDelay ELSE LoadDelay)
               mod == [e EXCEPT !.refs = ManifestRefs(seen.id, Roles)]
    <3>1. mod.reps = seen.reps
      BY SeenTypes DEF SetSubPhase, Status
    <3>2. Patch(p, seen, mod, 0)
      BY <2>3 DEF Deployed
    <3> HIDE DEF mod
    <3> QED
      BY <2>1, <3>1, <3>2, KeepCounted
  <2> QED
    BY <2>1, <2>2, <2>3, FailCounted, SeenTypes, KeepCounted
<1>6. CASE HandleTopologyDelay
  <2>1. UNCHANGED results
    BY <1>6 DEF HandleTopologyDelay, CountDown, records
  <2>2. PICK p : \/ Patch(p, seen, seen, 1)
                 \/ Patch(p, seen, SetSubPhase(seen, "WaitingForTopology", 0), 0)
                 \/ FailExperiment(p, seen)
    BY <1>6 DEF HandleTopologyDelay, CountDown
  <2> QED
    BY <2>1, <2>2, FailCounted, SeenReps, KeepCounted
<1>7. CASE HandleWaitingForTopology
  <2>1. UNCHANGED results
    BY <1>7 DEF HandleWaitingForTopology, TopologyUnread, TopologyActive, TopologyAbandoned,
       CountDown, records
  <2>2. \/ UNCHANGED <<status, seen, watch>>
        \/ \E p : \/ Patch(p, seen, seen, 2)
                  \/ Patch(p, seen, SetSubPhase(seen, "LoadDelay", LoadDelay), 0)
                  \/ FailExperiment(p, seen)
    BY <1>7 DEF HandleWaitingForTopology, TopologyUnread, TopologyActive, TopologyAbandoned,
       CountDown
  <2> QED
    BY <2>1, <2>2, FailCounted, SeenReps, KeepCounted
<1>8. ASSUME NEW s, NEW next, NEW d, HandleTimedWait(s, next, d)
      PROVE  CountedVersions'
  <2>1. UNCHANGED results
    BY <1>8 DEF HandleTimedWait, CountDown, records
  <2>2. \E p : \/ Patch(p, seen, seen, 1)
               \/ Patch(p, seen, SetSubPhase(seen, next, d), 0)
    BY <1>8 DEF HandleTimedWait, CountDown
  <2> QED
    BY <2>1, <2>2, SeenReps, KeepCounted
<1>9. ASSUME NEW s \in Measuring, NEW next, HandleMeasurement(s, next)
      PROVE  CountedVersions'
  <2>1. UNCHANGED results
    BY <1>9 DEF HandleMeasurement
  <2>2. seen.subPhase \in Measuring
    BY <1>9 DEF HandleMeasurement, Dispatch
  <2>3. CASE UNCHANGED <<status, seen, watch>>
    BY <2>1, <2>3, KeepCounted
  <2>4. ASSUME NEW f, NEW p,
               WindowComplete(f, p, next) \/ Patch(p, seen, [seen EXCEPT !.meas = Recorded(f)], 1)
        PROVE  CountedVersions'
    <3> DEFINE m == [seen EXCEPT !.meas = Recorded(f)]
               actual == IF next = "ApplyingChaos" /\ ~UseChaos THEN "ChaosMeasurement" ELSE next
               e == SetSubPhase(m, actual, MeasurementDuration)
               mod == IF actual = "ChaosMeasurement" THEN [e EXCEPT !.meas = <<>>] ELSE e
    <3>1. m \in Status
      BY <2>2, RecordedType, SeenTypes DEF Status
    <3>2. m.reps = seen.reps
      BY SeenTypes DEF Status
    <3>3. mod.reps = m.reps
      <4> HIDE DEF m
      <4> QED
        BY <3>1 DEF SetSubPhase, Status
    <3>4. FailExperiment(p, m) \/ Patch(p, seen, mod, 0) \/ Patch(p, seen, m, 1)
      BY <2>4 DEF WindowComplete, AppendMeasurements
    <3> HIDE DEF m, mod
    <3> QED
      BY <2>1, <3>1, <3>2, <3>3, <3>4, FailCounted, KeepCounted
  <2> QED
    BY <1>9, <2>3, <2>4 DEF HandleMeasurement
<1>10. CASE HandleApplyingChaos
  <2>1. UNCHANGED results
    BY <1>10 DEF HandleApplyingChaos, records
  <2>2. PICK p : ChaosApplied(p) \/ FailExperiment(p, seen) \/ Die
    BY <1>10 DEF HandleApplyingChaos, ChaosFailed, ChaosPhaseUnread, ChaosInterrupted
  <2>3. CASE ChaosApplied(p)
    <3> DEFINE e == SetSubPhase(seen, "ChaosMeasurement", MeasurementDuration)
               mod == [e EXCEPT !.refs = @ \cup ReturnedRefs(live, seen.id, {}), !.meas = <<>>]
    <3>1. mod.reps = seen.reps
      BY SeenTypes DEF SetSubPhase, Status
    <3>2. Patch(p, seen, mod, 0)
      BY <2>3 DEF ChaosApplied
    <3> HIDE DEF mod
    <3> QED
      BY <2>1, <3>1, <3>2, KeepCounted
  <2> QED
    BY <2>1, <2>2, <2>3, FailCounted, SeenTypes, KeepCounted
<1>11. CASE HandleCleanup
  <2>1. PICK p : \/ Die /\ UNCHANGED results
                 \/ FailExperiment(p, seen) /\ UNCHANGED results
                 \/ RepetitionDone(p)
    BY <1>11 DEF HandleCleanup, TearDownInterrupted
  <2>2. CASE RepetitionDone(p)
    <3> DEFINE rep == seen.reps + 1
               entry == [rep |-> rep, samples |-> seen.meas]
               done == [seen EXCEPT !.reps = rep, !.slo = seen.meas, !.refs = {}, !.meas = <<>>]
               mod == IF rep < Repetitions /\ PauseBetweenRepetitions > 0
                      THEN SetSubPhase(done, "Pause", PauseBetweenRepetitions)
                      ELSE SetSubPhase(done, "", 0)
    <3>1. results' = Append(results, entry) /\ Patch(p, seen, mod, 0)
      BY <2>2 DEF RepetitionDone, AppendRepetition
    <3>2. mod.reps = rep
      BY SeenTypes DEF SetSubPhase, Status
    <3>3. results \in Seq(RepetitionResult) /\ seen.reps \in Nat
      BY SeenTypes, TypeOKParts DEF RecordTypes
    <3>4. entry.rep = rep /\ rep \in Nat
      BY <3>3
    <3>5. results' = Append(results, entry)
      BY <3>1
    <3> HIDE DEF entry
    <3>6. /\ Len(results) \in Nat /\ Len(results') = Len(results) + 1
          /\ results'[Len(results) + 1] = entry
          /\ \A i \in 1..Len(results) : results'[i] = results[i]
      BY <3>3, <3>5
    <3>7. ASSUME NEW r, r = rep PROVE Has(r)'
      <4>1. Len(results) + 1 \in 1..Len(results') /\ results'[Len(results) + 1].rep = r
        BY <3>4, <3>6, <3>7
      <4> QED
        BY <4>1 DEF Has
    <3>8. ASSUME NEW r, Has(r) PROVE Has(r)'
      <4>1. PICK i \in 1..Len(results) : results[i].rep = r
        BY <3>8 DEF Has
      <4>2. i \in 1..Len(results') /\ results'[i].rep = r
        BY <3>6, <4>1
      <4> QED
        BY <4>2 DEF Has
    <3>9. \A r \in 1..rep : Has(r)'
      <4>1. \A r \in 1..rep : r = rep \/ r \in 1..seen.reps
        BY <3>3
      <4> QED
        BY <3>7, <3>8, <4>1 DEF CountedVersions, Counted
    <3> HIDE DEF mod
    <3> QED
      BY <3>1, <3>2, <3>8, <3>9, PatchCounted
  <2> QED
    BY <2>1, <2>2, FailCounted, SeenTypes, KeepCounted
<1>12. CASE Deliver
  <2>1. watch \in Seq(Status) /\ watch # <<>>
    BY <1>12 DEF TypeOK, Deliver
  <2>2. /\ Head(watch) = watch[1] /\ 1 \in 1..Len(watch)
        /\ \A i \in 1..Len(Tail(watch)) : i + 1 \in 1..Len(watch) /\ Tail(watch)[i] = watch[i + 1]
    BY <2>1
  <2> QED
    BY <1>12, <2>2 DEF Deliver, records, CountedVersions, Counted, Has
<1>13. CASE Tick
  <2>1. \A v \in Status : Older(v).reps = v.reps
    BY DEF Older, Status
  <2>2. status'.reps = status.reps /\ seen'.reps = seen.reps
    BY <1>13, <2>1 DEF Tick, TypeOK
  <2>3. watch \in Seq(Status) /\ watch' = [i \in 1..Len(watch) |-> Older(watch[i])]
    BY <1>13 DEF Tick, TypeOK
  <2>4. Len(watch') = Len(watch) /\ \A i \in 1..Len(watch) : watch'[i].reps = watch[i].reps
    BY <2>1, <2>3
  <2>5. UNCHANGED results
    BY <1>13 DEF Tick, records
  <2> QED
    BY <2>2, <2>4, <2>5 DEF CountedVersions, Counted, Has
<1>14. CASE Reconcile
  <2>1. "PreChaosMeasurement" \in Measuring /\ "ChaosMeasurement" \in Measuring
    BY DEF Measuring
  <2> QED
    BY <1>1, <1>3, <1>4, <1>5, <1>6, <1>7, <1>8, <1>9, <1>10, <1>11, <1>14, <2>1 DEF Reconcile
<1> QED
  BY <1>1, <1>2, <1>12, <1>13, <1>14 DEF Next, Done

(* The initial states satisfy it.                                           *)
LEMMA CountedInit == Init => CountedVersions
<1> SUFFICES ASSUME Init PROVE CountedVersions
  OBVIOUS
<1>1. Created.reps = 0 /\ status = Created /\ seen = Created /\ Len(watch) = 0
  BY DEF Init, Created
<1> QED
  BY <1>1 DEF CountedVersions, Counted

(* Every repetition the status counts is in the results ConfigMap, for      *)
(* every configuration and any number of failures, crashes and stale reads. *)
THEOREM RepetitionsAreRecorded == Spec => []ResultsRecorded
<1>1. CountedVersions => ResultsRecorded
  BY DEF CountedVersions, Counted, Has, ResultsRecorded
<1> QED
  BY <1>1, CountedInit, CountedStep, TypeCorrect, PTL DEF Spec

-----------------------------------------------------------------------------
(* The results and the measurements they rest on, as long as no reconcile   *)
(* starts from an outdated status.  Stale reads do break these properties:  *)
(* a patch computed from an old copy leaves the fields in which it agrees   *)
(* with that copy as they are stored, so values of the baseline stay in     *)
(* status.measurementState of the chaos window.                             *)

OwnSamples(meas, r) ==
  \A j \in 1..Len(meas) : meas[j].rep = r /\ meas[j].window = "ChaosMeasurement"

LoggedBaseline(r) ==
  \E k \in 1..Len(log) : log[k].rep = r /\ log[k].window = "PreChaosMeasurement"

LoggedChaos(r, meas) ==
  \E k \in 1..Len(log) :
    log[k].rep = r /\ log[k].window = "ChaosMeasurement" /\ log[k].samples = meas

(* What the status holds on the way to Cleanup, where the result is made of *)
(* it.                                                                      *)
WindowState ==
  /\ status.subPhase \in Before => status.meas = <<>>
  /\ status.subPhase \in {"ChaosMeasurement", "Cleanup"} =>
       OwnSamples(status.meas, status.reps + 1)
  /\ status.subPhase \in AfterBaseline => LoggedBaseline(status.reps + 1)
  /\ status.subPhase = "Cleanup" => LoggedChaos(status.reps + 1, status.meas)

(* The results by the parts just named.                                     *)
ResultsSound ==
  \A i \in 1..Len(results) :
    /\ OwnSamples(results[i].samples, results[i].rep)
    /\ LoggedBaseline(results[i].rep)
    /\ LoggedChaos(results[i].rep, results[i].samples)

LEMMA ResultsSoundParts == ResultsSound <=> ResultsFromOwnWindow /\ ResultsLogged
BY DEF ResultsSound, ResultsFromOwnWindow, ResultsLogged, OwnSamples, LoggedBaseline, LoggedChaos

RecordsInv == WindowState /\ ResultsSound /\ ScoreRecorded

(* What the records promise depends on a few fields only.                   *)
LEMMA SameRecords ==
  ASSUME RecordsInv, Quiet, status'.reps = status.reps, status'.slo = status.slo
  PROVE  /\ ResultsSound' /\ ScoreRecorded'
         /\ \A r : LoggedBaseline(r) => LoggedBaseline(r)'
         /\ \A r, m : LoggedChaos(r, m) => LoggedChaos(r, m)'
<1>1. results' = results /\ log' = log
  BY DEF Quiet, records
<1> QED
  BY <1>1 DEF RecordsInv, ResultsSound, ScoreRecorded, LoggedBaseline, LoggedChaos

(* A window written to the measurements is there with what was before.      *)
LEMMA LogGrows ==
  ASSUME TypeOK, NEW entry, log' = Append(log, entry)
  PROVE  /\ \A r : LoggedBaseline(r) => LoggedBaseline(r)'
         /\ \A r, m : LoggedChaos(r, m) => LoggedChaos(r, m)'
         /\ \A r : entry.rep = r /\ entry.window = "PreChaosMeasurement" => LoggedBaseline(r)'
         /\ \A r, m : /\ entry.rep = r /\ entry.window = "ChaosMeasurement"
                      /\ entry.samples = m
                      => LoggedChaos(r, m)'
<1>1. log \in Seq(LogEntry)
  BY DEF TypeOK
<1>2. /\ Len(log) \in Nat /\ Len(log') = Len(log) + 1
      /\ log'[Len(log) + 1] = entry
      /\ \A i \in 1..Len(log) : log'[i] = log[i]
  BY <1>1
<1>3. \A i \in 1..Len(log) : i \in 1..Len(log')
  BY <1>2
<1>4. Len(log) + 1 \in 1..Len(log')
  BY <1>2
<1>5. ASSUME NEW r, LoggedBaseline(r) PROVE LoggedBaseline(r)'
  BY <1>2, <1>3, <1>5 DEF LoggedBaseline
<1>6. ASSUME NEW r, NEW m, LoggedChaos(r, m) PROVE LoggedChaos(r, m)'
  BY <1>2, <1>3, <1>6 DEF LoggedChaos
<1>7. ASSUME NEW r, entry.rep = r, entry.window = "PreChaosMeasurement"
      PROVE  LoggedBaseline(r)'
  BY <1>2, <1>4, <1>7 DEF LoggedBaseline
<1>8. ASSUME NEW r, NEW m, entry.rep = r, entry.window = "ChaosMeasurement", entry.samples = m
      PROVE  LoggedChaos(r, m)'
  BY <1>2, <1>4, <1>8 DEF LoggedChaos
<1> QED
  BY <1>5, <1>6, <1>7, <1>8

(* A value recorded in the chaos window is of that window.                  *)
LEMMA RecordedOwn ==
  ASSUME TypeOK, Fresh, status.subPhase = "ChaosMeasurement",
         OwnSamples(status.meas, status.reps + 1), NEW f
  PROVE  OwnSamples(Recorded(f), status.reps + 1)
<1> DEFINE s == [rep |-> seen.reps + 1, window |-> seen.subPhase, at |-> ElapsedSeconds,
                 faults |-> {r.name : r \in live}]
<1>1. s.rep = status.reps + 1 /\ s.window = "ChaosMeasurement"
  BY DEF Fresh
<1>2. Recorded(f) \in {status.meas, Append(status.meas, s)}
  BY DEF Recorded, Fresh
<1>3. status.meas \in Seq(Sample)
  BY SeenTypes DEF Fresh
<1> HIDE DEF s
<1>4. CASE Recorded(f) = Append(status.meas, s)
  <2>1. \A j \in 1..Len(Recorded(f)) :
          Recorded(f)[j] = s \/ (j \in 1..Len(status.meas) /\ Recorded(f)[j] = status.meas[j])
    BY <1>3, <1>4
  <2> QED
    BY <1>1, <2>1 DEF OwnSamples
<1> QED
  BY <1>2, <1>4

(* The end of a window.                                                     *)
LEMMA WindowEndsRecords ==
  ASSUME TypeOK, Fresh, RecordsInv, NEW next \in {"ApplyingChaos", "Cleanup"},
         \/ status.subPhase = "PreChaosMeasurement" /\ next = "ApplyingChaos"
         \/ status.subPhase = "ChaosMeasurement" /\ next = "Cleanup",
         WindowEnds(next)
  PROVE  RecordsInv'
<1>1. PICK f :
        /\ UNCHANGED results
        /\ log' = Append(log, [rep |-> status.reps + 1, window |-> status.subPhase,
                               samples |-> Recorded(f)])
        /\ \/ Stays
           \/ Enters(AfterWindow(next), MeasurementDuration,
                     IF AfterWindow(next) = "ChaosMeasurement" THEN <<>> ELSE Recorded(f),
                     status.refs)
  BY DEF WindowEnds
<1> DEFINE entry == [rep |-> status.reps + 1, window |-> status.subPhase,
                     samples |-> Recorded(f)]
<1>2. entry.rep = status.reps + 1 /\ entry.window = status.subPhase
      /\ entry.samples = Recorded(f)
  OBVIOUS
<1>3. log' = Append(log, entry)
  BY <1>1
<1> HIDE DEF entry
<1>4. /\ \A r : LoggedBaseline(r) => LoggedBaseline(r)'
      /\ \A r, m : LoggedChaos(r, m) => LoggedChaos(r, m)'
      /\ \A r : r = status.reps + 1 /\ status.subPhase = "PreChaosMeasurement"
                 => LoggedBaseline(r)'
      /\ \A r, m : r = status.reps + 1 /\ m = Recorded(f) /\ status.subPhase = "ChaosMeasurement"
                    => LoggedChaos(r, m)'
  BY <1>2, <1>3, LogGrows
<1>5. status'.reps = status.reps /\ status'.slo = status.slo
  BY <1>1 DEF Stays, Enters, KeepsRun
<1>6. ResultsSound' /\ ScoreRecorded'
  BY <1>1, <1>4, <1>5 DEF RecordsInv, ResultsSound, ScoreRecorded
<1>7. WindowState'
  <2>1. CASE Stays
    BY <1>4, <2>1 DEF Stays, RecordsInv, WindowState
  <2>2. CASE /\ status.subPhase = "PreChaosMeasurement" /\ next = "ApplyingChaos"
             /\ Enters(AfterWindow(next), MeasurementDuration,
                       IF AfterWindow(next) = "ChaosMeasurement" THEN <<>> ELSE Recorded(f),
                       status.refs)
    <3>1. \/ status'.subPhase = "ApplyingChaos"
          \/ status'.subPhase = "ChaosMeasurement" /\ status'.meas = <<>>
      BY <2>2 DEF Enters, AfterWindow
    <3>2. LoggedBaseline(status.reps + 1)'
      BY <1>4, <1>5, <2>2
    <3>3. OwnSamples(<<>>, status'.reps + 1)
      BY DEF OwnSamples
    <3> QED
      BY <1>5, <3>1, <3>2, <3>3 DEF WindowState, Before
  <2>3. CASE /\ status.subPhase = "ChaosMeasurement" /\ next = "Cleanup"
             /\ Enters(AfterWindow(next), MeasurementDuration,
                       IF AfterWindow(next) = "ChaosMeasurement" THEN <<>> ELSE Recorded(f),
                       status.refs)
    <3>1. status'.subPhase = "Cleanup" /\ status'.meas = Recorded(f)
      BY <2>3 DEF Enters, AfterWindow
    <3>2. LoggedBaseline(status.reps + 1)'
      BY <1>4, <1>5, <2>3 DEF RecordsInv, WindowState, AfterBaseline
    <3>3. LoggedChaos(status.reps + 1, status.meas)'
      BY <1>4, <1>5, <2>3, <3>1
    <3>4. OwnSamples(Recorded(f), status.reps + 1)
      BY <2>3, RecordedOwn DEF RecordsInv, WindowState
    <3> QED
      BY <1>5, <3>1, <3>2, <3>3, <3>4 DEF WindowState, Before
  <2> QED
    BY <1>1, <2>1, <2>2, <2>3
<1> QED
  BY <1>6, <1>7 DEF RecordsInv

(* The end of a repetition: its result is sound, and it is the score.       *)
LEMMA RepetitionEndsRecords ==
  ASSUME TypeOK, RecordsInv, status.subPhase = "Cleanup", RepetitionEnds
  PROVE  RecordsInv'
<1> DEFINE entry == [rep |-> status.reps + 1, samples |-> status.meas]
<1>1. entry.rep = status.reps + 1 /\ entry.samples = status.meas
  OBVIOUS
<1>2. log' = log /\ results' = Append(results, entry)
  BY DEF RepetitionEnds
<1>3. Stays \/ \E s \in Idle, d \in Nat : Counts(s, d)
  BY DEF RepetitionEnds
<1> HIDE DEF entry
<1>4. results \in Seq(RepetitionResult)
  BY DEF TypeOK
<1>5. /\ Len(results) \in Nat /\ Len(results') = Len(results) + 1
      /\ results'[Len(results) + 1] = entry
      /\ \A i \in 1..Len(results) : i \in 1..Len(results') /\ results'[i] = results[i]
  BY <1>2, <1>4
<1>6. /\ \A r : LoggedBaseline(r) => LoggedBaseline(r)'
      /\ \A r, m : LoggedChaos(r, m) => LoggedChaos(r, m)'
  BY <1>2 DEF LoggedBaseline, LoggedChaos
<1>7. ResultsSound'
  <2>1. /\ OwnSamples(entry.samples, entry.rep)
        /\ LoggedBaseline(entry.rep)
        /\ LoggedChaos(entry.rep, entry.samples)
    BY <1>1 DEF RecordsInv, WindowState, AfterBaseline
  <2>2. \A i \in 1..Len(results') : results'[i] = entry \/ (i \in 1..Len(results) /\ results'[i] = results[i])
    BY <1>5
  <2> QED
    BY <1>6, <2>1, <2>2 DEF RecordsInv, ResultsSound
<1>8. CASE Stays
  <2>1. WindowState'
    BY <1>6, <1>8 DEF Stays, RecordsInv, WindowState
  <2>2. ScoreRecorded'
    BY <1>5, <1>8 DEF Stays, RecordsInv, ScoreRecorded
  <2> QED
    BY <1>7, <2>1, <2>2 DEF RecordsInv
<1>9. ASSUME NEW s \in Idle, NEW d \in Nat, Counts(s, d) PROVE RecordsInv'
  <2>1. status'.subPhase \in Idle
    BY <1>9 DEF Counts
  <2>2. WindowState'
    BY <2>1, Apart DEF WindowState
  <2>3. status'.reps = entry.rep /\ status'.slo = entry.samples
    BY <1>1, <1>9 DEF Counts
  <2>4. Len(results) + 1 \in 1..Len(results')
    BY <1>5
  <2>5. ScoreRecorded'
    BY <1>5, <2>3, <2>4 DEF ScoreRecorded
  <2> QED
    BY <1>7, <2>2, <2>5 DEF RecordsInv
<1> QED
  BY <1>3, <1>8, <1>9

(* Every move keeps the records sound.                                      *)
LEMMA RecordsStep ==
  ASSUME NoStaleReads, TypeOK, Fresh, RecordsInv, [Next]_vars
  PROVE  RecordsInv'
<1>1. RunStep
  BY RunSteps
<1>2. ASSUME Quiet, status'.reps = status.reps, status'.slo = status.slo,
             status'.subPhase = status.subPhase, status'.meas = status.meas
      PROVE  RecordsInv'
  BY <1>2, SameRecords DEF RecordsInv, WindowState
<1>3. ASSUME Quiet, KeepsRun, status'.subPhase \notin Before, status'.subPhase \notin AfterBaseline
      PROVE  RecordsInv'
  <2>1. WindowState'
    BY <1>3 DEF WindowState, AfterBaseline
  <2> QED
    BY <1>3, <2>1, SameRecords DEF RecordsInv, KeepsRun
<1>4. ASSUME Quiet, status'.reps = status.reps, status'.slo = status.slo,
             status'.subPhase \in Before, status'.meas = <<>>
      PROVE  RecordsInv'
  <2>1. WindowState'
    BY <1>4, Apart DEF WindowState, AfterBaseline
  <2> QED
    BY <1>4, <2>1, SameRecords DEF RecordsInv
<1>5. CASE Quiet /\ (Stays \/ Ages \/ \E phase \in Terminal : Ends(phase))
  BY <1>2, <1>5 DEF Stays, Ages, Ends, KeepsRun
<1>6. CASE Quiet /\ \E id \in Nat : Starts(id)
  BY <1>4, <1>6, Apart DEF Starts
<1>7. CASE /\ Quiet /\ status.subPhase \in Before
           /\ \E s \in Before, d \in Nat : \E refs : Enters(s, d, status.meas, refs)
  BY <1>4, <1>7 DEF Enters, KeepsRun, RecordsInv, WindowState
<1>8. CASE Quiet /\ Enters("PreChaosMeasurement", ChaosDelay, status.meas, status.refs)
  BY <1>3, <1>8 DEF Enters, Before, AfterBaseline
<1>9. CASE Quiet /\ \E s \in Idle : Enters(s, 0, status.meas, status.refs)
  BY <1>3, <1>9, Apart DEF Enters
<1>10. CASE Quiet /\ status.subPhase \in Measuring /\ \E f : Samples(Recorded(f))
  <2>1. PICK f : Samples(Recorded(f))
    BY <1>10
  <2>2. status'.subPhase = status.subPhase /\ status'.meas = Recorded(f) /\ KeepsRun
    BY <2>1 DEF Samples
  <2>3. CASE status.subPhase = "PreChaosMeasurement"
    BY <1>3, <1>10, <2>2, <2>3 DEF Before, AfterBaseline
  <2>4. CASE status.subPhase = "ChaosMeasurement"
    <3>1. OwnSamples(Recorded(f), status.reps + 1) /\ LoggedBaseline(status.reps + 1)
      BY <2>4, RecordedOwn DEF RecordsInv, WindowState, AfterBaseline
    <3>2. /\ ResultsSound' /\ ScoreRecorded'
          /\ \A r : LoggedBaseline(r) => LoggedBaseline(r)'
      BY <1>10, <2>2, SameRecords DEF KeepsRun
    <3>3. WindowState'
      BY <2>2, <2>4, <3>1, <3>2 DEF WindowState, KeepsRun, Before
    <3> QED
      BY <3>2, <3>3 DEF RecordsInv
  <2> QED
    BY <1>10, <2>3, <2>4 DEF Measuring
<1>11. CASE status.subPhase = "PreChaosMeasurement" /\ WindowEnds("ApplyingChaos")
  BY <1>11, WindowEndsRecords
<1>12. CASE status.subPhase = "ChaosMeasurement" /\ WindowEnds("Cleanup")
  BY <1>12, WindowEndsRecords
<1>13. CASE /\ Quiet /\ status.subPhase = "ApplyingChaos"
            /\ \E refs : Enters("ChaosMeasurement", MeasurementDuration, <<>>, refs)
  <2>1. status'.subPhase = "ChaosMeasurement" /\ status'.meas = <<>> /\ KeepsRun
    BY <1>13 DEF Enters
  <2>2. LoggedBaseline(status.reps + 1) /\ OwnSamples(<<>>, status'.reps + 1)
    BY <1>13 DEF RecordsInv, WindowState, AfterBaseline, OwnSamples
  <2>3. /\ ResultsSound' /\ ScoreRecorded'
        /\ \A r : LoggedBaseline(r) => LoggedBaseline(r)'
    BY <1>13, <2>1, SameRecords DEF KeepsRun
  <2>4. WindowState'
    BY <2>1, <2>2, <2>3 DEF WindowState, KeepsRun, Before
  <2> QED
    BY <2>3, <2>4 DEF RecordsInv
<1>14. CASE status.subPhase = "Cleanup" /\ RepetitionEnds
  BY <1>14, RepetitionEndsRecords
<1> QED
  BY <1>1, <1>5, <1>6, <1>7, <1>8, <1>9, <1>10, <1>11, <1>12, <1>13, <1>14 DEF RunStep, Moves

LEMMA RecordsInit == Init => RecordsInv
<1> SUFFICES ASSUME Init PROVE RecordsInv
  OBVIOUS
<1>1. status.subPhase \in Idle /\ status.reps = 0 /\ Len(results) = 0
  BY Apart DEF Init, Created
<1>2. /\ status.subPhase \notin Before /\ status.subPhase \notin AfterBaseline
      /\ status.subPhase # "ChaosMeasurement" /\ status.subPhase # "Cleanup"
  BY <1>1, Apart
<1> QED
  BY <1>1, <1>2 DEF RecordsInv, WindowState, ResultsSound, ScoreRecorded

LEMMA RecordsHold ==
  ASSUME NoStaleReads
  PROVE  Spec => []RecordsInv
<1>1. TypeOK /\ Fresh /\ RecordsInv /\ [Next]_vars => Fresh' /\ RecordsInv'
  BY RunSteps, RecordsStep
<1> QED
  BY <1>1, FreshInit, RecordsInit, TypeCorrect, PTL DEF Spec

(* Without stale reads, whatever calls and patches fail and whenever the    *)
(* operator dies: every value a repetition is scored on was measured in its *)
(* own chaos window.                                                        *)
THEOREM ScoresFromOwnWindow ==
  ASSUME NoStaleReads
  PROVE  Spec => []ResultsFromOwnWindow
<1>1. RecordsInv => ResultsFromOwnWindow
  BY ResultsSoundParts DEF RecordsInv
<1> QED
  BY <1>1, RecordsHold, PTL

(* The values of a result are those of a window in the measurements         *)
(* ConfigMap, and the baseline of its repetition is there too.              *)
THEOREM ScoresAreLogged ==
  ASSUME NoStaleReads
  PROVE  Spec => []ResultsLogged
<1>1. RecordsInv => ResultsLogged
  BY ResultsSoundParts DEF RecordsInv
<1> QED
  BY <1>1, RecordsHold, PTL

(* The score in the status is that of a recorded run of the repetition that *)
(* was counted last: writing the result and patching the status cannot come *)
(* apart.                                                                   *)
THEOREM ScoresAreRecorded ==
  ASSUME NoStaleReads
  PROVE  Spec => []ScoreRecorded
<1>1. RecordsInv => ScoreRecorded
  BY DEF RecordsInv
<1> QED
  BY <1>1, RecordsHold, PTL

-----------------------------------------------------------------------------
(* Repetitions are counted one by one and a terminal phase is final.        *)

(* What a step may do to the count and to an ended experiment.              *)
LEMMA ProgressStep ==
  ASSUME NoStaleReads, TypeOK, Fresh, [Next]_vars
  PROVE  /\ status'.reps \in {status.reps, status.reps + 1}
         /\ status.phase \in Terminal => status'.phase = status.phase
<1>1. CASE Stays \/ Ages
  BY <1>1 DEF Stays, Ages, KeepsRun
<1>2. CASE Alive /\ Moves
  <2>1. status'.reps \in {status.reps, status.reps + 1}
    BY <1>2 DEF Moves, WindowEnds, RepetitionEnds, Stays, Ends, Starts, Enters, Samples, Counts,
       KeepsRun
  <2> QED
    BY <1>2, <2>1 DEF Alive
<1> QED
  BY <1>1, <1>2, RunSteps DEF RunStep

(* Without stale reads no repetition is counted twice at once or uncounted, *)
(* and an experiment that has succeeded or failed stays so, whatever fails. *)
THEOREM ProgressMade ==
  ASSUME NoStaleReads
  PROVE  Spec => Progress
<1>1. TypeOK /\ Fresh /\ [Next]_vars => Fresh'
  BY RunSteps
<1>2. TypeOK /\ Fresh /\ [Next]_vars =>
        [/\ status'.reps \in {status.reps, status.reps + 1}
         /\ status.phase \in Terminal => status'.phase = status.phase]_vars
  BY ProgressStep
<1> QED
  BY <1>1, <1>2, FreshInit, TypeCorrect, PTL DEF Spec, Progress

-----------------------------------------------------------------------------
(* Time within a measurement window.                                        *)

InWindow == Alive /\ status.subPhase \in Measuring

(* Failures only use up the budget.                                         *)
LEMMA SpendLess ==
  ASSUME budget \in Nat, NEW f, NEW p, Spend(f, p)
  PROVE  budget' \in Nat /\ budget' <= budget /\ (f # "none" => budget' < budget)
BY DEF Spend

(* A patch that is written keeps its wait unless the answer is lost.        *)
LEMMA PatchDue ==
  ASSUME NEW p, NEW base, NEW mod, NEW wait, Patch(p, base, mod, wait)
  PROVE  /\ due' \in {0, wait}
         /\ p = "patchError" => due' = 0 /\ status' = status
         /\ p # "patchError" /\ p # "lostReply" => due' = wait
BY DEF Patch

(* Steps other than measuring and the passing of time: they are outside the *)
(* windows, or only queue the object at once.                               *)
Queued ==
  /\ budget' <= budget
  /\ log' = log
  /\ \/ Stays /\ due' = due
     \/ Stays /\ due' = 0 /\ Faults \cap {"restart", "specEdit"} # {}
     \/ status'.age = 0 /\ status'.meas = <<>> /\ due' = 0

(* A window is entered with no values in the status.                        *)
LEMMA EnteredWindow ==
  ASSUME RecordsInv, RunStep, status.subPhase \notin Measuring, InWindow'
  PROVE  /\ status'.age = 0 /\ status'.meas = <<>> /\ log' = log
         /\ status.subPhase \in {"LoadDelay", "ApplyingChaos"}
<1>1. status'.subPhase \in Measuring
  BY DEF InWindow
<1>2. CASE Quiet /\ (Stays \/ Ages \/ \E phase \in Terminal : Ends(phase))
  BY <1>1, <1>2 DEF Stays, Ages, Ends
<1>3. CASE Quiet /\ \E id \in Nat : Starts(id)
  BY <1>1, <1>3 DEF Starts, Measuring
<1>4. CASE \E s \in Before, d \in Nat : \E refs : Enters(s, d, status.meas, refs)
  BY <1>1, <1>4, Apart DEF Enters
<1>5. CASE /\ Quiet /\ status.subPhase = "LoadDelay"
           /\ Enters("PreChaosMeasurement", ChaosDelay, status.meas, status.refs)
  BY <1>5 DEF Enters, RecordsInv, WindowState, Before, Quiet, records
<1>6. CASE Quiet /\ \E s \in Idle : Enters(s, 0, status.meas, status.refs)
  BY <1>1, <1>6, Apart DEF Enters
<1>7. CASE /\ Quiet /\ status.subPhase = "ApplyingChaos"
           /\ \E refs : Enters("ChaosMeasurement", MeasurementDuration, <<>>, refs)
  BY <1>7 DEF Enters, Quiet, records
<1>8. CASE RepetitionEnds /\ status.subPhase = "Cleanup"
  <2>1. Stays \/ \E s \in Idle, d \in Nat : Counts(s, d)
    BY <1>8 DEF RepetitionEnds
  <2> QED
    BY <1>1, <2>1, Apart DEF Stays, Counts
<1> QED
  BY <1>2, <1>3, <1>4, <1>5, <1>6, <1>7, <1>8 DEF RunStep, Moves, Measuring

(* No step adds to the budget of failures.                                  *)
LEMMA BudgetStep ==
  ASSUME TypeOK, [Next]_vars
  PROVE  budget' \in Nat /\ budget' <= budget
<1>1. budget \in Nat
  BY DEF TypeOK
<1>2. (\E f, p : Spend(f, p)) \/ budget' = budget => budget' \in Nat /\ budget' <= budget
  BY <1>1, SpendLess
<1>3. CASE ReconcileTerminal \/ SpecEdit \/ TopologyController \/ TopologyCached \/ Restart
             \/ Deliver \/ Tick \/ Finalize \/ HandleIdle \/ UNCHANGED vars
  <2>1. (\E f, p : Spend(f, p)) \/ budget' = budget
    BY <1>3 DEF ReconcileTerminal, SpecEdit, TopologyController, TopologyCached, Restart,
       Deliver, Tick, Finalize, HandleIdle, vars
  <2> QED
    BY <1>2, <2>1
<1>4. CASE HandleDeploying \/ HandleTopologyDelay \/ HandleWaitingForTopology
             \/ HandleApplyingChaos \/ HandleCleanup
  <2>1. (\E f, p : Spend(f, p)) \/ budget' = budget
    BY <1>4 DEF HandleDeploying, HandleTopologyDelay, HandleWaitingForTopology, TopologyUnread,
       TopologyActive, TopologyAbandoned, CountDown, HandleApplyingChaos, HandleCleanup
  <2> QED
    BY <1>2, <2>1
<1>5. ASSUME NEW s, NEW next, NEW d, HandleTimedWait(s, next, d)
      PROVE  budget' \in Nat /\ budget' <= budget
  BY <1>2, <1>5 DEF HandleTimedWait, CountDown
<1>6. ASSUME NEW s, NEW next, HandleMeasurement(s, next)
      PROVE  budget' \in Nat /\ budget' <= budget
  <2>1. (\E f, p : Spend(f, p)) \/ budget' = budget
    BY <1>6 DEF HandleMeasurement
  <2> QED
    BY <1>2, <2>1
<1> QED
  BY <1>3, <1>4, <1>5, <1>6 DEF Next, Reconcile, Done

(* When the object is queued by a step other than measuring and the passing *)
(* of time.                                                                 *)
LEMMA QueuedSteps ==
  ASSUME NoStaleReads, TypeOK, Fresh, RecordsInv, [Next]_vars, InWindow',
         \A s \in Measuring, next \in {"ApplyingChaos", "Cleanup"} : ~HandleMeasurement(s, next),
         ~Tick
  PROVE  Queued
<1>1. budget' <= budget /\ RunStep /\ ~Deliver
  BY BudgetStep, RunSteps, NothingDelivered
<1>2. \A s : Dispatch(s) => status.subPhase = s /\ due = 0
  BY DEF Dispatch, Fresh, ReconcileDue
<1>3. CASE Restart
  BY <1>1, <1>3 DEF Restart, Die, Stays, records, Queued
<1>4. CASE SpecEdit
  BY <1>1, <1>4 DEF SpecEdit, Stays, records, Queued
<1>5. CASE TopologyController \/ TopologyCached \/ UNCHANGED vars
  BY <1>1, <1>5 DEF TopologyController, TopologyCached, vars, Stays, records, Queued
<1>6. CASE ReconcileTerminal
  BY <1>6 DEF ReconcileTerminal, Fresh, InWindow, Alive
<1>7. CASE Finalize
  <2> DEFINE e == [seen EXCEPT !.completed = TRUE]
             mod == [e EXCEPT !.phase = "Succeeded"]
  <2>1. PICK p : Patch(p, e, mod, NotQueued)
    BY <1>7 DEF Finalize
  <2>2. seen.phase \notin Terminal /\ e.phase = seen.phase /\ mod.phase = "Succeeded"
    BY <1>7, SeenTypes DEF Finalize, Status
  <2>3. due = 0 /\ log' = log
    BY <1>7 DEF Finalize, ReconcileDue, records
  <2> HIDE DEF e, mod
  <2>4. CASE p = "patchError"
    BY <1>1, <2>1, <2>3, <2>4, PatchDue DEF Stays, Queued
  <2>5. CASE p # "patchError"
    <3>1. status'.phase = "Succeeded"
      BY <2>1, <2>2, <2>5 DEF Patch, Merge, Terminal
    <3> QED
      BY <3>1 DEF InWindow, Alive, Terminal
  <2> QED
    BY <2>4, <2>5
<1>8. CASE HandleTimedWait("LoadDelay", "PreChaosMeasurement", ChaosDelay)
  <2>1. status.subPhase = "LoadDelay"
    BY <1>2, <1>8 DEF HandleTimedWait
  <2>2. status'.age = 0 /\ status'.meas = <<>> /\ log' = log
    BY <1>1, <2>1, EnteredWindow DEF Measuring
  <2>3. ~CountDown(1)
    BY <2>1, FreshCountDown DEF Stays, InWindow, Measuring
  <2>4. due' = 0
    BY <1>8, <2>3, PatchDue DEF HandleTimedWait
  <2> QED
    BY <1>1, <2>2, <2>4 DEF Queued
<1>9. CASE HandleApplyingChaos
  <2>1. status.subPhase = "ApplyingChaos"
    BY <1>2, <1>9 DEF HandleApplyingChaos
  <2>2. status'.age = 0 /\ status'.meas = <<>> /\ log' = log
    BY <1>1, <2>1, EnteredWindow DEF Measuring
  <2>3. due' = 0
    BY <1>9, PatchDue DEF HandleApplyingChaos, ChaosApplied, ChaosFailed, ChaosPhaseUnread,
       ChaosInterrupted, FailExperiment, Die
  <2> QED
    BY <1>1, <2>2, <2>3 DEF Queued
<1>10. ASSUME NEW s, s \notin {"LoadDelay", "ApplyingChaos"}, s \notin Measuring, Dispatch(s)
       PROVE  FALSE
  BY <1>1, <1>2, <1>10, EnteredWindow
<1>11. CASE HandleIdle \/ HandleTimedWait("Pause", "", 0)
  <2>1. PICK s \in Idle : Dispatch(s)
    BY <1>11, Apart DEF HandleIdle, HandleTimedWait
  <2> QED
    BY <1>10, <2>1, Apart
<1>12. CASE HandleDeploying \/ HandleTopologyDelay \/ HandleWaitingForTopology \/ HandleCleanup
  <2>1. PICK s \in {"Deploying", "TopologyDelay", "WaitingForTopology", "Cleanup"} : Dispatch(s)
    BY <1>12 DEF HandleDeploying, HandleTopologyDelay, HandleWaitingForTopology, HandleCleanup
  <2> QED
    BY <1>10, <2>1 DEF Measuring
<1>13. "PreChaosMeasurement" \in Measuring /\ "ChaosMeasurement" \in Measuring
  BY DEF Measuring
<1> QED
  BY <1>1, <1>3, <1>4, <1>5, <1>6, <1>7, <1>8, <1>9, <1>11, <1>12, <1>13
     DEF Next, Reconcile, Done

-----------------------------------------------------------------------------
(* The order of the samples, when nothing makes a reconcile run twice in    *)
(* the same second: no lost answer, no restart and no edit of the spec.     *)

Promptly == Faults \cap {"staleCache", "lostReply", "restart", "specEdit"} = {}

Ordered(w) == \A i, j \in 1..Len(w) : i < j => w[i].at < w[j].at

(* Every value of the window was taken before the next one is due.          *)
SampleTimes ==
  InWindow =>
    /\ status.age \in Nat /\ due \in Nat
    /\ \A j \in 1..Len(status.meas) : status.meas[j].at < status.age + due

OrderInv ==
  /\ SampleTimes
  /\ Ordered(status.meas)
  /\ \A k \in 1..Len(log) : Ordered(log[k].samples)

(* A value's second is a number.                                            *)
LEMMA SampleSecond ==
  ASSUME NEW w \in Seq(Sample)
  PROVE  \A j \in 1..Len(w) : w[j].at \in Nat
<1> TAKE j \in 1..Len(w)
<1>1. w[j] \in Sample
  OBVIOUS
<1> QED
  BY <1>1 DEF Sample

(* The next value, taken when the object is due, is later than the others.  *)
LEMMA RecordedInOrder ==
  ASSUME TypeOK, Fresh, OrderInv, InWindow, due = 0, NEW f
  PROVE  /\ Ordered(Recorded(f))
         /\ status.age \in Nat
         /\ \A j \in 1..Len(Recorded(f)) : Recorded(f)[j].at <= status.age
<1> DEFINE s == [rep |-> seen.reps + 1, window |-> seen.subPhase, at |-> ElapsedSeconds,
                 faults |-> {r.name : r \in live}]
           m == status.meas
<1>1. status.age \in Nat /\ \A j \in 1..Len(m) : m[j].at < status.age
  BY DEF OrderInv, SampleTimes
<1>2. s.at = status.age
  BY <1>1 DEF ElapsedSeconds, Fresh, None
<1>3. Recorded(f) \in {m, Append(m, s)}
  BY DEF Recorded, Fresh
<1>4. m \in Seq(Sample) /\ Ordered(m)
  BY SeenTypes DEF Fresh, OrderInv
<1>5. \A j \in 1..Len(m) : m[j].at \in Nat
  BY <1>4, SampleSecond
<1> HIDE DEF s, m
<1>6. CASE Recorded(f) = m
  BY <1>1, <1>4, <1>5, <1>6
<1>7. CASE Recorded(f) = Append(m, s)
  <2>1. /\ Len(m) \in Nat /\ Len(Append(m, s)) = Len(m) + 1
        /\ Append(m, s)[Len(m) + 1] = s
        /\ \A j \in 1..Len(m) : Append(m, s)[j] = m[j]
    BY <1>4
  <2>2. \A j \in 1..Len(Append(m, s)) : j = Len(m) + 1 \/ j \in 1..Len(m)
    BY <2>1
  <2>3. \A j \in 1..Len(Append(m, s)) : Append(m, s)[j].at <= status.age
    BY <1>1, <1>2, <1>5, <2>1, <2>2
  <2>4. ASSUME NEW i \in 1..Len(Append(m, s)), NEW j \in 1..Len(Append(m, s)), i < j
        PROVE  Append(m, s)[i].at < Append(m, s)[j].at
    <3>1. i \in 1..Len(m) /\ Append(m, s)[i] = m[i]
      BY <2>1, <2>2, <2>4
    <3>2. CASE j = Len(m) + 1
      BY <1>1, <1>2, <2>1, <3>1, <3>2
    <3>3. CASE j \in 1..Len(m)
      BY <1>4, <2>1, <2>4, <3>1, <3>3 DEF Ordered
    <3> QED
      BY <2>2, <3>2, <3>3
  <2>5. Ordered(Append(m, s))
    BY <2>4 DEF Ordered
  <2> QED
    BY <1>1, <1>7, <2>3, <2>5
<1> QED
  BY <1>3, <1>6, <1>7

(* The order is kept by whatever happens to the values.                     *)
LEMMA OrderKept ==
  ASSUME TypeOK, Fresh, OrderInv, RunStep
  PROVE  Ordered(status.meas)' /\ \A k \in 1..Len(log') : Ordered(log'[k].samples)
<1>1. CASE Quiet /\ (Stays \/ Ages)
  BY <1>1 DEF Quiet, records, Stays, Ages, OrderInv, Ordered
<1>2. CASE Alive /\ due = 0 /\ Moves
  <2>1. Ordered(<<>>)
    BY DEF Ordered
  <2>2. status.subPhase \in Measuring => \A f : Ordered(Recorded(f))
    BY <1>2, RecordedInOrder DEF InWindow
  <2>3. ASSUME NEW next, WindowEnds(next), status.subPhase \in Measuring
        PROVE  Ordered(status.meas)' /\ \A k \in 1..Len(log') : Ordered(log'[k].samples)
    <3>1. PICK f :
            /\ log' = Append(log, [rep |-> status.reps + 1, window |-> status.subPhase,
                                   samples |-> Recorded(f)])
            /\ \/ Stays
               \/ Enters(AfterWindow(next), MeasurementDuration,
                         IF AfterWindow(next) = "ChaosMeasurement" THEN <<>> ELSE Recorded(f),
                         status.refs)
      BY <2>3 DEF WindowEnds
    <3> DEFINE entry == [rep |-> status.reps + 1, window |-> status.subPhase,
                         samples |-> Recorded(f)]
    <3>2. entry.samples = Recorded(f) /\ log' = Append(log, entry) /\ log \in Seq(LogEntry)
      BY <3>1 DEF TypeOK
    <3> HIDE DEF entry
    <3>3. Ordered(Recorded(f))
      BY <2>2, <2>3
    <3>4. \A k \in 1..Len(log') : log'[k] = entry \/ (k \in 1..Len(log) /\ log'[k] = log[k])
      BY <3>2
    <3>5. \A k \in 1..Len(log') : Ordered(log'[k].samples)
      BY <3>2, <3>3, <3>4 DEF OrderInv
    <3>6. status'.meas \in {status.meas, <<>>, Recorded(f)}
      BY <3>1 DEF Stays, Enters
    <3>7. Ordered(status.meas)'
      BY <2>1, <3>3, <3>6 DEF OrderInv, Ordered
    <3> QED
      BY <3>5, <3>7
  <2>4. CASE \/ status.subPhase = "PreChaosMeasurement" /\ WindowEnds("ApplyingChaos")
             \/ status.subPhase = "ChaosMeasurement" /\ WindowEnds("Cleanup")
    BY <2>3, <2>4 DEF Measuring
  <2>5. CASE status.subPhase \in Measuring /\ Quiet /\ \E f : Samples(Recorded(f))
    BY <2>2, <2>5 DEF Samples, Quiet, records, OrderInv, Ordered
  <2>6. CASE log' = log /\ status'.meas \in {status.meas, <<>>}
    BY <2>1, <2>6 DEF OrderInv, Ordered
  <2>7. \/ log' = log /\ status'.meas \in {status.meas, <<>>}
        \/ status.subPhase \in Measuring /\ Quiet /\ \E f : Samples(Recorded(f))
        \/ status.subPhase = "PreChaosMeasurement" /\ WindowEnds("ApplyingChaos")
        \/ status.subPhase = "ChaosMeasurement" /\ WindowEnds("Cleanup")
    BY <1>2 DEF Moves, Quiet, records, Ends, Starts, Enters, RepetitionEnds, Stays, Counts
  <2> QED
    BY <2>4, <2>5, <2>6, <2>7
<1> QED
  BY <1>1, <1>2 DEF RunStep

(* What handleMeasurement does to the status and to the queue.              *)
Measured ==
  /\ due = 0 /\ InWindow
  /\ \/ Stays /\ due' = 1 /\ ~OnSampleBoundary
     \/ Stays /\ due' \in {0, 1} /\ OnSampleBoundary /\ ~WindowOver
     \/ Stays /\ due' = 0
     \/ /\ OnSampleBoundary /\ ~WindowOver
        /\ due' = 1 \/ (due' = 0 /\ "lostReply" \in Faults)
        /\ \E f : Samples(Recorded(f))
     \/ due' = 0 /\ status'.age = 0 /\ status'.meas = <<>> /\ status'.subPhase \in Measuring
     \/ ~InWindow'

(* What a measuring handler does to values, log and schedule.               *)
LEMMA MeasuredSteps ==
  ASSUME TypeOK, Fresh, NoStaleReads, NEW s \in Measuring,
         NEW next \in {"ApplyingChaos", "Cleanup"}, HandleMeasurement(s, next)
  PROVE  Measured
<1>1. due = 0 /\ InWindow /\ seen.subPhase \in Measuring
  BY DEF HandleMeasurement, Dispatch, ReconcileDue, InWindow, Alive, Fresh
<1>2. CASE ~OnSampleBoundary /\ due' = 1 /\ UNCHANGED status
  BY <1>1, <1>2 DEF Measured, Stays
<1>3. ASSUME NEW f, NEW p \in Pick(PatchFaults), WindowComplete(f, p, next)
      PROVE  Measured
  <2>1. due' = 0
    BY <1>3, PatchDue DEF WindowComplete, FailExperiment
  <2>2. \/ Stays \/ Ends("Failed")
        \/ Enters(AfterWindow(next), MeasurementDuration,
                  IF AfterWindow(next) = "ChaosMeasurement" THEN <<>> ELSE Recorded(f),
                  status.refs)
    BY <1>1, <1>3, FreshWindow
  <2>3. CASE Stays
    BY <1>1, <2>1, <2>3 DEF Measured
  <2>4. CASE Ends("Failed")
    BY <1>1, <2>4 DEF Measured, Ends, InWindow, Alive, Terminal
  <2>5. CASE Enters(AfterWindow(next), MeasurementDuration,
                    IF AfterWindow(next) = "ChaosMeasurement" THEN <<>> ELSE Recorded(f),
                    status.refs)
    <3>1. AfterWindow(next) \in {"ApplyingChaos", "Cleanup", "ChaosMeasurement"}
      BY DEF AfterWindow
    <3>2. CASE AfterWindow(next) = "ChaosMeasurement"
      BY <1>1, <2>1, <2>5, <3>2 DEF Measured, Enters, Measuring
    <3>3. CASE AfterWindow(next) # "ChaosMeasurement"
      BY <1>1, <2>5, <3>1, <3>3 DEF Measured, Enters, InWindow, Measuring
    <3> QED
      BY <3>2, <3>3
  <2> QED
    BY <2>2, <2>3, <2>4, <2>5
<1>4. ASSUME OnSampleBoundary, ~WindowOver, NEW f, NEW p \in Pick(PatchFaults),
             Patch(p, seen, [seen EXCEPT !.meas = Recorded(f)], 1)
      PROVE  Measured
  <2>1. Recorded(f) \in Seq(Sample)
    BY <1>1, RecordedType
  <2>2. Stays \/ Samples(Recorded(f))
    BY <1>4, <2>1, FreshSample
  <2>3. /\ due' \in {0, 1}
        /\ p = "patchError" => due' = 0 /\ status' = status
        /\ p # "patchError" /\ p # "lostReply" => due' = 1
    BY <1>4, PatchDue
  <2>4. p = "lostReply" => "lostReply" \in Faults
    BY DEF Pick
  <2> QED
    BY <1>1, <1>4, <2>2, <2>3, <2>4 DEF Measured, Stays
<1> QED
  BY <1>2, <1>3, <1>4 DEF HandleMeasurement

(* Every move keeps the samples in order.                                   *)
LEMMA OrderStep ==
  ASSUME Promptly, NoStaleReads, TypeOK, Fresh, RecordsInv, OrderInv, [Next]_vars
  PROVE  OrderInv'
<1>1. SampleTimes'
  <2> SUFFICES ASSUME InWindow'
               PROVE  /\ status'.age \in Nat /\ due' \in Nat
                      /\ \A j \in 1..Len(status'.meas) :
                           status'.meas[j].at < status'.age + due'
    BY DEF SampleTimes
  <2>1. ASSUME InWindow, Stays, due' \in Nat, due <= due'
        PROVE  /\ status'.age \in Nat /\ due' \in Nat
               /\ \A j \in 1..Len(status'.meas) : status'.meas[j].at < status'.age + due'
    <3>1. status.meas \in Seq(Sample)
      BY SeenTypes DEF Fresh
    <3>2. \A j \in 1..Len(status.meas) : status.meas[j].at \in Nat
      BY <3>1, SampleSecond
    <3>3. /\ status.age \in Nat /\ due \in Nat
          /\ \A j \in 1..Len(status.meas) : status.meas[j].at < status.age + due
      BY <2>1 DEF OrderInv, SampleTimes
    <3> QED
      BY <2>1, <3>2, <3>3 DEF Stays
  <2>2. ASSUME status'.age = 0, status'.meas = <<>>, due' = 0
        PROVE  /\ status'.age \in Nat /\ due' \in Nat
               /\ \A j \in 1..Len(status'.meas) : status'.meas[j].at < status'.age + due'
    BY <2>2
  <2>3. ASSUME NEW s \in Measuring, NEW next \in {"ApplyingChaos", "Cleanup"},
               HandleMeasurement(s, next)
        PROVE  /\ status'.age \in Nat /\ due' \in Nat
               /\ \A j \in 1..Len(status'.meas) : status'.meas[j].at < status'.age + due'
    <3>1. Measured
      BY <2>3, MeasuredSteps
    <3>2. due = 0 /\ InWindow
      BY <3>1 DEF Measured
    <3>3. CASE Stays /\ due' \in {0, 1}
      BY <2>1, <3>2, <3>3
    <3>4. CASE due' = 1 /\ \E f : Samples(Recorded(f))
      <4>1. PICK f : Samples(Recorded(f))
        BY <3>4
      <4>2. status'.meas = Recorded(f) /\ status'.age = status.age
        BY <4>1 DEF Samples
      <4>3. Recorded(f) \in Seq(Sample)
        <5>1. seen.subPhase \in Measuring
          BY <3>2 DEF InWindow, Fresh
        <5> QED
          BY <5>1, RecordedType
      <4>4. \A j \in 1..Len(Recorded(f)) : Recorded(f)[j].at \in Nat
        BY <4>3, SampleSecond
      <4>5. status.age \in Nat /\ \A j \in 1..Len(Recorded(f)) : Recorded(f)[j].at <= status.age
        BY <3>2, RecordedInOrder
      <4> HIDE DEF Recorded
      <4> QED
        BY <3>4, <4>2, <4>4, <4>5
    <3>5. CASE due' = 0 /\ status'.age = 0 /\ status'.meas = <<>>
      BY <2>2, <3>5
    <3>6. "lostReply" \notin Faults
      BY DEF Promptly
    <3> QED
      BY <3>1, <3>3, <3>4, <3>5, <3>6 DEF Measured
  <2>4. CASE Tick
    <3>1. /\ status'.age = (IF status.age = None THEN None ELSE status.age + 1)
          /\ status'.meas = status.meas /\ InWindow
      BY <2>4, FreshTick DEF Ages, InWindow, Alive
    <3>2. /\ status.age \in Nat /\ due \in Nat
          /\ \A j \in 1..Len(status.meas) : status.meas[j].at < status.age + due
      BY <3>1 DEF OrderInv, SampleTimes
    <3>3. status'.age = status.age + 1
      BY <3>1, <3>2 DEF None
    <3>4. due' \in Nat /\ status.age + due <= status'.age + due'
      BY <2>4, <3>2, <3>3 DEF Tick
    <3>5. status.meas \in Seq(Sample)
      BY SeenTypes DEF Fresh
    <3>6. \A j \in 1..Len(status.meas) : status.meas[j].at \in Nat
      BY <3>5, SampleSecond
    <3> QED
      BY <3>1, <3>2, <3>3, <3>4, <3>6
  <2>5. CASE Queued
    <3>1. Faults \cap {"restart", "specEdit"} = {}
      BY DEF Promptly
    <3>2. CASE Stays /\ due' = due
      <4>1. InWindow
        BY <3>2 DEF Stays, InWindow, Alive
      <4>2. due \in Nat
        BY <4>1 DEF OrderInv, SampleTimes
      <4> QED
        BY <2>1, <3>2, <4>1, <4>2
    <3> QED
      BY <2>2, <2>5, <3>1, <3>2 DEF Queued
  <2> QED
    BY <2>3, <2>4, <2>5, QueuedSteps
<1>2. Ordered(status.meas)' /\ \A k \in 1..Len(log') : Ordered(log'[k].samples)
  BY OrderKept, RunSteps
<1> QED
  BY <1>1, <1>2 DEF OrderInv, Ordered

LEMMA OrderInit == Init => OrderInv
<1> SUFFICES ASSUME Init PROVE OrderInv
  OBVIOUS
<1>1. status.subPhase \in Idle /\ Len(status.meas) = 0 /\ Len(log) = 0
  BY Apart DEF Init, Created
<1>2. ~InWindow
  BY <1>1, Apart DEF InWindow
<1> QED
  BY <1>1, <1>2 DEF OrderInv, SampleTimes, Ordered

(* Where no answer is lost and nothing but its own schedule queues the      *)
(* object, whatever calls and patches fail, however often the process dies  *)
(* in a reconcile and however late the queue is: within a window no second  *)
(* is sampled twice, and the samples are in order.                          *)
THEOREM SamplesAreOrdered ==
  ASSUME Promptly
  PROVE  Spec => []SamplesOrdered
<1>1. NoStaleReads
  BY DEF Promptly, NoStaleReads
<1>2. TypeOK /\ Fresh /\ RecordsInv /\ OrderInv /\ [Next]_vars => Fresh' /\ RecordsInv' /\ OrderInv'
  BY <1>1, RunSteps, RecordsStep, OrderStep
<1>3. OrderInv => SamplesOrdered
  BY DEF OrderInv, Ordered, SamplesOrdered
<1> QED
  BY <1>2, <1>3, FreshInit, RecordsInit, OrderInit, TypeCorrect, PTL DEF Spec

-----------------------------------------------------------------------------
(* The length of a window, whatever fails.  The next reconcile comes no     *)
(* later than the first sample boundary after the window's duration, plus   *)
(* one sample interval for each failure so far: a late second can miss a    *)
(* boundary, and then the next one is a sample interval away.               *)

LEMMA Distributes ==
  ASSUME NEW i \in Int, NEW a \in Int, NEW b \in Int
  PROVE  i * (a + b) = i * a + i * b
OBVIOUS

LEMMA Monotone ==
  ASSUME NEW i \in Nat, NEW a \in Int, NEW b \in Int, a <= b
  PROVE  i * a <= i * b
OBVIOUS

LEMMA Multiple ==
  ASSUME NEW i \in Nat \ {0}, NEW k \in Nat
  PROVE  (i * k) % i = 0
OBVIOUS

(* The first multiple of the interval at or after a duration.               *)
LEMMA NextBoundary ==
  ASSUME NEW i \in Nat \ {0}, NEW d \in Nat
  PROVE  \E n \in Nat : d <= i * n /\ i * n <= d + i - 1
<1> DEFINE e == d + i - 1
           q == e \div i
<1>1. e \in Nat
  OBVIOUS
<1> HIDE DEF e
<1>2. q \in Nat /\ i * q <= e /\ e < i * q + i
  BY <1>1
<1> HIDE DEF q
<1>3. i * q \in Nat
  BY <1>2
<1>4. d <= i * q /\ i * q <= d + i - 1
  BY <1>2, <1>3 DEF e
<1> QED
  BY <1>2, <1>4

LEMMA Spent ==
  ASSUME NEW f \in Nat, NEW b \in Nat, NEW c \in Nat, c <= b, b <= f
  PROVE  c <= f /\ f - b \in Nat /\ f - c \in Nat /\ f - b <= f - c
OBVIOUS

(* Off a sample boundary the next one is at least a second away.            *)
LEMMA OffBoundary ==
  ASSUME NEW i \in Nat \ {0}, NEW k \in Nat, NEW a \in Nat, a % i # 0, a <= i * k
  PROVE  a + 1 <= i * k
<1>1. a # i * k
  BY Multiple
<1>2. i * k \in Nat
  OBVIOUS
<1> QED
  BY <1>1, <1>2

(* n sample intervals reach the duration; the object comes at second a + d, *)
(* at most one interval later for each of the failures.                     *)
Within(n, a, d, duration, failures) ==
  /\ duration <= SampleInterval * n
  /\ SampleInterval * n <= duration + SampleInterval - 1
  /\ a + d <= SampleInterval * (n + failures)

WindowInv ==
  /\ budget <= FaultBudget
  /\ InWindow =>
       /\ status.age \in Nat /\ due \in Nat
       /\ \E n \in Nat : Within(n, status.age, due, status.duration, FaultBudget - budget)

LEMMA IntervalType == SampleInterval \in Nat \ {0} /\ FaultBudget \in Nat
BY ExperimentAssumption

(* The windows' lengths: what Within says of the age alone.                 *)
LEMMA WithinBound ==
  ASSUME NEW n \in Nat, NEW a \in Nat, NEW d \in Nat, NEW duration \in Nat, NEW k \in Nat,
         Within(n, a, d, duration, k)
  PROVE  a <= duration + SampleInterval * (1 + k) - 1
<1> DEFINE si == SampleInterval
<1>1. si \in Nat
  BY IntervalType
<1>2. si * (n + k) = si * n + si * k /\ si * (1 + k) = si * 1 + si * k
  BY <1>1, Distributes
<1>3. si * n \in Nat /\ si * k \in Nat /\ si * 1 = si
  BY <1>1
<1>4. a + d <= si * (n + k) /\ si * n <= duration + si - 1
  BY DEF Within
<1> HIDE DEF si
<1>5. a <= duration + si * (1 + k) - 1
  <2> DEFINE x == si * n
             y == si * k
             z == si * (n + k)
             w == si * (1 + k)
  <2>1. z = x + y /\ w = si + y /\ x \in Nat /\ y \in Nat /\ a + d <= z /\ x <= duration + si - 1
    BY <1>2, <1>3, <1>4
  <2> HIDE DEF x, y, z, w
  <2>2. a <= duration + w - 1
    BY <1>1, <2>1
  <2> QED
    BY <2>2 DEF w
<1> QED
  BY <1>5 DEF si

(* More failures allow more time, and less time is always within.           *)
LEMMA WithinLess ==
  ASSUME NEW n \in Nat, NEW a \in Nat, NEW d \in Nat, NEW duration \in Nat, NEW k \in Nat,
         Within(n, a, d, duration, k), NEW b \in Nat, NEW e \in Nat, NEW l \in Nat,
         b + e <= a + d, k <= l
  PROVE  Within(n, b, e, duration, l)
<1> DEFINE x == SampleInterval * (n + k)
           y == SampleInterval * (n + l)
<1>1. x <= y /\ x \in Nat /\ y \in Nat
  BY IntervalType, Monotone
<1>2. a + d <= x
  BY DEF Within
<1> HIDE DEF x, y
<1>3. b + e <= y
  BY <1>1, <1>2
<1> QED
  BY <1>3 DEF Within, y

(* A second is waited for where no sample is due or the window is not over. *)
LEMMA WithinSecond ==
  ASSUME NEW n \in Nat, NEW a \in Nat, NEW duration \in Nat, NEW k \in Nat,
         Within(n, a, 0, duration, k), a % SampleInterval # 0 \/ a < duration
  PROVE  Within(n, a, 1, duration, k)
<1> DEFINE x == SampleInterval * n
           y == SampleInterval * (n + k)
<1>1. x <= y /\ x \in Nat /\ y \in Nat
  BY IntervalType, Monotone
<1>2. a <= y /\ duration <= x
  BY <1>1 DEF Within
<1>3. CASE a % SampleInterval # 0
  <2>1. n + k \in Nat /\ SampleInterval \in Nat \ {0}
    BY IntervalType
  <2>2. a + 1 <= SampleInterval * (n + k)
    BY <1>2, <1>3, <2>1, OffBoundary
  <2> QED
    BY <2>2 DEF Within
<1>4. CASE a < duration
  <2> HIDE DEF x, y
  <2>1. a + 1 <= y
    BY <1>1, <1>2, <1>4
  <2> QED
    BY <2>1 DEF Within, y
<1> QED
  BY <1>3, <1>4

(* A second that comes late is one of the failures.                         *)
LEMMA WithinLate ==
  ASSUME NEW n \in Nat, NEW a \in Nat, NEW duration \in Nat, NEW k \in Nat,
         Within(n, a, 0, duration, k)
  PROVE  Within(n, a + 1, 0, duration, k + 1)
<1> DEFINE x == SampleInterval * (n + k)
           y == SampleInterval * (n + (k + 1))
<1>1. n + (k + 1) = (n + k) + 1 /\ n + k \in Int
  OBVIOUS
<1>2. SampleInterval * ((n + k) + 1) = x + SampleInterval * 1
  BY <1>1, IntervalType, Distributes
<1>3. SampleInterval * 1 = SampleInterval
  BY IntervalType
<1>4. y = x + SampleInterval
  BY <1>1, <1>2, <1>3
<1>5. a <= x /\ x \in Nat
  BY IntervalType DEF Within
<1> HIDE DEF x, y
<1>6. (a + 1) + 0 <= y
  BY <1>4, <1>5, IntervalType
<1> QED
  BY <1>6 DEF Within, y

(* Every move keeps the window within its bound.                            *)
LEMMA WindowStep ==
  ASSUME NoStaleReads, TypeOK, TypeOK', Fresh, RecordsInv, WindowInv, [Next]_vars
  PROVE  WindowInv'
<1> DEFINE failures == FaultBudget - budget
<1>1. /\ budget \in Nat /\ budget' \in Nat /\ budget' <= budget
      /\ status.duration \in Nat /\ status'.duration \in Nat
  BY BudgetStep DEF TypeOK, Status
<1>2. /\ failures \in Nat /\ budget' <= FaultBudget /\ FaultBudget - budget' \in Nat
      /\ failures <= FaultBudget - budget'
  <2>1. budget <= FaultBudget
    BY DEF WindowInv
  <2> QED
    BY <1>1, <2>1, IntervalType, Spent
<1> SUFFICES ASSUME InWindow'
             PROVE  /\ status'.age \in Nat /\ due' \in Nat
                    /\ \E n \in Nat : Within(n, status'.age, due', status'.duration,
                                             FaultBudget - budget')
  BY <1>2 DEF WindowInv
<1>3. ASSUME InWindow
      PROVE  /\ status.age \in Nat /\ due \in Nat
             /\ \E n \in Nat : Within(n, status.age, due, status.duration, failures)
  BY <1>3 DEF WindowInv
<1> HIDE DEF failures
<1>4. CASE status'.age = 0 /\ due' = 0
  <2>1. PICK n \in Nat : /\ status'.duration <= SampleInterval * n
                         /\ SampleInterval * n <= status'.duration + SampleInterval - 1
    <3>1. \A d \in Nat : \E n \in Nat : /\ d <= SampleInterval * n
                                       /\ SampleInterval * n <= d + SampleInterval - 1
      BY IntervalType, NextBoundary
    <3> QED
      BY <1>1, <3>1
  <2>2. 0 + 0 <= SampleInterval * (n + (FaultBudget - budget'))
    BY <1>2, IntervalType
  <2>3. Within(n, 0, 0, status'.duration, FaultBudget - budget')
    BY <2>1, <2>2 DEF Within
  <2> QED
    BY <1>4, <2>3
<1>5. ASSUME InWindow, status'.age \in Nat, due' \in Nat, status'.duration = status.duration,
             status'.age + due' <= status.age + due
      PROVE  \E n \in Nat : Within(n, status'.age, due', status'.duration, FaultBudget - budget')
  BY <1>1, <1>2, <1>3, <1>5, WithinLess
<1>6. ASSUME InWindow, due = 0, due' = 1, status'.age = status.age,
             status'.duration = status.duration, ~OnSampleBoundary \/ ~WindowOver
      PROVE  \E n \in Nat : Within(n, status'.age, due', status'.duration, FaultBudget - budget')
  <2>1. PICK n \in Nat : Within(n, status.age, 0, status.duration, failures)
    BY <1>2, <1>3, <1>6
  <2>2. ElapsedSeconds = status.age /\ seen.duration = status.duration
    BY <1>2, <1>3, <1>6 DEF ElapsedSeconds, Fresh, None
  <2>3. status.age % SampleInterval # 0 \/ status.age < status.duration
    BY <1>1, <1>2, <1>3, <1>6, <2>2 DEF OnSampleBoundary, WindowOver
  <2>4. Within(n, status.age, 1, status.duration, failures)
    BY <1>1, <1>2, <1>3, <1>6, <2>1, <2>3, WithinSecond
  <2>5. Within(n, status.age, 1, status.duration, FaultBudget - budget')
    <3>1. status.age \in Nat /\ status.age + 1 <= status.age + 1
      BY <1>3, <1>6
    <3> HIDE DEF Within
    <3> QED
      BY <1>1, <1>2, <2>4, <3>1, WithinLess
  <2> QED
    BY <1>3, <1>6, <2>5
<1>7. ASSUME NEW s \in Measuring, NEW next \in {"ApplyingChaos", "Cleanup"},
             HandleMeasurement(s, next)
      PROVE  /\ status'.age \in Nat /\ due' \in Nat
             /\ \E n \in Nat : Within(n, status'.age, due', status'.duration,
                                      FaultBudget - budget')
  <2>1. Measured
    BY <1>7, MeasuredSteps
  <2>2. due = 0 /\ InWindow
    BY <2>1 DEF Measured
  <2>3. CASE Stays /\ due' = 0
    BY <1>2, <1>3, <1>5, <2>2, <2>3 DEF Stays
  <2>4. CASE Stays /\ due' = 1 /\ (~OnSampleBoundary \/ ~WindowOver)
    BY <1>2, <1>3, <1>6, <2>2, <2>4 DEF Stays
  <2>5. CASE ~WindowOver /\ due' \in {0, 1} /\ \E f : Samples(Recorded(f))
    <3>1. status'.age = status.age /\ status'.duration = status.duration
      BY <2>5 DEF Samples
    <3>2. CASE due' = 0
      BY <1>2, <1>3, <1>5, <2>2, <3>1, <3>2
    <3>3. CASE due' = 1
      BY <1>2, <1>3, <1>6, <2>2, <2>5, <3>1, <3>3
    <3> QED
      BY <2>5, <3>2, <3>3
  <2>6. CASE due' = 0 /\ status'.age = 0
    BY <1>2, <1>4, <2>2, <2>6
  <2> QED
    BY <2>1, <2>3, <2>4, <2>5, <2>6 DEF Measured
<1>8. CASE Tick
  <2>1. /\ status'.age = (IF status.age = None THEN None ELSE status.age + 1)
        /\ status'.duration = status.duration /\ InWindow
    BY <1>8, FreshTick DEF Ages, InWindow, Alive
  <2>2. status'.age = status.age + 1
    BY <1>2, <1>3, <2>1 DEF None
  <2>3. CASE due > 0 /\ due' = due - 1
    BY <1>2, <1>3, <1>5, <2>1, <2>2, <2>3
  <2>4. CASE due = 0 /\ due' = 0 /\ Spend("lateRun", "none")
    <3>1. PICK n \in Nat : Within(n, status.age, 0, status.duration, failures)
      BY <1>2, <1>3, <2>1, <2>4
    <3>2. Within(n, status.age + 1, 0, status.duration, failures + 1)
      BY <1>1, <1>2, <1>3, <2>1, <3>1, WithinLate
    <3>3. budget' = budget - 1
      BY <1>1, <2>4 DEF Spend
    <3>4. FaultBudget - budget' = failures + 1
      BY <1>1, <3>3, IntervalType DEF failures
    <3> QED
      BY <1>2, <1>3, <2>1, <2>2, <2>4, <3>2, <3>4
  <2> QED
    BY <1>8, <2>3, <2>4 DEF Tick
<1>9. CASE Queued
  <2>1. CASE Stays /\ (due' = due \/ due' = 0)
    <3>1. InWindow
      BY <2>1 DEF Stays, InWindow, Alive
    <3>2. status'.age = status.age /\ status'.duration = status.duration
      BY <2>1 DEF Stays
    <3> QED
      BY <1>2, <1>3, <1>5, <2>1, <3>1, <3>2
  <2>2. CASE status'.age = 0 /\ due' = 0
    BY <1>4, <2>2
  <2> QED
    BY <1>9, <2>1, <2>2 DEF Queued
<1> QED
  BY <1>7, <1>8, <1>9, QueuedSteps

LEMMA WindowInit == Init => WindowInv
<1> SUFFICES ASSUME Init PROVE WindowInv
  OBVIOUS
<1>1. status.subPhase \in Idle /\ budget = FaultBudget
  BY Apart DEF Init, Created
<1>2. ~InWindow
  BY <1>1, Apart DEF InWindow
<1> QED
  BY <1>1, <1>2, IntervalType DEF WindowInv

LEMMA WindowInvBound == TypeOK /\ WindowInv => WindowBounded
<1> SUFFICES ASSUME TypeOK, WindowInv, status.subPhase \in Measuring, status.phase = "Running"
             PROVE  status.age <= status.duration
                                  + SampleInterval * (1 + FaultBudget - budget) - 1
  BY DEF WindowBounded
<1>1. InWindow
  BY DEF InWindow, Alive, Terminal
<1>2. budget \in Nat /\ status.duration \in Nat
  BY DEF TypeOK, Status
<1>3. budget <= FaultBudget
  BY DEF WindowInv
<1>4. FaultBudget - budget \in Nat
  BY <1>2, <1>3, IntervalType, Spent
<1>5. PICK n \in Nat : Within(n, status.age, due, status.duration, FaultBudget - budget)
  BY <1>1 DEF WindowInv
<1>6. status.age \in Nat /\ due \in Nat
  BY <1>1 DEF WindowInv
<1>7. status.age <= status.duration + SampleInterval * (1 + (FaultBudget - budget)) - 1
  BY <1>2, <1>4, <1>5, <1>6, WithinBound
<1>8. 1 + (FaultBudget - budget) = 1 + FaultBudget - budget
  BY <1>2, IntervalType
<1> QED
  BY <1>7, <1>8

(* Without stale reads, whatever fails and however late the queue is: a     *)
(* window ends at the first sample boundary after its duration, at most one *)
(* sample interval later for each failure.                                  *)
THEOREM WindowsAreBounded ==
  ASSUME NoStaleReads
  PROVE  Spec => []WindowBounded
<1>1. TypeOK /\ TypeOK' /\ Fresh /\ RecordsInv /\ WindowInv /\ [Next]_vars
        => Fresh' /\ RecordsInv' /\ WindowInv'
  BY RunSteps, RecordsStep, WindowStep
<1> QED
  BY <1>1, WindowInvBound, FreshInit, RecordsInit, WindowInit, TypeCorrect, PTL DEF Spec

=============================================================================
