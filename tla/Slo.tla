-------------------------------- MODULE Slo --------------------------------
(* The scoring of service level objectives: what a measurement window of    *)
(* the experiment controller makes of the SLI values Prometheus returns     *)
(* (handleMeasurement, recordMeasurement, recordMeasurementAggregate,       *)
(* buildRepetitionResult).  Windows, restarts and lost replies are the      *)
(* subject of Experiment; here the handler runs at most once a second, or   *)
(* again in the same second when its patch has failed.                      *)
(* Values are integers and a score is a fraction <<numerator, denominator>>, *)
(* so that nothing is lost to rounding.                                     *)
EXTENDS Integers, Sequences, FiniteSets, FiniteSetsExt, SequencesExt

CONSTANTS
  SLOs,            \* spec.slos: a sequence of records [name, threshold,
                   \* isBiggerBetter, weight], the weight in percent
  Values,          \* the SLI values a query may return
  NaN,             \* 0/0 in PromQL: a float that JSON cannot represent
  Missing,         \* the query failed or returned nothing
  SampleInterval,  \* spec.duration.measurementSampleInterval
  Duration,        \* the length of a window in seconds
  MaxSeconds       \* bound: seconds that a window lasts

ASSUME SloAssumption ==
  /\ SLOs \in Seq([name : STRING, threshold : Int, isBiggerBetter : BOOLEAN, weight : 0..100])
  /\ Values \subseteq Int
  /\ NaN \notin Values /\ Missing \notin Values
  /\ SampleInterval \in Nat \ {0}
  /\ Duration \in Nat /\ MaxSeconds \in Nat

VARIABLES
  state,    \* status.measurementState, one record for each SLO
  elapsed,  \* the second of the window in which the next reconcile runs
  over      \* the last sample of the window is in the state

vars == <<state, elapsed, over>>

Indices == 1..Len(SLOs)

Empty == [sum |-> 0, count |-> 0, violations |-> 0, min |-> 0, max |-> 0, minSet |-> FALSE,
          values |-> <<>>]

Init == state = [i \in Indices |-> Empty] /\ elapsed = 0 /\ over = FALSE

-----------------------------------------------------------------------------
(* recordMeasurement.                                                       *)

Violates(slo, value) ==
  IF slo.isBiggerBetter THEN value < slo.threshold ELSE value > slo.threshold

(* Mutant of Record: the minimum starts at 0.                               *)
RecordMinFromZero(s, slo, value) ==
  [sum |-> s.sum + value, count |-> s.count + 1,
   violations |-> s.violations + (IF Violates(slo, value) THEN 1 ELSE 0),
   min |-> IF value < s.min THEN value ELSE s.min, max |-> IF value > s.max THEN value ELSE s.max,
   minSet |-> TRUE, values |-> Append(s.values, value)]

Record(s, slo, value) ==
  [sum |-> s.sum + value, count |-> s.count + 1,
   violations |-> s.violations + (IF Violates(slo, value) THEN 1 ELSE 0),
   min |-> IF ~s.minSet \/ value < s.min THEN value ELSE s.min,
   max |-> IF value > s.max THEN value ELSE s.max,
   minSet |-> TRUE, values |-> Append(s.values, value)]

(* What a query comes back with.                                            *)
Answers == Values \cup {NaN, Missing}

OnBoundary == elapsed % SampleInterval = 0

(* The requeue after one second, which a busy queue may hand out late.      *)
Later == elapsed' \in (elapsed + 1)..MaxSeconds

(* A reconcile off the sample boundaries queries nothing.                   *)
Skip ==
  /\ ~over /\ ~OnBoundary
  /\ Later
  /\ UNCHANGED <<state, over>>

(* One query for each SLO.  A window ends on the first boundary at which    *)
(* its duration has passed.                                                 *)
Evaluate ==
  /\ ~over /\ OnBoundary
  /\ \E answer \in [Indices -> Answers] :
       /\ \A i \in Indices : answer[i] # NaN
       /\ state' = [i \in Indices |-> IF answer[i] = Missing THEN state[i]
                                       ELSE Record(state[i], SLOs[i], answer[i])]
  /\ IF elapsed >= Duration THEN over' = TRUE /\ UNCHANGED elapsed ELSE Later /\ UNCHANGED over

(* A NaN among the answers makes the status patch fail: what the other      *)
(* queries returned is lost with it and the handler is retried at once or   *)
(* later, as often as a NaN comes back.                                     *)
NotANumber ==
  /\ ~over /\ OnBoundary
  /\ \E answer \in [Indices -> Answers] : \E i \in Indices : answer[i] = NaN
  /\ UNCHANGED elapsed \/ Later
  /\ UNCHANGED <<state, over>>

(* The next window begins with a cleared state.                             *)
NextWindow ==
  /\ over
  /\ state' = [i \in Indices |-> Empty]
  /\ elapsed' = 0 /\ over' = FALSE

Next == Skip \/ Evaluate \/ NotANumber \/ NextWindow

Spec == Init /\ [][Next]_vars

-----------------------------------------------------------------------------
(* buildRepetitionResult.                                                   *)

(* sloByName: of several SLOs with one name the last one is found.          *)
SloByName(name) == SLOs[Max({i \in Indices : SLOs[i].name = name})]

(* Mutant of ViolationScore: the fraction is the wrong way up.              *)
ViolationScoreInverted(i) ==
  LET slo == SloByName(SLOs[i].name)
      sum == state[i].sum
      allowed == slo.threshold * state[i].count
  IN  CASE state[i].count > 0 /\ slo.isBiggerBetter /\ sum < allowed -> <<allowed - sum, sum>>
        [] state[i].count > 0 /\ ~slo.isBiggerBetter /\ sum > allowed -> <<sum - allowed, allowed>>
        [] OTHER -> <<0, 1>>
(* Mutant of ViolationScore: the direction is ignored.                      *)
ViolationScoreUndirected(i) ==
  LET slo == SloByName(SLOs[i].name)
      sum == state[i].sum
      allowed == slo.threshold * state[i].count
  IN  IF sum > allowed THEN <<sum - allowed, sum>>
      ELSE IF sum < allowed THEN <<allowed - sum, allowed>> ELSE <<0, 1>>

(* 1 - mean/threshold or 1 - threshold/mean where the mean violates the     *)
(* threshold, with mean = sum/count.                                        *)
ViolationScore(i) ==
  LET slo == SloByName(SLOs[i].name)
      sum == state[i].sum
      allowed == slo.threshold * state[i].count
  IN  CASE state[i].count > 0 /\ slo.isBiggerBetter /\ sum < allowed -> <<allowed - sum, allowed>>
        [] state[i].count > 0 /\ ~slo.isBiggerBetter /\ sum > allowed -> <<sum - allowed, sum>>
        [] OTHER -> <<0, 1>>

Plus(a, b) == <<a[1] * b[2] + b[1] * a[2], a[2] * b[2]>>

Weighted(i) ==
  <<ViolationScore(i)[1] * SloByName(SLOs[i].name).weight, ViolationScore(i)[2] * 100>>

AggregateScore ==
  FoldLeft(LAMBDA total, i : Plus(total, Weighted(i)), <<0, 1>>, [i \in Indices |-> i])

-----------------------------------------------------------------------------
(* Properties.                                                              *)

(* The running aggregates are those of the values that are written to the   *)
(* measurements ConfigMap; the maximum starts from 0, so negative values    *)
(* do not show in it.  And they are of no more than these: one value at     *)
(* most for each sample boundary the window has passed, for between two     *)
(* boundaries nothing is queried.  "Aggregates (mean, min, max, violations) *)
(* are always computed from every measurement regardless of this setting"   *)
(* (experiment_types.go:60-61) says otherwise, and so do the comments of    *)
(* recordMeasurementAggregate and recordMeasurement.                        *)
AggregatesMatchValues ==
  \A i \in Indices :
    LET s == state[i]
        vs == s.values
    IN  /\ s.count = Len(vs)
        /\ s.sum = FoldLeft(LAMBDA a, b : a + b, 0, vs)
        /\ s.minSet <=> vs # <<>>
        /\ vs # <<>> => s.min = Min(ToSet(vs))
        /\ s.max = Max({0} \cup ToSet(vs))
        /\ s.violations = Cardinality({k \in DOMAIN vs : Violates(SLOs[i], vs[k])})
        /\ vs # <<>> => (s.count - 1) * SampleInterval <= (IF over THEN elapsed ELSE elapsed - 1)

InUnit(f) == f[2] > 0 /\ 0 <= f[1] /\ f[1] <= f[2]

(* "Normalized violation score [0, 1]" (experiment_types.go), and with      *)
(* weights that sum to at most one the aggregate is normalised too.         *)
ScoreNormalised == InUnit(AggregateScore) /\ \A i \in Indices : InUnit(ViolationScore(i))

(* An SLO none of whose values violated the threshold scores 0: the         *)
(* direction in which the mean is judged is that of the single values.      *)
NoScoreWithoutViolation ==
  \A i \in Indices : state[i].violations = 0 => ViolationScore(i)[1] = 0

=============================================================================
