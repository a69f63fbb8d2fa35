-------------------------- MODULE OutlierDetection --------------------------
(* The outlier detection pipeline, a system under test: a Flink job that    *)
(* mines a process model from every window of events and scores the events  *)
(* of the next window against it.  Discovery and scoring are tasks of their *)
(* own, connected by streams that keep their order and have no order among  *)
(* each other; scoring is spread over shards of cases.                      *)
(* Events are numbered in the order of the topic, from 0, as in             *)
(* ParseKafkaEvent; every message is taken to be well formed.  A list of    *)
(* events of one case is in that order throughout and is kept as a set.     *)
EXTENDS Integers, Sequences, FiniteSets

CONSTANTS
  WindowSize,   \* DISCOVERY_WINDOW_SIZE
  Width,        \* the bucket width of lossy counting, 1 / max_approx_error
  Activities,   \* names of activities
  Cases,        \* case identifiers
  Shards,       \* the keys of the scoring task
  ShardOf,      \* _get_case_shard
  MaxEvents     \* bound: messages in the topic

ASSUME OutlierAssumption ==
  /\ WindowSize \in Nat \ {0}
  /\ Width \in Nat \ {0}
  /\ ShardOf \in [Cases -> Shards]
  /\ MaxEvents \in Nat

VARIABLES
  read,       \* the number of the next event
  window,     \* activities on their way to, or in, the count window
  mined,      \* windows the discovery has completed
  updates,    \* models it has emitted
  inbox,      \* events on their way to the scoring task
  trace,      \* history: the events of each case that are to be scored
  known,      \* broadcast state of each shard: models it has received
  pending,    \* for each case the events that wait for their model
  processed,  \* and those that have been scored
  out,        \* scores on their way to the collector
  latest,     \* the collector's latest score of each case, if any
  fresh       \* history: models a shard has received since its last event

vars == <<read, window, mined, updates, inbox, trace, known, pending, processed, out, latest, fresh>>

discoveryVars == <<window, mined, updates>>
scoringVars == <<known, pending, processed, fresh>>

(* The window an event belongs to is the version of the model it waits for. *)
Version(e) == e \div WindowSize

(* A model: its version and the window it was mined from.                   *)
Model == [version : Nat, learnt : Nat]

(* A score: the event, the window its model was mined from, and the events  *)
(* of the case that the alignment is about.                                 *)
Score == [case : Cases, event : Nat, learnt : Nat, prefix : SUBSET Nat]

Init ==
  /\ read = 0 /\ window = <<>> /\ mined = 0 /\ updates = {} /\ inbox = {}
  /\ trace = [c \in Cases |-> {}]
  /\ known = [s \in Shards |-> {}]
  /\ pending = [c \in Cases |-> {}]
  /\ processed = [c \in Cases |-> {}]
  /\ out = {}
  /\ latest = [c \in Cases |-> {}]
  /\ fresh = [s \in Shards |-> {}]

-----------------------------------------------------------------------------
(* Reading.                                                                 *)

Accepted(c, e) ==
  /\ inbox' = inbox \cup {e}
  /\ trace' = [trace EXCEPT ![c] = @ \cup {e}]

(* Every event is for the discovery; those of the first window, for which   *)
(* there is no model, are not scored.                                       *)
Split(c, a) ==
  /\ window' = Append(window, a)
  /\ IF Version(read) > 0 THEN Accepted(c, read) ELSE UNCHANGED <<inbox, trace>>

Read ==
  /\ read < MaxEvents
  /\ read' = read + 1
  /\ \E c \in Cases, a \in Activities : Split(c, a)
  /\ UNCHANGED <<mined, updates, scoringVars, out, latest>>

-----------------------------------------------------------------------------
(* Discovery: lossy counting of the activities of a window.                 *)

Bucket(k) == (k + Width - 1) \div Width

Unseen == [n |-> 0, delta |-> 0]

Pruned(counts, bucket) ==
  [a \in Activities |-> IF counts[a].n + counts[a].delta > bucket THEN counts[a] ELSE Unseen]

(* Mutant of Entered: the error of a new entry is one too large.            *)
EnteredLate(entry, k) ==
  IF entry.n > 0 THEN [entry EXCEPT !.n = @ + 1] ELSE [n |-> 1, delta |-> Bucket(k)]

(* An entry of the counts when its activity is the k-th of the window.      *)
Entered(entry, k) ==
  IF entry.n > 0 THEN [entry EXCEPT !.n = @ + 1] ELSE [n |-> 1, delta |-> Bucket(k) - 1]

(* The counts when a is the k-th activity; k ends a bucket or not.          *)
Tallied(counts, a, k) ==
  LET tally == [counts EXCEPT ![a] = Entered(@, k)]
  IN  IF k % Width = 0 THEN Pruned(tally, Bucket(k)) ELSE tally

Counts(acts) ==
  LET after[k \in 0 .. Len(acts)] ==
        IF k = 0 THEN [a \in Activities |-> Unseen] ELSE Tallied(after[k - 1], acts[k], k)
  IN  after[Len(acts)]

Retained(acts) ==
  LET counts == Pruned(Counts(acts), Bucket(Len(acts))) IN {a \in Activities : counts[a].n > 0}

(* Mutant of Discovered: the model is given the version of its own window.  *)
DiscoveredOwn(w) == [version |-> w, learnt |-> w]

(* The last event of window w has the number (w + 1) * WindowSize - 1.      *)
Discovered(w) == [version |-> Version((w + 1) * WindowSize - 1) + 1, learnt |-> w]

(* Mutant of Mine: what has come in after the window goes with it.          *)
MineClears ==
  /\ Len(window) >= WindowSize
  /\ window' = <<>>
  /\ mined' = mined + 1
  /\ updates' = IF Retained(SubSeq(window, 1, WindowSize)) = {} THEN updates
                ELSE updates \cup {Discovered(mined)}
  /\ UNCHANGED <<read, inbox, trace, scoringVars, out, latest>>

(* A window that no activity survives yields no model.                      *)
Mine ==
  /\ Len(window) >= WindowSize
  /\ window' = SubSeq(window, WindowSize + 1, Len(window))
  /\ mined' = mined + 1
  /\ updates' = IF Retained(SubSeq(window, 1, WindowSize)) = {} THEN updates
                ELSE updates \cup {Discovered(mined)}
  /\ UNCHANGED <<read, inbox, trace, scoringVars, out, latest>>

-----------------------------------------------------------------------------
(* Scoring.                                                                 *)

(* process_broadcast_element: a model is kept, and no event is looked at.   *)
Learn(s) ==
  /\ \E u \in updates \ known[s] :
       /\ \A v \in updates \ known[s] : u.version <= v.version
       /\ known' = [known EXCEPT ![s] = @ \cup {u}]
       /\ fresh' = [fresh EXCEPT ![s] = @ \cup {u.version}]
  /\ UNCHANGED <<read, discoveryVars, inbox, trace, pending, processed, out, latest>>

Versions(s) == {u.version : u \in known[s]}

(* Mutant of Scorable: an event without its model is passed over.           *)
ScorableAny(s, events) == {i \in events : Version(i) \in Versions(s)}

(* _reprocess_pending_events: in order, up to the first without its model.  *)
Scorable(s, events) ==
  {i \in events : \A j \in events : j <= i => Version(j) \in Versions(s)}

(* Mutant of Reprocessed: only the case of the event is looked at.          *)
ReprocessedOne(c, d, events) == IF d = c THEN Scorable(ShardOf[c], events) ELSE {}

(* Which of the events that wait in case d are scored when one of case c    *)
(* has come: every case of the shard is looked at.                          *)
Reprocessed(c, d, events) ==
  IF ShardOf[d] = ShardOf[c] THEN Scorable(ShardOf[c], events) ELSE {}

(* The trace that is aligned: what was scored before, and the event.        *)
ScoresOf(d, done, model) ==
  { [case |-> d, event |-> i, learnt |-> model.learnt,
     prefix |-> processed[d] \cup {j \in done : j <= i}] :
    i \in {i \in done : Version(i) = model.version} }

(* process_element.                                                         *)
Conform(c, e) ==
  LET arrived == [pending EXCEPT ![c] = @ \cup {e}]
      done == [d \in Cases |-> Reprocessed(c, d, arrived[d])]
  IN
  /\ e \in inbox \cap trace[c]
  /\ \A d \in Cases : ShardOf[d] = ShardOf[c] => \A i \in inbox \cap trace[d] : e <= i
  /\ inbox' = inbox \ {e}
  /\ pending' = [d \in Cases |-> arrived[d] \ done[d]]
  /\ processed' = [d \in Cases |-> processed[d] \cup done[d]]
  /\ out' = out \cup UNION {ScoresOf(d, done[d], model) : d \in Cases, model \in known[ShardOf[c]]}
  /\ fresh' = [fresh EXCEPT ![ShardOf[c]] = {}]
  /\ UNCHANGED <<read, discoveryVars, trace, known, latest>>

(* Mutant of Collect: put only if there is no score of the case yet.        *)
CollectFirst(r) ==
  /\ r \in out
  /\ \A other \in out : other.case = r.case => r.event <= other.event
  /\ out' = out \ {r}
  /\ latest' = [latest EXCEPT ![r.case] = IF latest[r.case] = {} THEN {r} ELSE latest[r.case]]
  /\ UNCHANGED <<read, discoveryVars, inbox, trace, scoringVars>>

(* CollectLatestScoresOperator: the scores of a case come from one shard,   *)
(* in order.                                                                *)
Collect(r) ==
  /\ r \in out
  /\ \A other \in out : other.case = r.case => r.event <= other.event
  /\ out' = out \ {r}
  /\ latest' = [latest EXCEPT ![r.case] = {r}]
  /\ UNCHANGED <<read, discoveryVars, inbox, trace, scoringVars>>

(* The topic has no more messages, and the tasks are idle.                  *)
Quiet ==
  /\ read = MaxEvents /\ Len(window) < WindowSize /\ inbox = {} /\ out = {}
  /\ \A s \in Shards : known[s] = updates
  /\ UNCHANGED vars

ConformNext(s) == \E c \in Cases : ShardOf[c] = s /\ \E e \in inbox : Conform(c, e)

Next ==
  \/ Read \/ Mine
  \/ \E s \in Shards : Learn(s) \/ ConformNext(s)
  \/ \E r \in out : Collect(r)
  \/ Quiet

Spec == Init /\ [][Next]_vars

(* The tasks of the job run on.  Nothing is assumed of the topic.           *)
FairSpec ==
  /\ Spec
  /\ WF_vars(Mine)
  /\ \A s \in Shards : WF_vars(Learn(s)) /\ WF_vars(ConformNext(s))

-----------------------------------------------------------------------------
(* Properties.                                                              *)

(* The events that are to be scored.                                        *)
Scored == WindowSize .. read - 1

Scores == out \cup UNION {latest[c] : c \in Cases}

TypeOK ==
  /\ read \in Nat
  /\ window \in Seq(Activities)
  /\ mined \in Nat
  /\ updates \subseteq Model
  /\ inbox \subseteq Scored
  /\ trace \in [Cases -> SUBSET Scored]
  /\ known \in [Shards -> SUBSET updates]
  /\ pending \in [Cases -> SUBSET Scored]
  /\ processed \in [Cases -> SUBSET Scored]
  /\ out \subseteq Score
  /\ latest \in [Cases -> SUBSET Score]
  /\ fresh \in [Shards -> SUBSET Nat]

(* A score is about the whole trace of the case up to the event: however    *)
(* models and events overtake each other, no event of the case is passed    *)
(* over or counted before its turn.                                         *)
ScoredInTurn == \A r \in Scores : r.prefix = {i \in trace[r.case] : i <= r.event}

(* An event is scored against the model of the window before its own, never *)
(* against one that has seen the event itself, nor against an older one.    *)
ScoredByWindowBefore == \A r \in Scores : r.learnt = Version(r.event) - 1

(* The collector shows the newest score of a case that it has received, and *)
(* no score is lost on the way: those still to come are newer and are       *)
(* exactly those of the events processed since.                             *)
Shown(c) == {r.event : r \in latest[c]}
Coming(c) == {r.event : r \in {r \in out : r.case = c}}

LatestShown ==
  \A c \in Cases : Coming(c) = {i \in processed[c] : \A l \in Shown(c) : i > l}

(* An event does not wait although its model is there, also if the events   *)
(* of its case have stopped: the next event of any case in its shard takes  *)
(* it along.  What a shard has received since its last event has to wait.   *)
NoNeedlessWait ==
  \A c \in Cases : \A i \in pending[c] :
    (\A j \in pending[c] : i <= j) => Version(i) \notin Versions(ShardOf[c]) \ fresh[ShardOf[c]]

(* Lossy counting of what is in the window, against the true frequencies: a *)
(* count that is kept is too small by at most its error; activities that    *)
(* occur more often than there are buckets take part in the model, and      *)
(* those that occur once never do.                                          *)
LossyCounting ==
  \A n \in 1 .. Len(window), a \in Activities :
    LET acts == SubSeq(window, 1, n)
        frequency == Cardinality({k \in 1 .. n : acts[k] = a})
        entry == Counts(acts)[a]
    IN
    /\ entry.n > 0 => entry.n <= frequency /\ frequency <= entry.n + entry.delta
    /\ frequency > Bucket(n) => a \in Retained(acts)
    /\ a \in Retained(acts) => frequency > 1

(* An event is scored, or an event of its case up to it belongs to a window *)
(* whose predecessor yielded no model, or every model that it needs has     *)
(* come and it waits for the next event of its shard.                       *)
Unmodelled(v) == mined >= v /\ \A u \in updates : u.version # v

Decided(c, e) ==
  \/ e \in processed[c]
  \/ \E i \in trace[c] : i <= e /\ Unmodelled(Version(i))
  \/ e \in pending[c] /\ \A i \in pending[c] : i <= e => Version(i) \in Versions(ShardOf[c])

EventsScored ==
  \A e \in WindowSize .. MaxEvents - 1 :
    e < read ~> \E c \in Cases : e \in trace[c] /\ Decided(c, e)

=============================================================================
