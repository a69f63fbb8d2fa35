--------------------------- MODULE OutlierProofs ---------------------------
(* Proofs about OutlierDetection, for every size of window, every set of    *)
(* cases and shards and any number of events.                               *)
EXTENDS OutlierDetection, FiniteSetTheorems, TLAPS

(* The events of a case are on their way, wait or have been scored, in that *)
(* order and each in one place.                                             *)
Traces ==
  /\ \A c, d \in Cases : \A i \in trace[c] : i \in trace[d] => c = d
  /\ \A c \in Cases :
       /\ \A i \in trace[c] : i \in processed[c] \/ i \in pending[c] \/ i \in inbox
       /\ \A i \in processed[c] \cup pending[c] : i \in trace[c] /\ i \notin inbox
       /\ \A i \in processed[c], j \in pending[c] : i < j
       /\ \A i \in processed[c] \cup pending[c], j \in inbox : j \in trace[c] => i < j

(* A model is for the window after the one it was mined from.               *)
ModelsNumbered == \A u \in updates : u.version = u.learnt + 1

(* What the collector has is a score of the case it is kept for.            *)
Shows ==
  /\ \A c \in Cases : \A r \in latest[c] : r.case = c /\ r.event \in processed[c]
  /\ \A r \in out : r.event \in processed[r.case]

IInv ==
  /\ TypeOK
  /\ Traces
  /\ ModelsNumbered
  /\ Shows
  /\ ScoredInTurn
  /\ ScoredByWindowBefore
  /\ LatestShown
  /\ NoNeedlessWait

(* Numbers of events are natural numbers.                                   *)
LEMMA EventsNat ==
  ASSUME TypeOK
  PROVE  Scored \subseteq Nat /\ \A i \in Scored : i < read
  BY OutlierAssumption DEF TypeOK, Scored

(* The version after that of a window's last event.                         *)
LEMMA NextVersion ==
  ASSUME NEW w \in Nat
  PROVE  Discovered(w) \in Model /\ Discovered(w).version = w + 1 /\ Discovered(w).learnt = w
<1>1. ASSUME NEW n \in Nat \ {0} PROVE ((w + 1) * n - 1) \div n = w
  <2>1. (w + 1) * n - 1 = w * n + (n - 1)
    BY Z3
  <2>2. (w * n + (n - 1)) \div n = w
    BY Z3
  <2>. QED
    BY <2>1, <2>2
<1>2. Version((w + 1) * WindowSize - 1) = w
  BY <1>1, OutlierAssumption DEF Version
<1>. QED
  BY <1>2 DEF Discovered, Model

LEMMA InitIInv == Init => IInv
<1>. SUFFICES ASSUME Init PROVE IInv
  OBVIOUS
<1>1. TypeOK
  BY OutlierAssumption DEF Init, TypeOK, Scored, Model, Score
<1>2. Traces /\ ModelsNumbered /\ Shows
  BY DEF Init, Traces, ModelsNumbered, Shows
<1>3. Scores = {}
  BY DEF Init, Scores
<1>4. ScoredInTurn /\ ScoredByWindowBefore
  BY <1>3 DEF ScoredInTurn, ScoredByWindowBefore
<1>5. LatestShown /\ NoNeedlessWait
  BY DEF Init, LatestShown, Coming, Shown, NoNeedlessWait
<1>. QED
  BY <1>1, <1>2, <1>4, <1>5 DEF IInv

(* Steps that touch neither the scores nor the queues of the scoring task   *)
(* keep what is said of them; Read makes traces longer at their end only.   *)
LEMMA ReadIInv ==
  ASSUME IInv, Read
  PROVE  IInv'
<1>1. PICK c \in Cases, a \in Activities : Split(c, a)
  BY DEF Read
<1>2. /\ read' = read + 1 /\ read \in Nat /\ a \in Activities
      /\ UNCHANGED <<mined, updates, known, pending, processed, fresh, out, latest>>
  BY DEF Read, scoringVars, IInv, TypeOK
<1>3. Scored \subseteq Scored' /\ (Version(read) > 0 => read \in Scored')
  <2>1. Scored' = WindowSize .. read
    BY <1>2, OutlierAssumption DEF Scored
  <2>2. Version(read) > 0 => read >= WindowSize
    <3>1. ASSUME NEW n \in Nat \ {0}, NEW k \in Nat, k < n PROVE k \div n = 0
      BY <3>1, Z3
    <3>. QED
      BY <1>2, <3>1, OutlierAssumption DEF Version
  <2>. QED
    BY <1>2, <2>1, <2>2, OutlierAssumption DEF Scored
<1>4. \A i \in Scored : i \in Nat /\ i < read
  BY EventsNat DEF IInv
<1>5. \/ inbox' = inbox /\ trace' = trace
      \/ Version(read) > 0 /\ inbox' = inbox \cup {read} /\ trace' = [trace EXCEPT ![c] = @ \cup {read}]
  BY <1>1 DEF Split, Accepted
<1>6. TypeOK'
  <2>1. window' \in Seq(Activities)
    BY <1>1, <1>2 DEF Split, IInv, TypeOK
  <2>2. inbox' \subseteq Scored' /\ trace' \in [Cases -> SUBSET Scored']
    BY <1>3, <1>5 DEF IInv, TypeOK
  <2>3. pending' \in [Cases -> SUBSET Scored'] /\ processed' \in [Cases -> SUBSET Scored']
    BY <1>2, <1>3 DEF IInv, TypeOK
  <2>. QED
    BY <1>2, <2>1, <2>2, <2>3 DEF IInv, TypeOK
<1>7. \A d \in Cases : /\ trace[d] \subseteq Scored /\ pending[d] \subseteq Scored /\ processed[d] \subseteq Scored
                       /\ trace'[d] \subseteq trace[d] \cup {read} /\ trace[d] \subseteq trace'[d]
                       /\ d # c => trace'[d] = trace[d]
  BY <1>5 DEF IInv, TypeOK
<1>8. read \notin Scored /\ inbox \subseteq Scored
  BY <1>4 DEF IInv, TypeOK
<1>9. Traces'
  <2>1. ASSUME NEW d \in Cases, NEW e \in Cases, NEW i \in trace'[d], i \in trace'[e] PROVE d = e
    <3>1. CASE i = read
      BY <1>7, <1>8, <2>1, <3>1
    <3>2. CASE i # read
      <4>1. i \in trace[d] /\ i \in trace[e]
        BY <1>7, <2>1, <3>2
      <4>. QED
        BY <4>1 DEF IInv, Traces
    <3>. QED
      BY <3>1, <3>2
  <2>2. ASSUME NEW d \in Cases, NEW i \in trace'[d]
        PROVE  i \in processed'[d] \/ i \in pending'[d] \/ i \in inbox'
    BY <1>2, <1>5, <1>7 DEF IInv, Traces
  <2>3. ASSUME NEW d \in Cases, NEW i \in processed'[d] \cup pending'[d]
        PROVE  i \in trace'[d] /\ i \notin inbox'
    BY <1>2, <1>5, <1>7, <1>8 DEF IInv, Traces
  <2>4. ASSUME NEW d \in Cases, NEW i \in processed'[d] \cup pending'[d], NEW j \in inbox', j \in trace'[d]
        PROVE  i < j
    <3>1. i \in Scored /\ i \in processed[d] \cup pending[d]
      BY <1>2, <1>7
    <3>2. CASE j = read
      BY <1>4, <3>1, <3>2
    <3>3. CASE j # read
      BY <1>5, <1>7, <2>4, <3>1, <3>3 DEF IInv, Traces
    <3>. QED
      BY <3>2, <3>3
  <2>5. \A d \in Cases : \A i \in processed'[d], j \in pending'[d] : i < j
    BY <1>2 DEF IInv, Traces
  <2>. QED
    BY <2>1, <2>2, <2>3, <2>4, <2>5 DEF Traces
<1>10. ModelsNumbered' /\ Shows' /\ ScoredByWindowBefore' /\ LatestShown' /\ NoNeedlessWait'
  <2>1. ModelsNumbered' /\ Shows'
    BY <1>2 DEF IInv, ModelsNumbered, Shows
  <2>2. ScoredByWindowBefore'
    BY <1>2 DEF IInv, ScoredByWindowBefore, Scores
  <2>3. LatestShown'
    BY <1>2 DEF IInv, LatestShown, Coming, Shown
  <2>4. NoNeedlessWait'
    BY <1>2 DEF IInv, NoNeedlessWait, Versions
  <2>. QED
    BY <2>1, <2>2, <2>3, <2>4
<1>11. ScoredInTurn'
  <2>. SUFFICES ASSUME NEW r \in Scores PROVE r.prefix = {i \in trace'[r.case] : i <= r.event}
    BY <1>2 DEF ScoredInTurn, Scores
  <2>1. r.case \in Cases /\ r.event \in Scored /\ r.prefix = {i \in trace[r.case] : i <= r.event}
    BY <1>7 DEF IInv, Shows, Scores, ScoredInTurn, TypeOK, Score
  <2>2. \A i \in trace'[r.case] : i <= r.event => i \in trace[r.case]
    BY <1>2, <1>4, <1>7, <2>1
  <2>. QED
    BY <1>7, <2>1, <2>2
<1>. QED
  BY <1>6, <1>9, <1>10, <1>11 DEF IInv

LEMMA MineIInv ==
  ASSUME IInv, Mine
  PROVE  IInv'
<1>1. /\ UNCHANGED <<read, inbox, trace, known, pending, processed, fresh, out, latest>>
      /\ mined \in Nat /\ mined' = mined + 1 /\ Len(window) >= WindowSize
      /\ window' = SubSeq(window, WindowSize + 1, Len(window))
  BY DEF Mine, scoringVars, IInv, TypeOK
<1>2. updates' = updates \/ updates' = updates \cup {Discovered(mined)}
  BY DEF Mine
<1>3. updates \subseteq updates' /\ updates' \subseteq Model /\ ModelsNumbered'
  BY <1>1, <1>2, NextVersion DEF IInv, TypeOK, ModelsNumbered
<1>4. TypeOK'
  <2>1. window' \in Seq(Activities)
    BY <1>1, OutlierAssumption DEF IInv, TypeOK
  <2>2. known' \in [Shards -> SUBSET updates']
    BY <1>1, <1>3 DEF IInv, TypeOK
  <2>3. Scored' = Scored
    BY <1>1 DEF Scored
  <2>. QED
    BY <1>1, <1>3, <2>1, <2>2, <2>3 DEF IInv, TypeOK
<1>5. Traces' /\ Shows'
  BY <1>1 DEF IInv, Traces, Shows
<1>6. ScoredInTurn' /\ ScoredByWindowBefore'
  BY <1>1 DEF IInv, ScoredInTurn, ScoredByWindowBefore, Scores
<1>7. LatestShown'
  BY <1>1 DEF IInv, LatestShown, Coming, Shown
<1>8. NoNeedlessWait'
  BY <1>1 DEF IInv, NoNeedlessWait, Versions
<1>. QED
  BY <1>3, <1>4, <1>5, <1>6, <1>7, <1>8 DEF IInv

LEMMA LearnIInv ==
  ASSUME IInv, NEW s \in Shards, Learn(s)
  PROVE  IInv'
<1>1. PICK u \in updates \ known[s] :
        /\ known' = [known EXCEPT ![s] = @ \cup {u}]
        /\ fresh' = [fresh EXCEPT ![s] = @ \cup {u.version}]
  BY DEF Learn
<1>2. UNCHANGED <<read, window, mined, updates, inbox, trace, pending, processed, out, latest>>
  BY DEF Learn, discoveryVars
<1>3. TypeOK'
  <2>1. u.version \in Nat
    BY <1>1 DEF IInv, TypeOK, Model
  <2>2. known' \in [Shards -> SUBSET updates'] /\ fresh' \in [Shards -> SUBSET Nat]
    BY <1>1, <1>2, <2>1 DEF IInv, TypeOK
  <2>3. Scored' = Scored
    BY <1>2 DEF Scored
  <2>. QED
    BY <1>2, <2>2, <2>3 DEF IInv, TypeOK
<1>4. Traces' /\ Shows' /\ ModelsNumbered'
  BY <1>2 DEF IInv, Traces, Shows, ModelsNumbered
<1>5. ScoredInTurn' /\ ScoredByWindowBefore'
  BY <1>2 DEF IInv, ScoredInTurn, ScoredByWindowBefore, Scores
<1>6. LatestShown'
  BY <1>2 DEF IInv, LatestShown, Coming, Shown
<1>7. NoNeedlessWait'
  <2>1. \A t \in Shards : Versions(t)' \ fresh'[t] \subseteq Versions(t) \ fresh[t]
    BY <1>1 DEF Versions, IInv, TypeOK
  <2>2. \A c \in Cases : ShardOf[c] \in Shards
    BY OutlierAssumption
  <2>. QED
    BY <1>2, <2>1, <2>2 DEF IInv, NoNeedlessWait
<1>. QED
  BY <1>3, <1>4, <1>5, <1>6, <1>7 DEF IInv

(* Two scores of the same event are the same, so taking one off the stream  *)
(* leaves the newer ones.                                                   *)
LEMMA CollectIInv ==
  ASSUME IInv, NEW r \in out, Collect(r)
  PROVE  IInv'
<1>1. /\ out' = out \ {r} /\ latest' = [latest EXCEPT ![r.case] = {r}]
      /\ UNCHANGED <<read, window, mined, updates, inbox, trace, known, pending, processed, fresh>>
      /\ \A other \in out : other.case = r.case => r.event <= other.event
  BY DEF Collect, discoveryVars, scoringVars
<1>2. r \in Score /\ r.case \in Cases /\ r.event \in processed[r.case]
  BY DEF IInv, TypeOK, Shows, Score
<1>3. \A c \in Cases : latest'[c] = IF c = r.case THEN {r} ELSE latest[c]
  BY <1>1 DEF IInv, TypeOK
<1>4. TypeOK'
  <2>1. latest' \in [Cases -> SUBSET Score]
    BY <1>1, <1>2 DEF IInv, TypeOK
  <2>2. Scored' = Scored
    BY <1>1 DEF Scored
  <2>. QED
    BY <1>1, <2>1, <2>2 DEF IInv, TypeOK
<1>5. Traces' /\ ModelsNumbered'
  BY <1>1 DEF IInv, Traces, ModelsNumbered
<1>6. Shows'
  BY <1>1, <1>2, <1>3 DEF IInv, Shows
<1>7. \A q \in Scores' : q \in Scores
  BY <1>1, <1>3 DEF Scores
<1>8. ScoredInTurn' /\ ScoredByWindowBefore'
  BY <1>1, <1>7 DEF IInv, ScoredInTurn, ScoredByWindowBefore
<1>9. LatestShown'
  <2>. SUFFICES ASSUME NEW c \in Cases
                PROVE  Coming(c)' = {i \in processed[c] : \A l \in Shown(c)' : i > l}
    BY <1>1 DEF LatestShown
  <2>1. CASE c # r.case
    <3>1. Coming(c)' = Coming(c) /\ Shown(c)' = Shown(c)
      BY <1>1, <1>3, <2>1 DEF Coming, Shown
    <3>. QED
      BY <3>1 DEF IInv, LatestShown
  <2>2. CASE c = r.case
    <3>1. Shown(c)' = {r.event}
      BY <1>3, <2>2 DEF Shown
    <3>2. \A q \in out : q.case = c /\ q.event = r.event => q = r
      <4>. SUFFICES ASSUME NEW q \in out, q.case = r.case, q.event = r.event PROVE q = r
        BY <2>2
      <4>1. q \in Scores /\ r \in Scores
        BY DEF Scores
      <4>2. q.prefix = r.prefix /\ q.learnt = r.learnt
        BY <4>1 DEF IInv, ScoredInTurn, ScoredByWindowBefore
      <4>3. q \in Score /\ r \in Score
        BY DEF IInv, TypeOK
      <4>. QED
        BY <4>2, <4>3 DEF Score
    <3>3. Coming(c)' = Coming(c) \ {r.event}
      BY <1>1, <2>2, <3>2 DEF Coming
    <3>4. \A i \in Coming(c) : r.event <= i
      BY <1>1, <2>2 DEF Coming
    <3>5. Coming(c) = {i \in processed[c] : \A l \in Shown(c) : i > l} /\ r.event \in Coming(c)
      BY <2>2 DEF IInv, LatestShown, Coming
    <3>6. \A i \in processed[c] : i \in Nat
      BY EventsNat DEF IInv, TypeOK
    <3>7. \A l \in Shown(c) : l \in Nat
      BY DEF IInv, TypeOK, Shown, Score
    <3>8. ASSUME NEW i \in processed[c], i > r.event PROVE i \in Coming(c)
      BY <3>5, <3>6, <3>7, <3>8
    <3>. QED
      BY <3>1, <3>3, <3>4, <3>5, <3>6, <3>8
  <2>. QED
    BY <2>1, <2>2
<1>10. NoNeedlessWait'
  BY <1>1 DEF IInv, NoNeedlessWait, Versions
<1>. QED
  BY <1>4, <1>5, <1>6, <1>8, <1>9, <1>10 DEF IInv

(* process_element.  In every case what is scored are the first of the      *)
(* events that wait, so that they follow those scored before.               *)
LEMMA ConformIInv ==
  ASSUME IInv, NEW c \in Cases, NEW e \in inbox, Conform(c, e)
  PROVE  IInv'
<1>. DEFINE s == ShardOf[c]
            arrived == [pending EXCEPT ![c] = @ \cup {e}]
            done == [d \in Cases |-> Reprocessed(c, d, arrived[d])]
<1>1. /\ e \in trace[c] /\ inbox' = inbox \ {e}
      /\ \A d \in Cases : ShardOf[d] = s => \A i \in inbox \cap trace[d] : e <= i
      /\ pending' = [d \in Cases |-> arrived[d] \ done[d]]
      /\ processed' = [d \in Cases |-> processed[d] \cup done[d]]
      /\ out' = out \cup UNION {ScoresOf(d, done[d], model) : d \in Cases, model \in known[s]}
      /\ fresh' = [fresh EXCEPT ![s] = {}]
      /\ UNCHANGED <<read, window, mined, updates, trace, known, latest>>
  BY DEF Conform, discoveryVars
<1>2. s \in Shards /\ \A d \in Cases : ShardOf[d] \in Shards
  BY OutlierAssumption
<1>3. \A d \in Cases : arrived[d] = IF d = c THEN pending[d] \cup {e} ELSE pending[d]
  BY DEF IInv, TypeOK
<1>4. \A d \in Cases : done[d] = {i \in arrived[d] : ShardOf[d] = s /\
                                    \A j \in arrived[d] : j <= i => Version(j) \in Versions(s)}
  BY DEF Reprocessed, Scorable
<1>5. \A d \in Cases : pending'[d] = arrived[d] \ done[d] /\ processed'[d] = processed[d] \cup done[d]
  BY <1>1
<1>. HIDE DEF arrived, done
<1>6. \A d \in Cases : /\ trace[d] \subseteq Scored /\ pending[d] \subseteq Scored
                       /\ processed[d] \subseteq Scored /\ trace[d] \subseteq Nat
  BY EventsNat DEF IInv, TypeOK
<1>7. \A d \in Cases : \A i \in arrived[d] : i \in trace[d] /\ i \notin inbox' /\ i \in Scored /\ i \in Nat
  <2>. SUFFICES ASSUME NEW d \in Cases, NEW i \in arrived[d] PROVE i \in trace[d] /\ i \notin inbox'
    BY <1>6
  <2>1. CASE i \in pending[d]
    BY <1>1, <2>1 DEF IInv, Traces
  <2>2. CASE i \notin pending[d]
    <3>1. d = c /\ i = e
      BY <1>3, <2>2
    <3>. QED
      BY <1>1, <3>1
  <2>. QED
    BY <2>1, <2>2
<1>8. \A d \in Cases : \A i \in processed[d] : i \in trace[d] /\ i \notin inbox' /\ i \in Nat
  BY <1>1, <1>6 DEF IInv, Traces
<1>9. \A d \in Cases : \A i \in processed[d], j \in arrived[d] : i < j
  <2>. SUFFICES ASSUME NEW d \in Cases, NEW i \in processed[d], NEW j \in arrived[d] PROVE i < j
    OBVIOUS
  <2>1. CASE j \in pending[d]
    BY <2>1 DEF IInv, Traces
  <2>2. CASE j \notin pending[d]
    <3>1. d = c /\ j = e
      BY <1>3, <2>2
    <3>2. e \in inbox /\ e \in trace[c]
      BY <1>1
    <3>. QED
      BY <3>1, <3>2 DEF IInv, Traces
  <2>. QED
    BY <2>1, <2>2
<1>10. \A d \in Cases : \A i \in processed[d] \cup arrived[d], j \in inbox' : j \in trace[d] => i < j
  <2>. SUFFICES ASSUME NEW d \in Cases, NEW i \in processed[d] \cup arrived[d], NEW j \in inbox', j \in trace[d]
                PROVE  i < j
    OBVIOUS
  <2>1. j \in inbox /\ j # e
    BY <1>1
  <2>2. CASE i \in processed[d] \cup pending[d]
    BY <2>1, <2>2 DEF IInv, Traces
  <2>3. CASE i \notin processed[d] \cup pending[d]
    <3>1. d = c /\ i = e
      BY <1>3, <2>3
    <3>2. e <= j /\ e \in Nat /\ j \in Nat
      BY <1>1, <1>6, <2>1, <3>1
    <3>. QED
      BY <2>1, <3>1, <3>2
  <2>. QED
    BY <2>2, <2>3
<1>11. \A d \in Cases : \A i \in trace[d] : i \in processed[d] \/ i \in arrived[d] \/ i \in inbox'
  <2>. SUFFICES ASSUME NEW d \in Cases, NEW i \in trace[d]
                PROVE  i \in processed[d] \/ i \in arrived[d] \/ i \in inbox'
    OBVIOUS
  <2>1. CASE i = e
    <3>1. d = c
      BY <1>1, <2>1 DEF IInv, Traces
    <3>. QED
      BY <1>3, <2>1, <3>1
  <2>2. CASE i # e
    <3>1. i \in processed[d] \/ i \in pending[d] \/ i \in inbox
      BY DEF IInv, Traces
    <3>2. pending[d] \subseteq arrived[d]
      BY <1>3
    <3>3. inbox' = inbox \ {e}
      BY <1>1
    <3>. QED
      BY <2>2, <3>1, <3>2, <3>3
  <2>. QED
    BY <2>1, <2>2
<1>12. \A d \in Cases : done[d] \subseteq arrived[d]
  BY <1>4
<1>13. \A d \in Cases : \A i \in done[d], j \in arrived[d] : j <= i => j \in done[d]
  <2>. SUFFICES ASSUME NEW d \in Cases, NEW i \in done[d], NEW j \in arrived[d], j <= i PROVE j \in done[d]
    OBVIOUS
  <2>1. ShardOf[d] = s /\ \A k \in arrived[d] : k <= i => Version(k) \in Versions(s)
    BY <1>4
  <2>2. \A k \in arrived[d] : k <= j => k <= i
    BY <1>7, <1>12
  <2>. QED
    BY <1>4, <2>1, <2>2
<1>14. Traces'
  <2>1. \A d, f \in Cases : \A i \in trace'[d] : i \in trace'[f] => d = f
    BY <1>1 DEF IInv, Traces
  <2>2. ASSUME NEW d \in Cases PROVE \A i \in trace'[d] : i \in processed'[d] \/ i \in pending'[d] \/ i \in inbox'
    BY <1>1, <1>5, <1>11, <1>12
  <2>3. ASSUME NEW d \in Cases, NEW i \in processed'[d] \cup pending'[d] PROVE i \in trace'[d] /\ i \notin inbox'
    BY <1>1, <1>5, <1>7, <1>8, <1>12
  <2>4. ASSUME NEW d \in Cases, NEW i \in processed'[d], NEW j \in pending'[d] PROVE i < j
    <3>1. j \in arrived[d] /\ j \notin done[d]
      BY <1>5
    <3>2. CASE i \in processed[d]
      BY <1>9, <3>1, <3>2
    <3>3. CASE i \in done[d]
      BY <1>7, <1>12, <1>13, <3>1, <3>3
    <3>. QED
      BY <1>5, <3>2, <3>3
  <2>5. ASSUME NEW d \in Cases, NEW i \in processed'[d] \cup pending'[d], NEW j \in inbox', j \in trace'[d]
        PROVE  i < j
    BY <1>1, <1>5, <1>10, <1>12, <2>5
  <2>. QED
    BY <2>1, <2>2, <2>3, <2>4, <2>5 DEF Traces
<1>15. \A q \in out' \ out : \E d \in Cases, model \in known[s] : q \in ScoresOf(d, done[d], model)
  BY <1>1
<1>16. ASSUME NEW d \in Cases, NEW model \in known[s], NEW q \in ScoresOf(d, done[d], model)
       PROVE  /\ q \in Score /\ q.case = d /\ q.event \in done[d]
              /\ q.learnt = Version(q.event) - 1
              /\ q.prefix = {i \in trace[d] : i <= q.event}
  <2>1. PICK i \in done[d] : /\ Version(i) = model.version
                             /\ q = [case |-> d, event |-> i, learnt |-> model.learnt,
                                     prefix |-> processed[d] \cup {j \in done[d] : j <= i}]
    BY DEF ScoresOf
  <2>2. model \in updates /\ model.learnt \in Nat /\ model.version = model.learnt + 1
    BY <1>2 DEF IInv, TypeOK, Model, ModelsNumbered
  <2>3. i \in arrived[d] /\ i \in Nat
    BY <1>7, <1>12
  <2>4. processed[d] \cup {j \in done[d] : j <= i} = {j \in trace[d] : j <= i}
    <3>1. ASSUME NEW j \in processed[d] \cup {k \in done[d] : k <= i} PROVE j \in trace[d] /\ j <= i
      BY <1>7, <1>8, <1>9, <1>12, <2>3
    <3>2. ASSUME NEW j \in trace[d], j <= i PROVE j \in processed[d] \cup {k \in done[d] : k <= i}
      <4>1. j \in Nat
        BY <1>6
      <4>2. j \notin inbox'
        BY <1>10, <2>3, <3>2, <4>1
      <4>. QED
        BY <1>11, <1>13, <3>2, <4>2, <2>3
    <3>. QED
      BY <3>1, <3>2
  <2>5. q \in Score
    BY <1>6, <1>7, <1>8, <1>12, <2>1, <2>2, <2>3 DEF Score
  <2>. QED
    BY <2>1, <2>2, <2>4, <2>5
<1>17. TypeOK'
  <2>1. Scored' = Scored
    BY <1>1 DEF Scored
  <2>2. out' \subseteq Score
    BY <1>15, <1>16 DEF IInv, TypeOK
  <2>3. pending' \in [Cases -> SUBSET Scored] /\ processed' \in [Cases -> SUBSET Scored]
    BY <1>1, <1>6, <1>7, <1>12
  <2>4. fresh' \in [Shards -> SUBSET Nat] /\ inbox' \subseteq Scored
    BY <1>1 DEF IInv, TypeOK
  <2>. QED
    BY <1>1, <2>1, <2>2, <2>3, <2>4 DEF IInv, TypeOK
<1>18. ModelsNumbered'
  BY <1>1 DEF IInv, ModelsNumbered
<1>19. Shows'
  <2>1. \A d \in Cases : \A r \in latest'[d] : r.case = d /\ r.event \in processed'[d]
    BY <1>1, <1>5 DEF IInv, Shows
  <2>2. ASSUME NEW r \in out' PROVE r.event \in processed'[r.case]
    <3>1. CASE r \in out
      <4>1. r.case \in Cases
        BY <3>1 DEF IInv, TypeOK, Score
      <4>. QED
        BY <1>5, <3>1, <4>1 DEF IInv, Shows
    <3>2. CASE r \notin out
      BY <1>5, <1>15, <1>16, <3>2
    <3>. QED
      BY <3>1, <3>2
  <2>. QED
    BY <2>1, <2>2 DEF Shows
<1>20. ScoredInTurn' /\ ScoredByWindowBefore'
  <2>. SUFFICES ASSUME NEW r \in Scores'
                PROVE  r.prefix = {i \in trace[r.case] : i <= r.event} /\ r.learnt = Version(r.event) - 1
    BY <1>1 DEF ScoredInTurn, ScoredByWindowBefore
  <2>1. CASE r \in Scores
    BY <2>1 DEF IInv, ScoredInTurn, ScoredByWindowBefore
  <2>2. CASE r \notin Scores
    <3>1. r \in out' \ out
      BY <1>1, <2>2 DEF Scores
    <3>. QED
      BY <1>15, <1>16, <3>1
  <2>. QED
    BY <2>1, <2>2
<1>21. LatestShown'
  <2>. SUFFICES ASSUME NEW d \in Cases
                PROVE  Coming(d)' = {i \in processed'[d] : \A l \in Shown(d) : i > l}
    BY <1>1 DEF LatestShown, Shown
  <2>1. Coming(d)' = Coming(d) \cup done[d]
    <3>1. ASSUME NEW i \in done[d] PROVE i \in Coming(d)'
      <4>1. ShardOf[d] = s /\ Version(i) \in Versions(s)
        <5>1. i \in arrived[d] /\ i \in Nat
          BY <1>7, <1>12
        <5>. QED
          BY <1>4, <5>1
      <4>2. PICK model \in known[s] : model.version = Version(i)
        BY <4>1 DEF Versions
      <4>3. PICK q \in ScoresOf(d, done[d], model) : q.case = d /\ q.event = i
        <5>. DEFINE score(k) == [case |-> d, event |-> k, learnt |-> model.learnt,
                                 prefix |-> processed[d] \cup {j \in done[d] : j <= k}]
        <5>1. score(i).case = d /\ score(i).event = i
          OBVIOUS
        <5>2. ScoresOf(d, done[d], model) = {score(k) : k \in {k \in done[d] : Version(k) = model.version}}
          BY DEF ScoresOf
        <5>3. i \in {k \in done[d] : Version(k) = model.version}
          BY <4>2
        <5>. HIDE DEF score
        <5>. QED
          BY <5>1, <5>2, <5>3
      <4>4. q \in out'
        BY <1>1, <4>3
      <4>. QED
        BY <4>3, <4>4 DEF Coming
    <3>2. ASSUME NEW i \in Coming(d) PROVE i \in Coming(d)'
      BY <1>1 DEF Coming
    <3>3. ASSUME NEW i \in Coming(d)', i \notin done[d] PROVE i \in Coming(d)
      <4>1. PICK q \in out' : q.case = d /\ q.event = i
        BY DEF Coming
      <4>2. q \in out
        BY <1>15, <1>16, <3>3, <4>1
      <4>. QED
        BY <4>1, <4>2 DEF Coming
    <3>. QED
      BY <3>1, <3>2, <3>3
  <2>2. Coming(d) = {i \in processed[d] : \A l \in Shown(d) : i > l}
    BY DEF IInv, LatestShown
  <2>3. \A i \in done[d], l \in Shown(d) : i > l
    <3>1. \A l \in Shown(d) : l \in processed[d]
      BY DEF IInv, Shows, Shown
    <3>. QED
      BY <1>7, <1>8, <1>9, <1>12, <3>1
  <2>. QED
    BY <1>5, <2>1, <2>2, <2>3
<1>22. NoNeedlessWait'
  <2>. SUFFICES ASSUME NEW d \in Cases, NEW i \in pending'[d], \A j \in pending'[d] : i <= j
                PROVE  Version(i) \notin Versions(ShardOf[d]) \ fresh'[ShardOf[d]]
    BY <1>1 DEF NoNeedlessWait, Versions
  <2>1. CASE ShardOf[d] = s
    <3>1. SUFFICES ASSUME Version(i) \in Versions(s) PROVE FALSE
      BY <2>1
    <3>2. i \in arrived[d] /\ i \notin done[d] /\ i \in Nat
      BY <1>5, <1>7
    <3>3. \A j \in arrived[d] : j <= i => Version(j) \in Versions(s)
      <4>. SUFFICES ASSUME NEW j \in arrived[d], j <= i, j # i PROVE Version(j) \in Versions(s)
        BY <3>1
      <4>1. j \in done[d]
        BY <1>5, <1>7, <3>2
      <4>2. j \in Nat
        BY <1>7
      <4>. QED
        BY <1>4, <4>1, <4>2
    <3>. QED
      BY <1>4, <2>1, <3>2, <3>3
  <2>2. CASE ShardOf[d] # s
    <3>1. pending'[d] = pending[d]
      <4>1. d # c
        BY <2>2
      <4>2. done[d] = {}
        BY <1>4, <2>2
      <4>3. arrived[d] = pending[d]
        BY <1>3, <4>1
      <4>. QED
        BY <1>5, <4>2, <4>3
    <3>2. fresh'[ShardOf[d]] = fresh[ShardOf[d]]
      BY <1>1, <1>2, <2>2 DEF IInv, TypeOK
    <3>. QED
      BY <3>1, <3>2 DEF IInv, NoNeedlessWait
  <2>. QED
    BY <2>1, <2>2
<1>. QED
  BY <1>14, <1>17, <1>18, <1>19, <1>20, <1>21, <1>22 DEF IInv

LEMMA NextIInv == IInv /\ [Next]_vars => IInv'
<1>. SUFFICES ASSUME IInv, [Next]_vars PROVE IInv'
  OBVIOUS
<1>1. CASE UNCHANGED vars
  <2>1. /\ UNCHANGED <<read, window, mined, updates, inbox, trace, known, pending, processed, out, latest, fresh>>
    BY <1>1 DEF vars
  <2>2. TypeOK' /\ Traces' /\ ModelsNumbered' /\ Shows'
    BY <2>1 DEF IInv, TypeOK, Scored, Traces, ModelsNumbered, Shows
  <2>3. ScoredInTurn' /\ ScoredByWindowBefore' /\ LatestShown' /\ NoNeedlessWait'
    BY <2>1 DEF IInv, ScoredInTurn, ScoredByWindowBefore, Scores, LatestShown, Coming, Shown,
       NoNeedlessWait, Versions
  <2>. QED
    BY <2>2, <2>3 DEF IInv
<1>2. CASE Read
  BY <1>2, ReadIInv
<1>3. CASE Mine
  BY <1>3, MineIInv
<1>4. ASSUME NEW s \in Shards, Learn(s) PROVE IInv'
  BY <1>4, LearnIInv
<1>5. ASSUME NEW s \in Shards, ConformNext(s) PROVE IInv'
  BY <1>5, ConformIInv DEF ConformNext
<1>6. ASSUME NEW r \in out, Collect(r) PROVE IInv'
  BY <1>6, CollectIInv
<1>. QED
  BY <1>1, <1>2, <1>3, <1>4, <1>5, <1>6 DEF Next, Quiet

LEMMA InductiveInvariant == Spec => []IInv
  BY InitIInv, NextIInv, PTL DEF Spec

(* The state of the tasks keeps its type; what is scored is after the       *)
(* first window and has been read.                                          *)
THEOREM TypeCorrect == Spec => []TypeOK
<1>1. IInv => TypeOK
  BY DEF IInv
<1>. QED
  BY <1>1, InductiveInvariant, PTL

(* A score is about the whole trace of its case, in turn, however models    *)
(* and events overtake each other (_reprocess_pending_events).              *)
THEOREM ScoringInTurn == Spec => []ScoredInTurn
<1>1. IInv => ScoredInTurn
  BY DEF IInv
<1>. QED
  BY <1>1, InductiveInvariant, PTL

(* Events are scored against the model of the window before their own       *)
(* (the versions given by the split and by the discovery agree).            *)
THEOREM ScoringByWindowBefore == Spec => []ScoredByWindowBefore
<1>1. IInv => ScoredByWindowBefore
  BY DEF IInv
<1>. QED
  BY <1>1, InductiveInvariant, PTL

(* The collector shows the newest score it has received and misses none.    *)
THEOREM LatestIsShown == Spec => []LatestShown
<1>1. IInv => LatestShown
  BY DEF IInv
<1>. QED
  BY <1>1, InductiveInvariant, PTL

(* No event is left waiting whose model the shard had at its last event     *)
(* (process_element looks at every case of the shard).                      *)
THEOREM NobodyWaitsNeedlessly == Spec => []NoNeedlessWait
<1>1. IInv => NoNeedlessWait
  BY DEF IInv
<1>. QED
  BY <1>1, InductiveInvariant, PTL

-----------------------------------------------------------------------------
(* Lossy counting.  What is counted is a function of the activities alone,  *)
(* so this is about sequences of activities of any length.                  *)

(* Induction over the numbers in a set: were n not in S, the numbers up to  *)
(* n that are not in S would each have a predecessor among them.            *)
LEMMA SetInduction ==
  ASSUME NEW S, 0 \in S, \A n \in Nat : n \in S => n + 1 \in S
  PROVE  Nat \subseteq S
<1>. SUFFICES ASSUME NEW n \in Nat, n \notin S PROVE FALSE
  OBVIOUS
<1>. DEFINE T == {k \in 0 .. n : k \notin S}
            f == [k \in T |-> k - 1]
<1>1. IsFiniteSet(T) /\ n \in T
  <2>1. IsFiniteSet(0 .. n) /\ T \in SUBSET (0 .. n)
    BY FS_Interval
  <2>. QED
    BY <2>1, FS_Subset
<1>2. ASSUME NEW k \in T
      PROVE  k - 1 \in T /\ k - 1 # n
  <2>1. k # 0 /\ k \in Nat /\ k <= n
    OBVIOUS
  <2>2. k - 1 \in Nat /\ k - 1 \in 0 .. n /\ k - 1 # n /\ (k - 1) + 1 = k
    BY <2>1
  <2>3. k - 1 \notin S
    BY <2>2
  <2>. QED
    BY <2>2, <2>3
<1>3. f \in Injection(T, T \ {n})
  <2>1. f \in [T -> T \ {n}]
    BY <1>2
  <2>2. \A a, b \in T : f[a] = f[b] => a = b
    OBVIOUS
  <2>. QED
    BY <2>1, <2>2 DEF Injection, IsInjective
<1>4. /\ IsFiniteSet(T \ {n}) /\ Cardinality(T \ {n}) = Cardinality(T) - 1
      /\ Cardinality(T) \in Nat
  BY <1>1, FS_RemoveElement, FS_CardinalityType
<1>5. Cardinality(T) <= Cardinality(T \ {n})
  BY <1>3, <1>4, FS_Injection
<1>. QED
  BY <1>4, <1>5

(* The buckets that are complete after k activities.                        *)
Complete(k) == k \div Width

LEMMA Division ==
  ASSUME NEW k \in Nat, NEW w \in Nat \ {0}
  PROVE  /\ k \div w \in Nat
         /\ (k + 1 + w - 1) \div w = k \div w + 1
         /\ k \div w <= (k + 1) \div w
         /\ (k + 1) \div w <= k \div w + 1
         /\ (k + 1) % w = 0 => (k + 1) \div w = k \div w + 1
<1>. DEFINE q == k \div w  r == k % w
<1>1. q \in Nat /\ r \in 0 .. w - 1 /\ k = w * q + r
  BY Z3
<1>2. (k + 1 + w - 1) \div w = q + 1
  BY Z3
<1>3. q <= (k + 1) \div w /\ (k + 1) \div w <= q + 1
  BY Z3
<1>4. (k + 1) % w = 0 => (k + 1) \div w = q + 1
  BY Z3
<1>. QED
  BY <1>1, <1>2, <1>3, <1>4

(* The bucket of the next activity is the one after those complete.         *)
LEMMA Buckets ==
  ASSUME NEW k \in Nat
  PROVE  /\ Complete(k) \in Nat /\ Bucket(k) \in Nat /\ Bucket(k) <= Bucket(k + 1)
         /\ Bucket(k + 1) = Complete(k) + 1
         /\ Complete(k) <= Complete(k + 1)
         /\ Complete(k + 1) <= Bucket(k + 1)
         /\ (k + 1) % Width = 0 => Complete(k + 1) = Bucket(k + 1)
<1>1. Width \in Nat \ {0} /\ k + Width - 1 \in Nat
      /\ k + 1 + Width - 1 = (k + Width - 1) + 1
  BY OutlierAssumption
<1>2. /\ Complete(k) \in Nat /\ Bucket(k + 1) = Complete(k) + 1
      /\ Complete(k) <= Complete(k + 1) /\ Complete(k + 1) <= Bucket(k + 1)
      /\ (k + 1) % Width = 0 => Complete(k + 1) = Bucket(k + 1)
  BY <1>1, Division DEF Complete, Bucket
<1>3. Bucket(k) \in Nat /\ Bucket(k) <= Bucket(k + 1)
  BY <1>1, Division DEF Bucket
<1>. QED
  BY <1>2, <1>3

(* The recursion in Counts is well defined.                                 *)
LEMMA CountsUnfold ==
  ASSUME NEW acts \in Seq(Activities)
  PROVE  \E after : /\ Counts(acts) = after[Len(acts)]
                    /\ after[0] = [a \in Activities |-> Unseen]
                    /\ \A k \in 1 .. Len(acts) : after[k] = Tallied(after[k - 1], acts[k], k)
<1>. DEFINE Step(f, n) == [k \in 0 .. n |-> IF k = 0 THEN [a \in Activities |-> Unseen]
                                            ELSE Tallied(f[k - 1], acts[k], k)]
            S == {n \in Nat : \E f : f = Step(f, n)}
            after == CHOOSE f : f = Step(f, Len(acts))
<1>1. Len(acts) \in Nat
  OBVIOUS
<1>2. 0 \in S
  <2>1. [k \in 0 .. 0 |-> [a \in Activities |-> Unseen]]
          = Step([k \in 0 .. 0 |-> [a \in Activities |-> Unseen]], 0)
    <3>1. \A k \in 0 .. 0 : k = 0
      OBVIOUS
    <3>. QED
      BY <3>1
  <2>. QED
    BY <2>1
<1>3. ASSUME NEW n \in Nat, n \in S
      PROVE  n + 1 \in S
  <2>1. PICK f : f = Step(f, n)
    BY <1>3
  <2>. DEFINE g == [k \in 0 .. n + 1 |-> IF k = n + 1 THEN Tallied(f[n], acts[n + 1], n + 1)
                                         ELSE f[k]]
  <2>2. \A k \in 0 .. n + 1 :
          g[k] = IF k = 0 THEN [a \in Activities |-> Unseen] ELSE Tallied(g[k - 1], acts[k], k)
    <3>. SUFFICES ASSUME NEW k \in 0 .. n + 1
                  PROVE  g[k] = IF k = 0 THEN [a \in Activities |-> Unseen]
                                ELSE Tallied(g[k - 1], acts[k], k)
      OBVIOUS
    <3>1. CASE k = n + 1
      <4>1. k # 0 /\ k - 1 = n /\ n \in 0 .. n + 1 /\ n # n + 1
        BY <3>1
      <4>2. g[k] = Tallied(f[n], acts[n + 1], n + 1) /\ g[n] = f[n]
        BY <3>1, <4>1
      <4>. QED
        BY <3>1, <4>1, <4>2
    <3>2. CASE k # n + 1
      <4>1. k \in 0 .. n /\ (k # 0 => k - 1 \in 0 .. n + 1 /\ k - 1 # n + 1)
        BY <3>2
      <4>2. f[k] = IF k = 0 THEN [a \in Activities |-> Unseen]
                   ELSE Tallied(f[k - 1], acts[k], k)
        BY <2>1, <4>1
      <4>3. g[k] = f[k] /\ (k # 0 => g[k - 1] = f[k - 1])
        BY <3>2, <4>1
      <4>. QED
        BY <4>2, <4>3
    <3>. QED
      BY <3>1, <3>2
  <2>3. g = Step(g, n + 1)
    <3>1. g = [k \in 0 .. n + 1 |-> g[k]]
      BY Zenon
    <3>. HIDE DEF g
    <3>. QED
      BY <2>2, <3>1
  <2>. HIDE DEF g
  <2>4. (\E h : h = Step(h, n + 1)) /\ n + 1 \in Nat
    BY <2>3
  <2>. QED
    BY <2>4, Zenon
<1>4. Nat \subseteq S
  <2>. HIDE DEF S
  <2>. QED
    BY <1>2, <1>3, SetInduction
<1>5. after = Step(after, Len(acts))
  <2>1. \E f : f = Step(f, Len(acts))
    BY <1>1, <1>4
  <2>. QED
    BY <2>1, Zenon
<1>6. Counts(acts) = after[Len(acts)]
  BY DEF Counts
<1>. HIDE DEF after
<1>7. after[0] = [a \in Activities |-> Unseen]
  BY <1>1, <1>5
<1>8. ASSUME NEW k \in 1 .. Len(acts)
      PROVE  after[k] = Tallied(after[k - 1], acts[k], k)
  BY <1>1, <1>5
<1>. QED
  BY <1>6, <1>7, <1>8

(* How often an activity occurs among the first k.                          *)
Frequency(acts, k, a) == Cardinality({j \in 1 .. k : acts[j] = a})

LEMMA FrequencyNext ==
  ASSUME NEW acts, NEW k \in Nat, NEW a
  PROVE  /\ Frequency(acts, 0, a) = 0
         /\ Frequency(acts, k, a) \in Nat
         /\ Frequency(acts, k + 1, a)
              = Frequency(acts, k, a) + IF acts[k + 1] = a THEN 1 ELSE 0
<1>. DEFINE T == {j \in 1 .. k : acts[j] = a}
            U == {j \in 1 .. k + 1 : acts[j] = a}
<1>1. Frequency(acts, 0, a) = 0
  <2>1. {j \in 1 .. 0 : acts[j] = a} = {}
    OBVIOUS
  <2>. QED
    BY <2>1, FS_EmptySet DEF Frequency
<1>2. IsFiniteSet(T) /\ Cardinality(T) \in Nat
  <2>1. IsFiniteSet(1 .. k) /\ T \in SUBSET (1 .. k)
    BY FS_Interval
  <2>2. IsFiniteSet(T)
    BY <2>1, FS_Subset
  <2>. QED
    BY <2>2, FS_CardinalityType
<1>3. /\ acts[k + 1] = a => U = T \cup {k + 1}
      /\ acts[k + 1] # a => U = T
      /\ k + 1 \notin T
  OBVIOUS
<1>4. Cardinality(U) = Cardinality(T) + IF acts[k + 1] = a THEN 1 ELSE 0
  <2>. HIDE DEF T, U
  <2>1. Cardinality(T \cup {k + 1}) = Cardinality(T) + 1
    BY <1>2, <1>3, FS_AddElement
  <2>. QED
    BY <1>2, <1>3, <2>1
<1>. QED
  BY <1>1, <1>2, <1>4 DEF Frequency

Entry == [n : Nat, delta : Nat]

(* An entry e of an activity that has occurred f times among k: a count     *)
(* that is kept is too small by the error at most, and the error is smaller *)
(* than the number of the bucket; an activity without a count has not       *)
(* occurred more often than once for every complete bucket.                 *)
Right(e, f, k) ==
  /\ e.n > 0 => e.n <= f /\ f <= e.n + e.delta /\ e.delta < Bucket(k)
  /\ e.n = 0 => f <= Complete(k)

LEMMA UnseenRight ==
  ASSUME NEW k \in Nat, NEW f \in Nat, f <= Complete(k)
  PROVE  Unseen \in Entry /\ Right(Unseen, f, k)
BY DEF Unseen, Entry, Right

(* The activity occurs once more.                                           *)
LEMMA EnteredRight ==
  ASSUME NEW e \in Entry, NEW f \in Nat, NEW k \in Nat, Right(e, f, k)
  PROVE  Entered(e, k + 1) \in Entry /\ Right(Entered(e, k + 1), f + 1, k + 1)
<1>1. /\ e.n \in Nat /\ e.delta \in Nat
      /\ Complete(k) \in Nat /\ Bucket(k) \in Nat /\ Bucket(k) <= Bucket(k + 1)
      /\ Bucket(k + 1) = Complete(k) + 1
  BY Buckets DEF Entry
<1>2. CASE e.n > 0
  <2>1. /\ Entered(e, k + 1) \in Entry
        /\ Entered(e, k + 1).n = e.n + 1 /\ Entered(e, k + 1).delta = e.delta
    BY <1>1, <1>2 DEF Entered, Entry
  <2>. QED
    BY <1>1, <1>2, <2>1 DEF Right
<1>3. CASE e.n = 0
  <2>1. Entered(e, k + 1) = [n |-> 1, delta |-> Complete(k)]
    BY <1>1, <1>3 DEF Entered
  <2>. QED
    BY <1>1, <1>3, <2>1 DEF Right, Entry
<1>. QED
  BY <1>1, <1>2, <1>3

(* Another activity occurs.                                                 *)
LEMMA OtherRight ==
  ASSUME NEW e \in Entry, NEW f \in Nat, NEW k \in Nat, Right(e, f, k)
  PROVE  Right(e, f, k + 1)
<1>1. /\ e.n \in Nat /\ e.delta \in Nat
      /\ Complete(k) \in Nat /\ Complete(k + 1) \in Nat /\ Complete(k) <= Complete(k + 1)
      /\ Bucket(k) \in Nat /\ Bucket(k + 1) \in Nat /\ Bucket(k) <= Bucket(k + 1)
  BY Buckets, k + 1 \in Nat DEF Entry
<1>. QED
  BY <1>1 DEF Right

(* Pruning at the end of a bucket.                                          *)
LEMMA PrunedRight ==
  ASSUME NEW e \in Entry, NEW f \in Nat, NEW k \in Nat, k % Width = 0, k > 0,
         Right(e, f, k), ~(e.n + e.delta > Bucket(k))
  PROVE  Unseen \in Entry /\ Right(Unseen, f, k)
<1>1. k - 1 \in Nat /\ (k - 1) + 1 = k
  OBVIOUS
<1>2. Complete(k) = Bucket(k) /\ Bucket(k) \in Nat
  BY <1>1, Buckets
<1>3. f <= Complete(k)
  BY <1>2 DEF Right, Entry
<1>. QED
  BY <1>3, UnseenRight

CountsRight(counts, acts, k) ==
  /\ counts \in [Activities -> Entry]
  /\ \A a \in Activities : Right(counts[a], Frequency(acts, k, a), k)

(* One more activity of the window.                                         *)
LEMMA TalliedRight ==
  ASSUME NEW acts \in Seq(Activities), NEW k \in Nat, k + 1 \in 1 .. Len(acts),
         NEW counts, CountsRight(counts, acts, k)
  PROVE  CountsRight(Tallied(counts, acts[k + 1], k + 1), acts, k + 1)
<1>. DEFINE tally == [counts EXCEPT ![acts[k + 1]] = Entered(@, k + 1)]
            F(a) == Frequency(acts, k + 1, a)
<1>1. acts[k + 1] \in Activities /\ counts \in [Activities -> Entry]
  BY DEF CountsRight
<1>2. ASSUME NEW a \in Activities
      PROVE  tally[a] \in Entry /\ Right(tally[a], F(a), k + 1) /\ F(a) \in Nat
  <2>1. counts[a] \in Entry /\ Right(counts[a], Frequency(acts, k, a), k)
    BY <1>1 DEF CountsRight
  <2>2. /\ Frequency(acts, k, a) \in Nat
        /\ F(a) = Frequency(acts, k, a) + IF acts[k + 1] = a THEN 1 ELSE 0
    BY FrequencyNext
  <2>. HIDE DEF F
  <2>3. CASE acts[k + 1] = a
    <3>1. tally[a] = Entered(counts[a], k + 1) /\ F(a) = Frequency(acts, k, a) + 1
      BY <1>1, <2>2, <2>3
    <3>. QED
      BY <2>1, <2>2, <3>1, EnteredRight
  <2>4. CASE acts[k + 1] # a
    <3>1. tally[a] = counts[a] /\ F(a) = Frequency(acts, k, a)
      BY <1>1, <2>2, <2>4
    <3>. QED
      BY <2>1, <2>2, <3>1, OtherRight
  <2>. QED
    BY <2>3, <2>4
<1>3. tally \in [Activities -> Entry]
  BY <1>1, <1>2
<1>. HIDE DEF tally, F
<1>4. CASE (k + 1) % Width = 0
  <2>1. Tallied(counts, acts[k + 1], k + 1) = Pruned(tally, Bucket(k + 1))
    BY <1>4 DEF Tallied, tally
  <2>2. ASSUME NEW a \in Activities
        PROVE  /\ Pruned(tally, Bucket(k + 1))[a] \in Entry
               /\ Right(Pruned(tally, Bucket(k + 1))[a], F(a), k + 1)
    <3>1. Pruned(tally, Bucket(k + 1))[a]
            = IF tally[a].n + tally[a].delta > Bucket(k + 1) THEN tally[a] ELSE Unseen
      BY DEF Pruned
    <3>. QED
      BY <1>2, <1>4, <3>1, PrunedRight, k + 1 \in Nat, k + 1 > 0
  <2>. QED
    BY <2>1, <2>2 DEF CountsRight, Pruned, F
<1>5. CASE (k + 1) % Width # 0
  <2>1. Tallied(counts, acts[k + 1], k + 1) = tally
    BY <1>5 DEF Tallied, tally
  <2>. QED
    BY <1>2, <1>3, <2>1 DEF CountsRight, F
<1>. QED
  BY <1>4, <1>5

(* The counts of every sequence of activities.                              *)
LEMMA CountsAreRight ==
  ASSUME NEW acts \in Seq(Activities)
  PROVE  CountsRight(Counts(acts), acts, Len(acts))
<1>1. PICK after : /\ Counts(acts) = after[Len(acts)]
                   /\ after[0] = [a \in Activities |-> Unseen]
                   /\ \A k \in 1 .. Len(acts) : after[k] = Tallied(after[k - 1], acts[k], k)
  BY CountsUnfold
<1>. DEFINE S == {k \in Nat : k <= Len(acts) => CountsRight(after[k], acts, k)}
<1>2. 0 \in S
  <2>1. ASSUME NEW a \in Activities
        PROVE  Unseen \in Entry /\ Right(Unseen, Frequency(acts, 0, a), 0)
    <3>1. Frequency(acts, 0, a) = 0 /\ Complete(0) \in Nat /\ 0 \in Nat
      BY FrequencyNext, Buckets
    <3>. QED
      BY <3>1, UnseenRight
  <2>. QED
    BY <1>1, <2>1 DEF CountsRight
<1>3. ASSUME NEW k \in Nat, k \in S
      PROVE  k + 1 \in S
  <2>1. CASE k + 1 <= Len(acts)
    <3>1. k + 1 \in 1 .. Len(acts) /\ (k + 1) - 1 = k /\ k <= Len(acts)
      BY <2>1
    <3>2. CountsRight(after[k], acts, k)
      BY <1>3, <3>1
    <3>3. after[k + 1] = Tallied(after[k], acts[k + 1], k + 1)
      BY <1>1, <3>1
    <3>. QED
      BY <3>1, <3>2, <3>3, TalliedRight
  <2>. QED
    BY <2>1
<1>4. Nat \subseteq S
  <2>. HIDE DEF S
  <2>. QED
    BY <1>2, <1>3, SetInduction
<1>. QED
  BY <1>1, <1>4

(* _filter_discovery_events: what a window of any size keeps, against the   *)
(* true frequencies of its activities.                                      *)
LEMMA RetainedIsRight ==
  ASSUME NEW acts \in Seq(Activities), NEW a \in Activities
  PROVE  LET frequency == Frequency(acts, Len(acts), a)
             entry == Counts(acts)[a]
         IN  /\ entry.n > 0 => entry.n <= frequency /\ frequency <= entry.n + entry.delta
             /\ frequency > Bucket(Len(acts)) => a \in Retained(acts)
             /\ a \in Retained(acts) => frequency > 1
<1>. DEFINE k == Len(acts)
            f == Frequency(acts, k, a)
            e == Counts(acts)[a]
<1>1. k \in Nat /\ f \in Nat
  BY FrequencyNext
<1>2. e \in Entry /\ Right(e, f, k) /\ e.n \in Nat /\ e.delta \in Nat
  BY CountsAreRight DEF CountsRight, Entry
<1>3. a \in Retained(acts) <=> e.n + e.delta > Bucket(k) /\ e.n > 0
  BY DEF Retained, Pruned, Unseen
<1>4. Bucket(k) \in Nat /\ Complete(k) \in Nat /\ Complete(k) <= Bucket(k)
  <2>1. CASE k = 0
    <3>1. \A w \in Nat \ {0} : 0 \div w = 0
      BY Z3
    <3>2. Complete(k) = 0
      BY <2>1, <3>1, OutlierAssumption DEF Complete
    <3>. QED
      BY <1>1, <3>2, Buckets
  <2>2. CASE k # 0
    <3>1. k - 1 \in Nat /\ (k - 1) + 1 = k
      BY <1>1, <2>2
    <3>. QED
      BY <1>1, <3>1, Buckets
  <2>. QED
    BY <2>1, <2>2
<1>. HIDE DEF k, f, e
<1>5. /\ e.n > 0 => e.n <= f /\ f <= e.n + e.delta
      /\ f > Bucket(k) => a \in Retained(acts)
      /\ a \in Retained(acts) => f > 1
  BY <1>1, <1>2, <1>3, <1>4 DEF Right
<1>. QED
  BY <1>5 DEF k, f, e

(* Lossy counting does what it promises for every window size and bucket    *)
(* width, at every moment: a count is never too large and too small by its  *)
(* error at most, an activity that occurs more often than there are buckets *)
(* takes part in the model, and one that occurs once does not.              *)
THEOREM CountingIsLossy == Spec => []LossyCounting
<1>1. TypeOK => LossyCounting
  <2>. SUFFICES ASSUME TypeOK, NEW n \in 1 .. Len(window), NEW a \in Activities
                PROVE  LET acts == SubSeq(window, 1, n)
                           frequency == Cardinality({k \in 1 .. n : acts[k] = a})
                           entry == Counts(acts)[a]
                       IN
                       /\ entry.n > 0 => entry.n <= frequency /\ frequency <= entry.n + entry.delta
                       /\ frequency > Bucket(n) => a \in Retained(acts)
                       /\ a \in Retained(acts) => frequency > 1
    BY DEF LossyCounting
  <2>. DEFINE acts == SubSeq(window, 1, n)
  <2>1. acts \in Seq(Activities) /\ Len(acts) = n
    BY DEF TypeOK
  <2>. HIDE DEF acts
  <2>2. Frequency(acts, Len(acts), a) = Cardinality({k \in 1 .. n : acts[k] = a})
    BY <2>1 DEF Frequency
  <2>3. /\ Counts(acts)[a].n > 0 =>
             /\ Counts(acts)[a].n <= Frequency(acts, n, a)
             /\ Frequency(acts, n, a) <= Counts(acts)[a].n + Counts(acts)[a].delta
        /\ Frequency(acts, n, a) > Bucket(n) => a \in Retained(acts)
        /\ a \in Retained(acts) => Frequency(acts, n, a) > 1
    BY <2>1, RetainedIsRight
  <2>. QED
    BY <2>1, <2>2, <2>3 DEF acts
<1>. QED
  BY <1>1, TypeCorrect, PTL

=============================================================================
