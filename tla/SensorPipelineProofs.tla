------------------------ MODULE SensorPipelineProofs ------------------------
(* Proofs about SensorPipeline, for every batch size, stream length and     *)
(* number of faults.                                                        *)
EXTENDS SensorPipeline, FiniteSetTheorems, TLAPS

-----------------------------------------------------------------------------
(* The inductive invariant.                                                 *)

(* The producer never goes back to an older reading.                        *)
ReadingsOrdered ==
  /\ \A i \in Ids : entries[i] <= made
  /\ \A i, j \in Ids : i < j /\ entries[j] # Unreadable => entries[i] <= entries[j]

(* What is in hand is a run of entries; at an acknowledgement the first of  *)
(* them has just been counted, and outside a round there is nothing.        *)
InHandOf(lo, hi) ==
  /\ batch = lo .. hi
  /\ worker = "ack" => lo <= hi /\ counted # <<>> /\ counted[Len(counted)] = lo
  /\ worker \notin {"entry", "ack"} => hi < lo

BatchInOrder == \E lo, hi \in Nat : InHandOf(lo, hi)

(* The group is past all that was counted or is in hand, or Redis has       *)
(* dropped it.                                                              *)
Passed == \A i \in batch \cup Counted : i < kept \/ i <= delivered

ReadableCounted == \A k \in DOMAIN counted : entries[counted[k]] # Unreadable

IInv ==
  /\ TypeOK
  /\ CountedInOrder
  /\ EveryEntryAccounted
  /\ ReadingsOrdered
  /\ BatchInOrder
  /\ Passed
  /\ ReadableCounted

-----------------------------------------------------------------------------
(* Facts about the parts.                                                   *)

LEMMA SeqOfMore ==
  ASSUME NEW m \in Nat, NEW n \in Nat, m <= n, NEW s \in Seq(1 .. m)
  PROVE  s \in Seq(1 .. n)
<1>1. s \in [1 .. Len(s) -> 1 .. n]
  OBVIOUS
<1>. QED
  BY <1>1

(* The first entry in hand.                                                 *)
LEMMA InHandIs ==
  ASSUME NEW lo \in Nat, NEW hi \in Nat, lo <= hi, batch = lo .. hi
  PROVE  InHand = lo
<1>1. lo \in batch /\ \A j \in batch : lo <= j
  OBVIOUS
<1>2. \A i \in batch : (\A j \in batch : i <= j) => i = lo
  OBVIOUS
<1>3. InHand \in batch /\ \A j \in batch : InHand <= j
  BY <1>1, Zenon DEF InHand
<1>. QED
  BY <1>2, <1>3

LEMMA SplitAt ==
  ASSUME NEW low \in Nat, NEW d \in Nat, NEW n \in Nat, NEW k \in Nat, k <= low, low <= d, d <= n
  PROVE  /\ k < d + 1
         /\ low .. n \subseteq ((d + 1) .. n) \cup (low .. d)
  OBVIOUS

LEMMA InitIInv == Init => IInv
<1>. SUFFICES ASSUME Init PROVE IInv
  OBVIOUS
<1>. USE PipelineAssumption DEF Init
<1>1. TypeOK
  <2>1. entries \in Seq(Nat) /\ counted \in Seq(Ids) /\ Len(entries) = 0
    OBVIOUS
  <2>2. grouped \in BOOLEAN
    BY Zenon
  <2>3. kept \in 1 .. Len(entries) + 1 /\ delivered \in 0 .. Len(entries) /\ made \in Nat /\ budget \in Nat
    BY <2>1
  <2>4. pending \subseteq Ids /\ batch \subseteq Ids /\ dropped \subseteq Ids
    OBVIOUS
  <2>. QED
    BY <2>1, <2>2, <2>3, <2>4 DEF TypeOK
<1>2. CountedInOrder /\ ReadableCounted
  BY DEF CountedInOrder, ReadableCounted
<1>3. EveryEntryAccounted /\ ReadingsOrdered
  BY DEF EveryEntryAccounted, ReadingsOrdered, Ids
<1>4. BatchInOrder
  <2>1. InHandOf(1, 0)
    BY DEF InHandOf
  <2>. QED
    BY <2>1 DEF BatchInOrder
<1>5. Passed
  BY DEF Passed, Counted
<1>. QED
  BY <1>1, <1>2, <1>3, <1>4, <1>5 DEF IInv

(* An entry is stored.                                                      *)
LEMMA XAddIInv ==
  ASSUME IInv, NEW r \in {made, Unreadable}, XAdd(r), UNCHANGED workerVars,
         producer' \in {"connect", "add"}, made' \in {made, made + 1}, budget' \in Nat
  PROVE  IInv'
<1>. USE PipelineAssumption
<1>. DEFINE n == Len(entries)
<1>1. /\ n \in Nat /\ made \in Nat /\ entries \in Seq(Nat) /\ r \in Nat
      /\ kept \in 1 .. n + 1 /\ delivered \in 0 .. n
      /\ pending \subseteq 1 .. n /\ batch \subseteq 1 .. n /\ dropped \subseteq 1 .. n
      /\ counted \in Seq(1 .. n)
  BY DEF IInv, TypeOK, Ids, Unreadable
<1>2. /\ entries' = Append(entries, r) /\ Len(entries') = n + 1
      /\ entries'[n + 1] = r /\ \A i \in 1 .. n : entries'[i] = entries[i]
      /\ UNCHANGED <<grouped, delivered, pending, worker, batch, counted>>
  BY <1>1 DEF XAdd, workerVars
<1>3. PICK oldest \in kept .. Newest(kept, n + 2 - MaxLen) :
        kept' = oldest /\ dropped' = dropped \cup {i \in Due : i < oldest}
  BY DEF XAdd
<1>4. kept <= kept' /\ kept' \in 1 .. n + 1
  BY <1>1, <1>3 DEF Newest
<1>5. TypeOK'
  <2>1. counted \in Seq(1 .. n + 1)
    BY <1>1, SeqOfMore
  <2>2. {i \in Due : i < oldest} \subseteq 1 .. n
    BY <1>1 DEF Due, Newest
  <2>3. grouped \in BOOLEAN /\ worker \in {"connect", "group", "poll", "entry", "ack", "dead"}
    BY DEF IInv, TypeOK
  <2>4. entries' \in Seq(Nat) /\ made' \in Nat
    <3>1. Append(entries, r) \in Seq(Nat)
      BY <1>1
    <3>. QED
      BY <3>1, <1>1, <1>2
  <2>5. pending' \subseteq 1 .. n + 1 /\ batch' \subseteq 1 .. n + 1 /\ dropped' \subseteq 1 .. n + 1
    <3>1. 1 .. n \subseteq 1 .. n + 1
      BY <1>1
    <3>2. dropped' \subseteq 1 .. n
      BY <1>1, <1>3, <2>2
    <3>. HIDE DEF n
    <3>. QED
      BY <1>1, <1>2, <3>1, <3>2
  <2>. QED
    BY <1>1, <1>2, <1>4, <2>1, <2>3, <2>4, <2>5 DEF TypeOK, Ids
<1>6. \A k \in DOMAIN counted : counted[k] \in 1 .. n /\ entries'[counted[k]] = entries[counted[k]]
  BY <1>1, <1>2
<1>7. CountedInOrder' /\ ReadableCounted'
  BY <1>2, <1>6 DEF IInv, CountedInOrder, ReadableCounted, InHand
<1>8. EveryEntryAccounted'
  <2>. SUFFICES ASSUME NEW i \in 1 .. n + 1
                PROVE  i \in Due' \/ i \in pending \/ i \in Counted' \/ i \in dropped'
    BY <1>2 DEF EveryEntryAccounted, Ids
  <2>1. Counted' = Counted
    BY <1>2 DEF Counted
  <2>2. CASE i = n + 1
    BY <2>2, <1>1, <1>2, <1>4 DEF Due, Newest
  <2>3. CASE i \in Due
    BY <2>3, <1>1, <1>2, <1>3, <1>4 DEF Due, Newest
  <2>4. CASE i # n + 1 /\ i \notin Due
    BY <2>4, <2>1, <1>1, <1>3 DEF IInv, EveryEntryAccounted, Ids
  <2>. QED
    BY <2>2, <2>3, <2>4
<1>9. ReadingsOrdered'
  <2>1. \A i \in 1 .. n : entries[i] \in Nat /\ entries[i] <= made
    BY <1>1 DEF IInv, ReadingsOrdered, Ids
  <2>4. \A i, j \in 1 .. n : i < j /\ entries[j] # Unreadable => entries[i] <= entries[j]
    BY DEF IInv, ReadingsOrdered, Ids
  <2>2. ASSUME NEW i \in 1 .. n + 1 PROVE entries'[i] <= made'
    <3>0. n \in Nat /\ made \in Nat /\ made' \in Nat /\ made <= made'
      BY <1>1
    <3>1. CASE i = n + 1
      <4>1. entries'[n + 1] = r
        BY <1>2
      <4>2. r \in Nat /\ r <= made
        BY <3>0 DEF Unreadable
      <4>. QED
        BY <3>0, <3>1, <4>1, <4>2
    <3>2. CASE i # n + 1
      <4>. HIDE DEF n
      <4>1. i \in 1 .. n
        BY <3>0, <3>2
      <4>2. entries'[i] = entries[i]
        BY <4>1, <1>2
      <4>. QED
        BY <2>1, <3>0, <4>1, <4>2
    <3>. QED
      BY <3>1, <3>2
  <2>3. ASSUME NEW i \in 1 .. n + 1, NEW j \in 1 .. n + 1, i < j, entries'[j] # Unreadable
        PROVE  entries'[i] <= entries'[j]
    <3>1. CASE j = n + 1
      BY <3>1, <2>1, <2>3, <1>1, <1>2
    <3>2. CASE j # n + 1
      <4>0. n \in Nat
        BY <1>1
      <4>. HIDE DEF n
      <4>1. i \in 1 .. n /\ j \in 1 .. n
        BY <4>0, <3>2, <2>3
      <4>2. entries'[i] = entries[i] /\ entries'[j] = entries[j]
        BY <4>1, <1>2
      <4>3. entries[i] <= entries[j]
        BY <4>1, <4>2, <2>3, <2>4
      <4>. QED
        BY <4>2, <4>3
    <3>. QED
      BY <3>1, <3>2
  <2>. QED
    BY <2>2, <2>3, <1>2 DEF ReadingsOrdered, Ids
<1>10. BatchInOrder'
  BY <1>2 DEF IInv, BatchInOrder, InHandOf
<1>11. Passed'
  <2>1. batch \cup Counted \subseteq 1 .. n
    BY <1>1, <1>6 DEF Counted
  <2>2. (batch \cup Counted)' = batch \cup Counted
    BY <1>2 DEF Counted
  <2>. QED
    BY <2>1, <2>2, <1>1, <1>2, <1>4 DEF IInv, Passed
<1>. QED
  BY <1>5, <1>7, <1>8, <1>9, <1>10, <1>11 DEF IInv

(* Steps that leave Redis and the worker alone.                             *)
LEMMA ProducerOnlyIInv ==
  ASSUME IInv, UNCHANGED <<redisVars, workerVars>>,
         producer' \in {"connect", "add"}, made' \in {made, made + 1}, budget' \in Nat
  PROVE  IInv'
<1>1. UNCHANGED <<entries, kept, grouped, delivered, pending, dropped, worker, batch, counted>>
  BY DEF redisVars, workerVars
<1>2. TypeOK'
  BY <1>1 DEF IInv, TypeOK, Ids
<1>3. CountedInOrder' /\ EveryEntryAccounted' /\ Passed' /\ ReadableCounted' /\ BatchInOrder'
  BY <1>1 DEF IInv, CountedInOrder, EveryEntryAccounted, Passed, ReadableCounted, BatchInOrder,
     InHandOf, InHand, Ids, Due, Newest, Counted
<1>4. ReadingsOrdered'
  <2>1. \A i \in Ids : entries[i] \in Nat /\ entries[i] <= made /\ made \in Nat
    BY DEF IInv, TypeOK, ReadingsOrdered, Ids
  <2>2. \A i \in Ids : entries[i] <= made'
    BY <2>1
  <2>3. Ids' = Ids /\ entries' = entries
    BY <1>1 DEF Ids
  <2>. QED
    BY <2>2, <2>3 DEF IInv, ReadingsOrdered
<1>. QED
  BY <1>2, <1>3, <1>4 DEF IInv

LEMMA ProducerIInv ==
  ASSUME IInv, ProducerConnect \/ ProducerAdd \/ ForeignEntry
  PROVE  IInv'
<1>1. made \in Nat /\ budget \in Nat /\ producer \in {"connect", "add"}
  BY DEF IInv, TypeOK
<1>2. CASE ProducerConnect
  BY <1>1, <1>2, ProducerOnlyIInv DEF ProducerConnect, redisVars, workerVars
<1>3. CASE ProducerAdd
  <2>1. /\ UNCHANGED workerVars
        /\ producer' \in {"connect", "add"} /\ made' \in {made, made + 1} /\ budget' \in Nat
    BY <1>1, <1>3 DEF ProducerAdd, Answered, CutOff, Spend, producerVars
  <2>2. XAdd(made) \/ UNCHANGED redisVars
    BY <1>3 DEF ProducerAdd
  <2>. QED
    BY <2>1, <2>2, XAddIInv, ProducerOnlyIInv
<1>4. CASE ForeignEntry
  <2>1. UNCHANGED <<producer, made, budget>> /\ UNCHANGED workerVars /\ XAdd(Unreadable)
    BY <1>4 DEF ForeignEntry, producerVars, workerVars
  <2>. QED
    BY <1>1, <2>1, XAddIInv
<1>. QED
  BY <1>2, <1>3, <1>4

(* A worker that has nothing in hand, after a break or before a round, and  *)
(* Redis as it was except for what the group has delivered.                 *)
LEMMA EmptyHandIInv ==
  ASSUME IInv, UNCHANGED <<entries, kept, counted, dropped, producerVars>>,
         batch' = {}, budget' \in Nat, grouped' \in BOOLEAN,
         worker' \in {"connect", "group", "poll", "dead"},
         delivered' = delivered, pending' \subseteq pending, pending \ Counted \subseteq pending'
  PROVE  IInv'
<1>1. UNCHANGED <<entries, kept, counted, dropped, producer, made, delivered>>
  BY DEF producerVars
<1>2. TypeOK'
  BY <1>1 DEF IInv, TypeOK, Ids
<1>3. CountedInOrder' /\ ReadableCounted' /\ ReadingsOrdered'
  BY <1>1 DEF IInv, CountedInOrder, ReadableCounted, ReadingsOrdered, Ids
<1>4. Counted' = Counted /\ Due' = Due /\ Ids' = Ids
  BY <1>1 DEF Counted, Due, Newest, Ids
<1>5. EveryEntryAccounted'
  BY <1>1, <1>4 DEF IInv, EveryEntryAccounted
<1>6. BatchInOrder'
  <2>1. (1 .. 0) = {}
    OBVIOUS
  <2>2. InHandOf(1, 0)'
    BY <2>1 DEF InHandOf
  <2>. QED
    BY <2>2 DEF BatchInOrder
<1>7. Passed'
  BY <1>1, <1>4 DEF IInv, Passed
<1>. QED
  BY <1>2, <1>3, <1>5, <1>6, <1>7 DEF IInv

LEMMA OutsideRoundIInv ==
  ASSUME IInv, Connect \/ EnsureGroup \/ PollCutOff \/ RoundDone \/ AggregatorRestart
  PROVE  IInv'
<1>1. budget \in Nat /\ grouped \in BOOLEAN
  BY DEF IInv, TypeOK
<1>2. worker \notin {"entry", "ack"} => batch = {}
  <2>1. PICK lo \in Nat, hi \in Nat : InHandOf(lo, hi)
    BY DEF IInv, BatchInOrder
  <2>. QED
    BY <2>1 DEF InHandOf
<1>3. /\ UNCHANGED <<entries, kept, counted, dropped, producerVars>>
      /\ delivered' = delivered /\ pending' = pending
      /\ worker' \in {"connect", "group", "poll", "dead"}
  BY DEF Connect, EnsureGroup, PollCutOff, RoundDone, AggregatorRestart, redisVars, producerVars
<1>4. batch' = {}
  BY <1>2 DEF Connect, EnsureGroup, PollCutOff, RoundDone, AggregatorRestart
<1>5. grouped' \in BOOLEAN
  <2>1. grouped' = grouped \/ grouped' = TRUE
    BY DEF Connect, EnsureGroup, PollCutOff, RoundDone, AggregatorRestart, redisVars
  <2>. QED
    BY <1>1, <2>1, Zenon
<1>6. budget' \in Nat
  <2>1. budget' = budget \/ (budget > 0 /\ budget' = budget - 1)
    BY DEF Connect, EnsureGroup, PollCutOff, RoundDone, AggregatorRestart, Answered, CutOff, Spend
  <2>. QED
    BY <1>1, <2>1
<1>. QED
  BY <1>3, <1>4, <1>5, <1>6, EmptyHandIInv

(* Redis forgets everything.                                                *)
LEMMA RedisRestartIInv ==
  ASSUME IInv, RedisRestart
  PROVE  IInv'
<1>. DEFINE n == Len(entries)
<1>1. /\ UNCHANGED <<entries, producer, made, worker, batch, counted>>
      /\ kept' = n + 1 /\ dropped' = dropped \cup Due \cup pending
      /\ grouped' = FALSE /\ delivered' = 0 /\ pending' = {}
  BY DEF RedisRestart, producerVars, workerVars
<1>2. /\ n \in Nat /\ kept \in 1 .. n + 1 /\ delivered \in 0 .. n
      /\ pending \subseteq 1 .. n /\ batch \subseteq 1 .. n /\ dropped \subseteq 1 .. n
      /\ counted \in Seq(1 .. n)
  BY DEF IInv, TypeOK, Ids
<1>3. TypeOK'
  <2>1. Due \subseteq 1 .. n
    BY <1>2 DEF Due, Newest
  <2>2. budget' \in Nat
    BY DEF RedisRestart, Spend, IInv, TypeOK
  <2>3. grouped' \in BOOLEAN
    BY <1>1, Zenon
  <2>4. kept' \in 1 .. n + 1 /\ delivered' \in 0 .. n
    BY <1>1, <1>2
  <2>5. pending' \subseteq 1 .. n /\ dropped' \subseteq 1 .. n
    BY <1>1, <1>2, <2>1
  <2>6. Ids' = 1 .. n /\ Len(entries') = n
    BY <1>1 DEF Ids
  <2>. QED
    BY <1>1, <1>2, <2>2, <2>3, <2>4, <2>5, <2>6 DEF IInv, TypeOK
<1>4. CountedInOrder' /\ ReadableCounted' /\ ReadingsOrdered' /\ BatchInOrder'
  BY <1>1 DEF IInv, CountedInOrder, ReadableCounted, ReadingsOrdered, BatchInOrder, InHandOf, InHand, Ids
<1>5. EveryEntryAccounted'
  BY <1>1 DEF IInv, EveryEntryAccounted, Counted, Ids
<1>6. Passed'
  <2>1. batch \cup Counted \subseteq 1 .. n
    <3>1. \A k \in DOMAIN counted : counted[k] \in 1 .. n
      BY <1>2
    <3>. QED
      BY <1>2, <3>1 DEF Counted
  <2>2. (batch \cup Counted)' = batch \cup Counted
    BY <1>1 DEF Counted
  <2>. QED
    BY <1>1, <1>2, <2>1, <2>2 DEF Passed
<1>. QED
  BY <1>3, <1>4, <1>5, <1>6 DEF IInv

(* A batch is delivered, and its reply arrives or not.                      *)
LEMMA ReadIInv ==
  ASSUME IInv, XReadGroup, UNCHANGED <<counted, producerVars>>, budget' \in Nat,
         \/ worker' = "entry" /\ batch' = Batch
         \/ worker' \in {"poll", "connect"} /\ batch' = {}
  PROVE  IInv'
<1>. USE PipelineAssumption
<1>. DEFINE n == Len(entries)  low == Newest(kept, delivered + 1)
<1>1. UNCHANGED <<entries, kept, grouped, dropped, counted, producer, made>>
  BY DEF XReadGroup, producerVars
<1>2. /\ n \in Nat /\ kept \in 1 .. n + 1 /\ delivered \in 0 .. n
      /\ pending \subseteq 1 .. n /\ batch \subseteq 1 .. n
      /\ counted \in Seq(1 .. n)
  BY DEF IInv, TypeOK, Ids
<1>3. low \in 1 .. n + 1 /\ low >= kept /\ low > delivered
  BY <1>2 DEF Newest
<1>4. low <= n /\ pending' = pending \cup Batch
  <2>1. PICK i \in low .. n : TRUE
    BY DEF XReadGroup, Batch, Due
  <2>. QED
    BY <1>2, <1>3, <2>1 DEF XReadGroup
<1>5. delivered' \in low .. n /\ Batch = low .. delivered'
  <2>1. delivered' = Oldest(low + ReadCount - 1, n) /\ Batch = {i \in low .. n : i < low + ReadCount}
    BY DEF XReadGroup, Batch, Due
  <2>2. delivered' \in low .. n
    BY <2>1, <1>2, <1>3, <1>4 DEF Oldest
  <2>3. \A i \in low .. n : i < low + ReadCount <=> i <= delivered'
    BY <2>1, <1>2, <1>3, <1>4 DEF Oldest
  <2>. HIDE DEF low, n
  <2>4. Batch = {i \in low .. n : i <= delivered'}
    BY <2>1, <2>3
  <2>. QED
    BY <2>2, <2>4, <1>2, <1>3
<1>14. /\ low \in Nat /\ n \in Nat /\ delivered' \in Nat /\ kept \in Nat
       /\ kept <= low /\ low <= delivered' /\ delivered' <= n
  <2>1. low \in Nat /\ n \in Nat /\ kept \in Nat /\ kept <= low
    BY <1>2, <1>3
  <2>. HIDE DEF low, n
  <2>2. delivered' \in low .. n
    BY <1>5
  <2>. QED
    BY <2>1, <2>2
<1>6. batch' \subseteq Batch /\ Batch \subseteq 1 .. n
  BY <1>2, <1>3, <1>5
<1>7. TypeOK'
  <2>1. Ids' = 1 .. n /\ Len(entries') = n /\ Ids = 1 .. n
    BY <1>1 DEF Ids
  <2>2. delivered' \in 0 .. n
    BY <1>2, <1>3, <1>5
  <2>3. pending' \subseteq 1 .. n /\ batch' \subseteq 1 .. n
    BY <1>2, <1>4, <1>6
  <2>. QED
    BY <1>1, <2>1, <2>2, <2>3 DEF IInv, TypeOK
<1>8. \A k \in DOMAIN counted : counted[k] < low
  <2>1. \A k \in DOMAIN counted : counted[k] \in 1 .. n /\ (counted[k] < kept \/ counted[k] <= delivered)
    BY <1>2 DEF IInv, Passed, Counted
  <2>. QED
    BY <1>2, <1>3, <2>1
<1>9. CountedInOrder'
  <2>1. \A k \in DOMAIN counted, i \in batch' : counted[k] < i
    <3>1. \A k \in DOMAIN counted : counted[k] \in Nat
      BY <1>2
    <3>2. \A i \in batch' : i \in Nat /\ low <= i
      BY <1>2, <1>3, <1>5, <1>6
    <3>. QED
      BY <1>3, <1>8, <3>1, <3>2
  <2>. QED
    BY <1>1, <2>1 DEF IInv, CountedInOrder
<1>10. ReadableCounted' /\ ReadingsOrdered'
  BY <1>1 DEF IInv, ReadableCounted, ReadingsOrdered, Ids
<1>11. EveryEntryAccounted'
  <2>1. Counted' = Counted /\ Ids' = Ids /\ Ids = 1 .. n
    BY <1>1 DEF Counted, Ids
  <2>2. Due = low .. n
    BY DEF Due
  <2>3. Due' = (delivered' + 1) .. n
    <3>1. Due' = Newest(kept, delivered' + 1) .. n
      BY <1>1 DEF Due, Newest
    <3>2. kept < delivered' + 1
      BY <1>14, SplitAt
    <3>. QED
      BY <3>1, <3>2 DEF Newest
  <2>4. Due \subseteq Due' \cup Batch
    <3>. HIDE DEF low, n
    <3>2. low .. n \subseteq ((delivered' + 1) .. n) \cup (low .. delivered')
      BY <1>14, SplitAt
    <3>. QED
      BY <1>5, <2>2, <2>3, <3>2
  <2>. QED
    BY <1>1, <1>4, <2>1, <2>4 DEF IInv, EveryEntryAccounted
<1>12. BatchInOrder'
  <2>1. CASE worker' = "entry" /\ batch' = Batch
    <3>2. low \in Nat /\ delivered' \in Nat
      BY <1>3, <1>5
    <3>3. \E lo, hi \in Nat : InHandOf(lo, hi)'
      <4>1. batch' = low .. delivered' /\ worker' = "entry"
        BY <2>1, <1>5
      <4>. HIDE DEF low
      <4>. QED
        BY <4>1, <3>2 DEF InHandOf
    <3>. QED
      BY <3>3 DEF BatchInOrder
  <2>2. CASE worker' \in {"poll", "connect"} /\ batch' = {}
    <3>1. (1 .. 0) = {}
      OBVIOUS
    <3>2. InHandOf(1, 0)'
      BY <2>2, <3>1 DEF InHandOf
    <3>. QED
      BY <3>2 DEF BatchInOrder
  <2>. QED
    BY <2>1, <2>2
<1>13. Passed'
  <2>1. \A i \in batch' : i <= delivered'
    BY <1>2, <1>3, <1>5, <1>6
  <2>2. \A k \in DOMAIN counted : counted[k] <= delivered'
    <3>1. \A k \in DOMAIN counted : counted[k] \in Nat
      BY <1>2
    <3>. QED
      BY <1>2, <1>3, <1>5, <1>8, <3>1
  <2>. QED
    BY <2>1, <2>2, <1>1 DEF Passed, Counted
<1>. QED
  BY <1>7, <1>9, <1>10, <1>11, <1>12, <1>13 DEF IInv

LEMMA PollReadIInv ==
  ASSUME IInv, PollRead
  PROVE  IInv'
<1>1. budget \in Nat /\ grouped \in BOOLEAN
  BY DEF IInv, TypeOK
<1>2. batch = {}
  <2>1. PICK lo \in Nat, hi \in Nat : InHandOf(lo, hi)
    BY DEF IInv, BatchInOrder
  <2>. QED
    BY <2>1 DEF InHandOf, PollRead
<1>3. UNCHANGED <<counted, producerVars>>
  BY DEF PollRead
<1>4. CASE XReadGroup /\ Answered /\ worker' = "entry" /\ batch' = Batch
  BY <1>1, <1>3, <1>4, ReadIInv DEF Answered
<1>5. CASE XReadGroup /\ CutOff /\ worker' \in {"poll", "connect"} /\ UNCHANGED batch
  <2>1. budget' \in Nat
    BY <1>1, <1>5 DEF CutOff, Spend
  <2>. QED
    BY <1>2, <1>3, <1>5, <2>1, ReadIInv
<1>6. CASE UNCHANGED redisVars /\ CutOff /\ worker' \in {"poll", "connect"} /\ UNCHANGED batch
  <2>1. budget' \in Nat
    BY <1>1, <1>6 DEF CutOff, Spend
  <2>2. UNCHANGED <<entries, kept, grouped, delivered, pending, dropped>>
    BY <1>6 DEF redisVars
  <2>. QED
    BY <1>1, <1>2, <1>3, <1>6, <2>1, <2>2, EmptyHandIInv
<1>. QED
  BY <1>4, <1>5, <1>6 DEF PollRead

LEMMA CountEntryIInv ==
  ASSUME IInv, CountEntry
  PROVE  IInv'
<1>. DEFINE n == Len(entries)
<1>1. /\ UNCHANGED <<entries, kept, grouped, delivered, pending, dropped, producer, made, budget>>
      /\ worker = "entry" /\ batch # {}
  BY DEF CountEntry, redisVars, producerVars
<1>2. PICK lo \in Nat, hi \in Nat : InHandOf(lo, hi)
  BY DEF IInv, BatchInOrder
<1>3. batch = lo .. hi /\ lo <= hi
  BY <1>1, <1>2 DEF InHandOf
<1>4. InHand = lo
  BY <1>3, InHandIs
<1>5. /\ n \in Nat /\ entries \in Seq(Nat) /\ counted \in Seq(1 .. n) /\ batch \subseteq 1 .. n
      /\ lo \in 1 .. n
  BY <1>3 DEF IInv, TypeOK, Ids
<1>6. \A k \in DOMAIN counted, i \in batch : counted[k] < i
  BY <1>1 DEF IInv, CountedInOrder
<1>7. /\ Due' = Due /\ Ids' = Ids /\ Ids = 1 .. n
      /\ ReadingsOrdered'
  BY <1>1 DEF IInv, Due, Newest, Ids, ReadingsOrdered
<1>8. CASE entries[lo] = Unreadable
  <2>1. batch' = (lo + 1) .. hi /\ worker' = "entry" /\ counted' = counted
    <3>1. batch' = batch \ {lo} /\ worker' = "entry" /\ counted' = counted
      BY <1>1, <1>4, <1>8 DEF CountEntry
    <3>. QED
      BY <1>3, <3>1
  <2>2. batch' \subseteq batch
    BY <1>3, <2>1
  <2>3. TypeOK'
    BY <1>1, <1>7, <2>1, <2>2 DEF IInv, TypeOK
  <2>4. CountedInOrder' /\ ReadableCounted'
    BY <1>1, <1>6, <2>1, <2>2 DEF IInv, CountedInOrder, ReadableCounted
  <2>5. EveryEntryAccounted' /\ Passed'
    BY <1>1, <1>7, <2>1, <2>2 DEF IInv, EveryEntryAccounted, Passed, Counted
  <2>6. BatchInOrder'
    <3>1. lo + 1 \in Nat
      OBVIOUS
    <3>2. InHandOf(lo + 1, hi)'
      BY <2>1 DEF InHandOf
    <3>. QED
      BY <3>1, <3>2 DEF BatchInOrder
  <2>. QED
    BY <1>7, <2>3, <2>4, <2>5, <2>6 DEF IInv
<1>9. CASE entries[lo] # Unreadable
  <2>1. batch' = batch /\ worker' = "ack" /\ counted' = Append(counted, lo)
    BY <1>1, <1>4, <1>9 DEF CountEntry
  <2>. DEFINE m == Len(counted)
  <2>2. /\ m \in Nat /\ DOMAIN counted = 1 .. m /\ DOMAIN counted' = 1 .. m + 1 /\ Len(counted') = m + 1
        /\ counted'[m + 1] = lo /\ \A k \in 1 .. m : counted'[k] = counted[k]
    BY <1>5, <2>1
  <2>3. counted' \in Seq(1 .. n)
    BY <1>5, <2>1
  <2>4. TypeOK'
    BY <1>1, <1>7, <2>1, <2>3 DEF IInv, TypeOK
  <2>. HIDE DEF n
  <2>5. \A k \in 1 .. m : counted[k] \in 1 .. n /\ counted[k] < lo
    <3>1. lo \in batch
      BY <1>3
    <3>2. \A k \in 1 .. m : counted[k] \in 1 .. n
      BY <1>5, <2>2
    <3>. QED
      BY <1>6, <2>2, <3>1, <3>2
  <2>6. \A k \in 1 .. m : entries[counted[k]] <= entries[lo]
    BY <1>5, <1>7, <1>9, <2>5 DEF IInv, ReadingsOrdered
  <2>7. CountedInOrder'
    <3>1. ASSUME NEW k \in 1 .. m + 1, NEW l \in 1 .. m + 1, k < l
          PROVE  counted'[k] < counted'[l] /\ entries[counted'[k]] <= entries[counted'[l]]
      <4>1. k \in 1 .. m
        BY <2>2, <3>1
      <4>2. CASE l = m + 1
        BY <4>1, <4>2, <2>2, <2>5, <2>6
      <4>3. CASE l # m + 1
        <5>1. l \in 1 .. m
          BY <2>2, <4>3
        <5>. QED
          BY <4>1, <5>1, <2>2, <3>1 DEF IInv, CountedInOrder
      <4>. QED
        BY <4>2, <4>3
    <3>2. ASSUME NEW k \in 1 .. m + 1, NEW i \in batch
          PROVE  counted'[k] < i \/ (k = Len(counted') /\ counted'[k] = lo)
      <4>1. CASE k = m + 1
        BY <4>1, <2>2
      <4>2. CASE k # m + 1
        <5>1. k \in 1 .. m
          BY <2>2, <4>2
        <5>. QED
          BY <5>1, <2>2, <1>6
      <4>. QED
        BY <4>1, <4>2
    <3>3. InHand' = lo
      BY <2>1, <1>4 DEF InHand
    <3>. QED
      BY <1>1, <2>1, <2>2, <3>1, <3>2, <3>3 DEF CountedInOrder
  <2>8. ReadableCounted'
    <3>1. \A k \in 1 .. m + 1 : k = m + 1 \/ k \in 1 .. m
      BY <2>2
    <3>. QED
      BY <1>1, <1>9, <2>2, <3>1 DEF IInv, ReadableCounted
  <2>9. Counted' = Counted \cup {lo}
    <3>1. 1 .. m + 1 = (1 .. m) \cup {m + 1}
      BY <2>2
    <3>. QED
      BY <2>2, <3>1 DEF Counted
  <2>10. EveryEntryAccounted'
    BY <1>1, <1>7, <2>9 DEF IInv, EveryEntryAccounted
  <2>11. Passed'
    <3>1. lo \in batch
      BY <1>3
    <3>. QED
      BY <1>1, <2>1, <2>9, <3>1 DEF IInv, Passed
  <2>12. BatchInOrder'
    <3>1. InHandOf(lo, hi)'
      <4>1. counted' # <<>>
        <5>1. Len(counted') # 0
          BY <2>2
        <5>2. Len(<<>>) = 0
          OBVIOUS
        <5>. QED
          BY <5>1, <5>2
      <4>. QED
        BY <1>3, <2>1, <2>2, <4>1 DEF InHandOf
    <3>. QED
      BY <3>1 DEF BatchInOrder
  <2>. QED
    BY <1>7, <2>4, <2>7, <2>8, <2>10, <2>11, <2>12 DEF IInv
<1>. QED
  BY <1>8, <1>9

LEMMA AckEntryIInv ==
  ASSUME IInv, AckEntry
  PROVE  IInv'
<1>1. /\ UNCHANGED <<entries, kept, grouped, delivered, dropped, counted, producer, made>>
      /\ pending' = pending \/ pending' = pending \ {InHand}
      /\ worker = "ack"
  BY DEF AckEntry, XAck, redisVars, producerVars
<1>2. PICK lo \in Nat, hi \in Nat : InHandOf(lo, hi)
  BY DEF IInv, BatchInOrder
<1>3. /\ batch = lo .. hi /\ lo <= hi
      /\ counted # <<>> /\ counted[Len(counted)] = lo
  BY <1>1, <1>2 DEF InHandOf
<1>4. InHand = lo
  BY <1>3, InHandIs
<1>5. lo \in Counted
  <2>1. counted \in Seq(Ids)
    BY DEF IInv, TypeOK
  <2>2. Len(counted) \in DOMAIN counted
    BY <1>3, <2>1
  <2>. QED
    BY <1>3, <2>2 DEF Counted
<1>6. pending' \subseteq pending /\ pending \ Counted \subseteq pending'
  BY <1>1, <1>4, <1>5
<1>7. budget' \in Nat
  <2>1. budget \in Nat /\ (budget' = budget \/ (budget > 0 /\ budget' = budget - 1))
    BY DEF IInv, TypeOK, AckEntry, Answered, CutOff, Spend
  <2>. QED
    BY <2>1
<1>8. Due' = Due /\ Ids' = Ids /\ Counted' = Counted
  BY <1>1 DEF Due, Newest, Ids, Counted
<1>9. EveryEntryAccounted' /\ ReadingsOrdered' /\ ReadableCounted'
  <2>1. EveryEntryAccounted'
    BY <1>1, <1>6, <1>8 DEF IInv, EveryEntryAccounted
  <2>. QED
    BY <2>1, <1>1, <1>8 DEF IInv, ReadingsOrdered, ReadableCounted
<1>10. CASE worker' = "entry" /\ batch' = batch \ {InHand}
  <2>1. batch' = (lo + 1) .. hi
    BY <1>3, <1>4, <1>10
  <2>2. TypeOK'
    BY <1>1, <1>6, <1>7, <1>8, <1>10 DEF IInv, TypeOK
  <2>3. CountedInOrder'
    <3>1. ASSUME NEW k \in DOMAIN counted, NEW i \in batch'
          PROVE  counted[k] < i
      <4>1. i \in batch /\ lo < i
        BY <1>3, <2>1
      <4>2. counted[k] < i \/ counted[k] = lo
        BY <4>1, <1>4 DEF IInv, CountedInOrder
      <4>. QED
        BY <4>1, <4>2
    <3>. QED
      BY <1>1, <3>1 DEF IInv, CountedInOrder
  <2>4. BatchInOrder'
    <3>1. lo + 1 \in Nat
      OBVIOUS
    <3>2. InHandOf(lo + 1, hi)'
      BY <1>10, <2>1 DEF InHandOf
    <3>. QED
      BY <3>1, <3>2 DEF BatchInOrder
  <2>5. Passed'
    BY <1>1, <1>8, <1>10 DEF IInv, Passed
  <2>. QED
    BY <1>9, <2>2, <2>3, <2>4, <2>5 DEF IInv
<1>11. CASE UNCHANGED <<worker, batch>>
  <2>1. worker' = worker /\ batch' = batch
    BY <1>11
  <2>2. TypeOK'
    BY <1>1, <1>6, <1>7, <1>8, <2>1 DEF IInv, TypeOK
  <2>3. CountedInOrder' /\ BatchInOrder' /\ Passed'
    BY <1>1, <1>8, <2>1 DEF IInv, CountedInOrder, BatchInOrder, InHandOf, InHand, Passed
  <2>. QED
    BY <1>9, <2>2, <2>3 DEF IInv
<1>12. CASE worker' = "connect" /\ batch' = {}
  <2>1. UNCHANGED <<entries, kept, counted, dropped, producerVars>> /\ grouped' \in BOOLEAN
    BY <1>1 DEF IInv, TypeOK, producerVars
  <2>. QED
    BY <1>1, <1>6, <1>7, <1>12, <2>1, EmptyHandIInv
<1>. QED
  BY <1>10, <1>11, <1>12 DEF AckEntry

LEMMA StutterIInv == IInv /\ UNCHANGED vars => IInv'
<1>. SUFFICES ASSUME IInv, UNCHANGED vars PROVE IInv'
  OBVIOUS
<1>1. UNCHANGED <<redisVars, workerVars>> /\ producer' = producer /\ made' = made /\ budget' = budget
  BY DEF vars, redisVars, workerVars
<1>2. producer' \in {"connect", "add"} /\ budget' \in Nat
  BY <1>1 DEF IInv, TypeOK
<1>. QED
  BY <1>1, <1>2, ProducerOnlyIInv

LEMMA NextIInv == IInv /\ [Next]_vars => IInv'
<1>. SUFFICES ASSUME IInv, [Next]_vars PROVE IInv'
  OBVIOUS
<1>1. CASE ProducerConnect \/ ProducerAdd \/ ForeignEntry
  BY <1>1, ProducerIInv
<1>2. CASE Connect \/ EnsureGroup \/ PollCutOff \/ RoundDone \/ AggregatorRestart
  BY <1>2, OutsideRoundIInv
<1>3. CASE PollRead
  BY <1>3, PollReadIInv
<1>4. CASE CountEntry
  BY <1>4, CountEntryIInv
<1>5. CASE AckEntry
  BY <1>5, AckEntryIInv
<1>6. CASE RedisRestart
  BY <1>6, RedisRestartIInv
<1>7. CASE PollNothing \/ Dead \/ UNCHANGED vars
  BY <1>7, StutterIInv DEF PollNothing, Dead
<1>. QED
  BY <1>1, <1>2, <1>3, <1>4, <1>5, <1>6, <1>7 DEF Next, Work

LEMMA InductiveInvariant == Spec => []IInv
  BY InitIInv, NextIInv, PTL DEF Spec

-----------------------------------------------------------------------------
(* Results.                                                                 *)

(* The type invariant: what Redis and the worker refer to was stored.       *)
THEOREM TypeCorrect == Spec => []TypeOK
<1>1. IInv => TypeOK
  BY DEF IInv
<1>. QED
  BY InductiveInvariant, <1>1, PTL

(* run and _poll count the entries of a zone in the order of its stream and *)
(* none of them twice, and never a reading before an older one.             *)
THEOREM CountingInOrder == Spec => []CountedInOrder
<1>1. IInv => CountedInOrder
  BY DEF IInv
<1>. QED
  BY InductiveInvariant, <1>1, PTL

(* _poll acknowledges nothing it has not counted, and _ensure_group skips   *)
(* nothing: every entry stored is due, pending, counted or dropped by Redis.*)
THEOREM NothingMissing == Spec => []EveryEntryAccounted
<1>1. IInv => EveryEntryAccounted
  BY DEF IInv
<1>. QED
  BY InductiveInvariant, <1>1, PTL

-----------------------------------------------------------------------------
(* What is left behind.  A batch is a stretch of the stream as long as      *)
(* ReadCount at most, and every fault leaves at most one such stretch.      *)
Stretch(lo) == lo .. lo + ReadCount - 1

StrandInv ==
  /\ budget <= FaultBudget
  /\ \E lo \in Nat : batch \subseteq Stretch(lo)
  /\ IsFiniteSet(Stranded)
  /\ StrandedBounded

(* A step in which no call is cut off strands nothing; a fault, at most a   *)
(* stretch.                                                                 *)
NothingStranded == budget' = budget /\ Stranded' \subseteq Stranded

StretchStranded ==
  /\ budget' = budget - 1
  /\ \E lo \in Nat : Stranded' \subseteq Stranded \cup Stretch(lo)

LEMMA StretchSize ==
  ASSUME NEW lo \in Nat
  PROVE  IsFiniteSet(Stretch(lo)) /\ Cardinality(Stretch(lo)) = ReadCount
<1>1. lo \in Int /\ lo + ReadCount - 1 \in Int /\ ~(lo > lo + ReadCount - 1)
      /\ (lo + ReadCount - 1) - lo + 1 = ReadCount
  BY PipelineAssumption
<1>. QED
  BY <1>1, FS_Interval DEF Stretch

LEMMA OneMore ==
  ASSUME NEW r \in Nat, NEW f \in Nat, NEW b \in Nat, NEW c \in Nat, NEW d \in Nat,
         c <= r * (f - b), d <= c + r
  PROVE  d <= r * (f - (b - 1))
<1>1. r * (f - (b - 1)) = r * (f - b) + r
  OBVIOUS
<1>2. r * (f - b) \in Int
  OBVIOUS
<1>. QED
  BY <1>1, <1>2

(* The bound is kept.                                                       *)
LEMMA BoundKept ==
  ASSUME IInv, StrandInv, NothingStranded \/ StretchStranded
  PROVE  budget' <= FaultBudget /\ IsFiniteSet(Stranded') /\ StrandedBounded'
<1>1. budget \in Nat /\ FaultBudget \in Nat /\ ReadCount \in Nat
  BY PipelineAssumption DEF IInv, TypeOK
<1>2. IsFiniteSet(Stranded) /\ Cardinality(Stranded) \in Nat
  BY FS_CardinalityType DEF StrandInv
<1>3. CASE NothingStranded
  <2>1. IsFiniteSet(Stranded') /\ Cardinality(Stranded') <= Cardinality(Stranded)
    BY <1>2, <1>3, FS_Subset DEF NothingStranded
  <2>2. Cardinality(Stranded') \in Nat
    BY <2>1, FS_CardinalityType
  <2>. DEFINE bound == ReadCount * (FaultBudget - budget)
  <2>3. bound \in Int /\ Cardinality(Stranded) <= bound
    BY <1>1 DEF StrandInv, StrandedBounded
  <2>4. bound' = bound /\ budget' = budget
    BY <1>3 DEF NothingStranded
  <2>. HIDE DEF bound
  <2>5. Cardinality(Stranded') <= bound'
    BY <1>2, <2>1, <2>2, <2>3, <2>4
  <2>. QED
    BY <2>1, <2>4, <2>5 DEF bound, StrandInv, StrandedBounded
<1>4. CASE StretchStranded
  <2>1. PICK lo \in Nat : Stranded' \subseteq Stranded \cup Stretch(lo)
    BY <1>4 DEF StretchStranded
  <2>. DEFINE both == Stranded \cup Stretch(lo)
  <2>2. IsFiniteSet(Stretch(lo)) /\ Cardinality(Stretch(lo)) = ReadCount
    BY StretchSize
  <2>3. /\ IsFiniteSet(both)
        /\ Cardinality(both) = Cardinality(Stranded) + Cardinality(Stretch(lo))
                               - Cardinality(Stranded \cap Stretch(lo))
    BY <1>2, <2>2, FS_Union
  <2>4. Cardinality(Stranded \cap Stretch(lo)) \in Nat
    <3>1. IsFiniteSet(Stranded \cap Stretch(lo))
      BY <1>2, FS_Intersection
    <3>. QED
      BY <3>1, FS_CardinalityType
  <2>5. Cardinality(both) <= Cardinality(Stranded) + ReadCount /\ Cardinality(both) \in Nat
    BY <1>1, <1>2, <2>2, <2>3, <2>4, FS_CardinalityType
  <2>6. IsFiniteSet(Stranded') /\ Cardinality(Stranded') <= Cardinality(both)
    BY <2>1, <2>3, FS_Subset
  <2>7. Cardinality(Stranded') \in Nat
    BY <2>6, FS_CardinalityType
  <2>8. Cardinality(Stranded') <= Cardinality(Stranded) + ReadCount
    BY <1>1, <1>2, <2>5, <2>6, <2>7
  <2>9. Cardinality(Stranded) <= ReadCount * (FaultBudget - budget)
    BY DEF StrandInv, StrandedBounded
  <2>10. Cardinality(Stranded') <= ReadCount * (FaultBudget - (budget - 1))
    BY <1>1, <1>2, <2>7, <2>8, <2>9, OneMore
  <2>11. budget' = budget - 1 /\ budget - 1 <= FaultBudget
    BY <1>1, <1>4 DEF StretchStranded, StrandInv
  <2>. QED
    BY <2>6, <2>10, <2>11 DEF StrandedBounded
<1>. QED
  BY <1>3, <1>4

LEMMA StrandInit == Init => StrandInv
<1>. SUFFICES ASSUME Init PROVE StrandInv
  OBVIOUS
<1>1. budget = FaultBudget /\ FaultBudget \in Nat /\ ReadCount \in Nat /\ batch = {}
  BY PipelineAssumption DEF Init
<1>2. Stranded = {}
  BY DEF Init, Stranded
<1>3. IsFiniteSet(Stranded) /\ Cardinality(Stranded) = 0
  BY <1>2, FS_EmptySet
<1>4. ReadCount * (FaultBudget - budget) = 0
  BY <1>1
<1>. QED
  BY <1>1, <1>3, <1>4 DEF StrandInv, StrandedBounded

(* The pending list and what was counted stay as they are, and so does what *)
(* is in hand, or it is given up.                                           *)
LEMMA SameStranded ==
  ASSUME UNCHANGED <<entries, pending, counted>>
  PROVE  /\ batch' = batch => Stranded' = Stranded
         /\ Stranded' \subseteq Stranded \cup batch
  BY DEF Stranded, Counted

(* The producer, other writers and Redis itself.                            *)
LEMMA RedisStrands ==
  ASSUME IInv, ProducerConnect \/ ProducerAdd \/ ForeignEntry \/ RedisRestart
  PROVE  batch' = batch /\ (NothingStranded \/ StretchStranded)
<1>1. UNCHANGED <<batch, counted>>
  BY DEF ProducerConnect, ProducerAdd, ForeignEntry, RedisRestart, workerVars
<1>2. Stranded' \subseteq Stranded
  <2>1. CASE RedisRestart
    BY <2>1 DEF RedisRestart, Stranded
  <2>2. CASE UNCHANGED redisVars
    BY <1>1, <2>2, SameStranded DEF redisVars
  <2>3. ASSUME NEW r, XAdd(r)
        PROVE  Stranded' \subseteq Stranded
    <3>1. entries \in Seq(Nat) /\ pending \subseteq 1 .. Len(entries)
      BY DEF IInv, TypeOK, Ids
    <3>2. pending' = pending /\ \A i \in pending : entries'[i] = entries[i]
      BY <2>3, <3>1 DEF XAdd
    <3>. QED
      BY <1>1, <3>2 DEF Stranded, Counted
  <2>. QED
    BY <2>1, <2>2, <2>3 DEF ProducerConnect, ProducerAdd, ForeignEntry
<1>3. budget' = budget \/ budget' = budget - 1
  BY DEF ProducerConnect, ProducerAdd, ForeignEntry, RedisRestart, Answered, CutOff, Spend
<1>. QED
  BY <1>1, <1>2, <1>3 DEF NothingStranded, StretchStranded

(* The worker before a round and after it, and its restart.                 *)
LEMMA OutsideStrands ==
  ASSUME IInv, StrandInv,
         Connect \/ EnsureGroup \/ PollCutOff \/ RoundDone \/ AggregatorRestart
  PROVE  batch' \subseteq batch /\ (NothingStranded \/ StretchStranded)
<1>1. UNCHANGED <<entries, pending, counted>>
  BY DEF Connect, EnsureGroup, PollCutOff, RoundDone, AggregatorRestart, redisVars
<1>2. PICK lo \in Nat : batch \subseteq Stretch(lo)
  BY DEF StrandInv
<1>3. CASE AggregatorRestart
  <2>1. budget' = budget - 1 /\ batch' = {}
    BY <1>3 DEF AggregatorRestart, Spend
  <2>2. Stranded' \subseteq Stranded \cup Stretch(lo)
    BY <1>1, <1>2, SameStranded
  <2>. QED
    BY <2>1, <2>2 DEF StretchStranded
<1>4. CASE ~AggregatorRestart
  <2>1. batch' = batch
    BY <1>4 DEF Connect, EnsureGroup, PollCutOff, RoundDone
  <2>2. Stranded' = Stranded
    BY <1>1, <2>1, SameStranded
  <2>3. budget' = budget \/ budget' = budget - 1
    BY <1>4 DEF Connect, EnsureGroup, PollCutOff, RoundDone, Answered, CutOff, Spend
  <2>. QED
    BY <2>1, <2>2, <2>3 DEF NothingStranded, StretchStranded
<1>. QED
  BY <1>3, <1>4

(* What the group delivers at once is a stretch.                            *)
LEMMA BatchIsStretch ==
  ASSUME IInv
  PROVE  \E lo \in Nat : Batch \subseteq Stretch(lo)
<1>. DEFINE low == Newest(kept, delivered + 1)
<1>1. kept \in Nat /\ delivered \in Nat /\ ReadCount \in Nat /\ Len(entries) \in Nat
  BY PipelineAssumption DEF IInv, TypeOK, Ids
<1>2. low \in Nat
  BY <1>1 DEF Newest
<1>3. Batch = {i \in low .. Len(entries) : i < low + ReadCount}
  BY DEF Batch, Due
<1>. HIDE DEF low
<1>4. Batch \subseteq Stretch(low)
  BY <1>1, <1>2, <1>3 DEF Stretch
<1>. QED
  BY <1>2, <1>4

(* _poll: a batch is in hand, or stranded by a lost reply.                  *)
LEMMA PollReadStrands ==
  ASSUME IInv, PollRead
  PROVE  /\ \E lo \in Nat : batch' \subseteq Stretch(lo)
         /\ NothingStranded \/ StretchStranded
<1>1. counted' = counted
  BY DEF PollRead
<1>2. batch = {}
  <2>1. PICK lo \in Nat, hi \in Nat : InHandOf(lo, hi)
    BY DEF IInv, BatchInOrder
  <2>. QED
    BY <2>1 DEF InHandOf, PollRead
<1>3. PICK lo \in Nat : Batch \subseteq Stretch(lo)
  BY BatchIsStretch
<1>4. XReadGroup => entries' = entries /\ pending' = pending \cup Batch
  BY DEF XReadGroup
<1>5. CASE XReadGroup /\ Answered /\ batch' = Batch
  <2>1. Stranded' \subseteq Stranded
    BY <1>1, <1>2, <1>4, <1>5 DEF Stranded, Counted
  <2>. QED
    BY <1>3, <1>5, <2>1 DEF NothingStranded, Answered
<1>6. CASE (XReadGroup \/ UNCHANGED redisVars) /\ CutOff /\ UNCHANGED batch
  <2>1. Stranded' \subseteq Stranded \cup Batch
    BY <1>1, <1>2, <1>4, <1>6 DEF Stranded, Counted, redisVars
  <2>2. Stranded' \subseteq Stranded \cup Stretch(lo)
    BY <1>3, <2>1
  <2>. QED
    BY <1>2, <1>6, <2>2 DEF StretchStranded, CutOff, Spend
<1>. QED
  BY <1>5, <1>6 DEF PollRead

(* _poll: an entry leaves the hand when it has been counted and             *)
(* acknowledged, or because it does not parse.                              *)
LEMMA EntryStrands ==
  ASSUME IInv, StrandInv, CountEntry \/ AckEntry
  PROVE  batch' \subseteq batch /\ (NothingStranded \/ StretchStranded)
<1>1. PICK lo \in Nat : batch \subseteq Stretch(lo)
  BY DEF StrandInv
<1>2. entries' = entries /\ pending' \subseteq pending
  BY DEF CountEntry, AckEntry, XAck, redisVars
<1>3. batch' \subseteq batch
  BY DEF CountEntry, AckEntry
<1>4. Counted \subseteq Counted'
  <2>1. CASE counted' = counted
    BY <2>1 DEF Counted
  <2>2. CASE counted' = Append(counted, InHand)
    <3>1. counted \in Seq(Ids)
      BY DEF IInv, TypeOK
    <3>2. \A k \in DOMAIN counted : k \in DOMAIN counted' /\ counted'[k] = counted[k]
      BY <2>2, <3>1
    <3>. QED
      BY <3>2 DEF Counted
  <2>. QED
    BY <2>1, <2>2 DEF CountEntry, AckEntry
<1>5. CASE CutOff
  <2>1. Stranded' \subseteq Stranded \cup batch
    BY <1>2, <1>4 DEF Stranded
  <2>2. Stranded' \subseteq Stranded \cup Stretch(lo)
    BY <1>1, <2>1
  <2>. QED
    BY <1>3, <1>5, <2>2 DEF StretchStranded, CutOff, Spend
<1>6. CASE CountEntry
  <2>1. batch' = batch \/ (batch' = batch \ {InHand} /\ entries[InHand] = Unreadable)
    BY <1>6 DEF CountEntry
  <2>2. Stranded' \subseteq Stranded
    BY <1>2, <1>4, <2>1 DEF Stranded
  <2>. QED
    BY <1>3, <1>6, <2>2 DEF NothingStranded, CountEntry
<1>7. CASE AckEntry /\ ~CutOff
  <2>1. batch' = batch \ {InHand} /\ budget' = budget /\ worker = "ack" /\ counted' = counted
    BY <1>7 DEF AckEntry, Answered
  <2>2. InHand \in Counted
    <3>1. PICK l \in Nat, h \in Nat : InHandOf(l, h)
      BY DEF IInv, BatchInOrder
    <3>2. batch = l .. h /\ l <= h /\ counted # <<>> /\ counted[Len(counted)] = l
      BY <2>1, <3>1 DEF InHandOf
    <3>3. counted \in Seq(Ids)
      BY DEF IInv, TypeOK
    <3>4. Len(counted) \in DOMAIN counted
      BY <3>2, <3>3
    <3>5. InHand = l
      BY <3>2, InHandIs
    <3>. QED
      BY <3>2, <3>4, <3>5 DEF Counted
  <2>3. Stranded' \subseteq Stranded
    BY <1>2, <1>4, <2>1, <2>2 DEF Stranded
  <2>. QED
    BY <1>3, <2>1, <2>3 DEF NothingStranded
<1>. QED
  BY <1>5, <1>6, <1>7

(* A step strands nothing unless it spends a fault.                         *)
LEMMA StrandStep == IInv /\ StrandInv /\ [Next]_vars => StrandInv'
<1>. SUFFICES ASSUME IInv, StrandInv, [Next]_vars PROVE StrandInv'
  OBVIOUS
<1>1. /\ \E lo \in Nat : batch' \subseteq Stretch(lo)
      /\ NothingStranded \/ StretchStranded
  <2>1. \E lo \in Nat : batch \subseteq Stretch(lo)
    BY DEF StrandInv
  <2>2. CASE PollNothing \/ Dead \/ UNCHANGED vars
    <3>1. UNCHANGED <<entries, pending, counted, batch, budget>>
      BY <2>2 DEF PollNothing, Dead, vars
    <3>. QED
      BY <2>1, <3>1, SameStranded DEF NothingStranded
  <2>3. CASE ProducerConnect \/ ProducerAdd \/ ForeignEntry \/ RedisRestart
    BY <2>1, <2>3, RedisStrands
  <2>4. CASE Connect \/ EnsureGroup \/ PollCutOff \/ RoundDone \/ AggregatorRestart
    BY <2>1, <2>4, OutsideStrands
  <2>5. CASE PollRead
    BY <2>5, PollReadStrands
  <2>6. CASE CountEntry \/ AckEntry
    BY <2>1, <2>6, EntryStrands
  <2>. QED
    BY <2>2, <2>3, <2>4, <2>5, <2>6 DEF Next, Work
<1>2. budget' <= FaultBudget /\ IsFiniteSet(Stranded') /\ StrandedBounded'
  BY <1>1, BoundKept
<1>3. \A lo \in Nat : Stretch(lo)' = Stretch(lo)
  BY DEF Stretch
<1>. QED
  BY <1>1, <1>2, <1>3 DEF StrandInv

(* What _poll leaves pending and uncounted is at most one batch for every   *)
(* call that was cut off and every restart: nothing accumulates while the   *)
(* connection holds.                                                        *)
THEOREM StrandingIsBounded == Spec => []StrandedBounded
<1>1. StrandInv => StrandedBounded
  BY DEF StrandInv
<1>. QED
  BY InductiveInvariant, StrandInit, StrandStep, <1>1, PTL DEF Spec

-----------------------------------------------------------------------------
(* What is stored twice or not at all.  A fault pays for one reading or one *)
(* entry too many; it pays in advance when a reading was stored without an  *)
(* answer and the producer still holds it.                                  *)
StoredOf(s, r) == \E i \in 1 .. Len(s) : s[i] = r

RepeatsOf(s) ==
  {i \in 1 .. Len(s) : s[i] # Unreadable /\ \E j \in 1 .. i - 1 : s[j] = s[i]}

MissingOf(s, m) == {r \in 1 .. m - 1 : ~StoredOf(s, r)}

Credit(s, m) == IF StoredOf(s, m) THEN 1 ELSE 0

(* What the faults so far have to pay for.                                  *)
Owed(s, m) == Cardinality(RepeatsOf(s)) + Cardinality(MissingOf(s, m)) + Credit(s, m)

OffInv ==
  /\ made \in Nat \ {0}
  /\ Owed(entries, made) <= FaultBudget - budget

LEMMA RepeatsAndMissing ==
  Repeats = RepeatsOf(entries) /\ Missing = MissingOf(entries, made)
BY DEF Repeats, RepeatsOf, Missing, MissingOf, StoredOf, Ids

LEMMA OwedTypes ==
  ASSUME NEW s \in Seq(Nat), NEW m \in Nat
  PROVE  /\ IsFiniteSet(RepeatsOf(s)) /\ Cardinality(RepeatsOf(s)) \in Nat
         /\ IsFiniteSet(MissingOf(s, m)) /\ Cardinality(MissingOf(s, m)) \in Nat
         /\ Credit(s, m) \in {0, 1} /\ Owed(s, m) \in Nat
<1>1. RepeatsOf(s) \subseteq 1 .. Len(s) /\ MissingOf(s, m) \subseteq 1 .. m - 1
  BY DEF RepeatsOf, MissingOf
<1>2. IsFiniteSet(1 .. Len(s)) /\ IsFiniteSet(1 .. m - 1)
  BY FS_Interval
<1>3. IsFiniteSet(RepeatsOf(s)) /\ IsFiniteSet(MissingOf(s, m))
  BY <1>1, <1>2, FS_Subset
<1>4. Cardinality(RepeatsOf(s)) \in Nat /\ Cardinality(MissingOf(s, m)) \in Nat
  BY <1>3, FS_CardinalityType
<1>5. Credit(s, m) \in {0, 1}
  BY DEF Credit
<1>. QED
  BY <1>3, <1>4, <1>5 DEF Owed

(* One more entry.                                                          *)
LEMMA OneEntryMore ==
  ASSUME NEW s \in Seq(Nat), NEW r \in Nat
  PROVE  /\ Len(Append(s, r)) = Len(s) + 1
         /\ \A i \in 1 .. Len(s) : Append(s, r)[i] = s[i]
         /\ Append(s, r)[Len(s) + 1] = r
         /\ \A x : StoredOf(Append(s, r), x) <=> StoredOf(s, x) \/ x = r
         /\ RepeatsOf(Append(s, r))
              = IF r # Unreadable /\ StoredOf(s, r) THEN RepeatsOf(s) \cup {Len(s) + 1} ELSE RepeatsOf(s)
         /\ Len(s) + 1 \notin RepeatsOf(s)
<1>. DEFINE t == Append(s, r)
            n == Len(s)
<1>1. n \in Nat /\ Len(t) = n + 1 /\ (\A i \in 1 .. n : t[i] = s[i]) /\ t[n + 1] = r
  OBVIOUS
<1>. HIDE DEF t
<1>2. \A i \in 1 .. n + 1 : i \in 1 .. n \/ i = n + 1
  BY <1>1
<1>3. 1 .. n \subseteq 1 .. n + 1 /\ n + 1 \in 1 .. n + 1 /\ n + 1 \notin 1 .. n
  BY <1>1
<1>4. \A x : StoredOf(t, x) <=> StoredOf(s, x) \/ x = r
  BY <1>1, <1>2, <1>3 DEF StoredOf
<1>5. n + 1 \notin RepeatsOf(s)
  BY <1>3 DEF RepeatsOf
<1>6. ASSUME NEW i \in 1 .. n
      PROVE  i \in RepeatsOf(t) <=> i \in RepeatsOf(s)
  <2>1. t[i] = s[i] /\ \A j \in 1 .. i - 1 : t[j] = s[j]
    BY <1>1
  <2>. QED
    BY <1>1, <1>3, <2>1 DEF RepeatsOf
<1>7. n + 1 \in RepeatsOf(t) <=> r # Unreadable /\ StoredOf(s, r)
  <2>1. (n + 1) - 1 = n
    BY <1>1
  <2>. QED
    BY <1>1, <1>3, <2>1 DEF RepeatsOf, StoredOf
<1>8. RepeatsOf(t) \subseteq 1 .. n + 1 /\ RepeatsOf(s) \subseteq 1 .. n
  BY <1>1 DEF RepeatsOf
<1>9. RepeatsOf(t)
        = IF r # Unreadable /\ StoredOf(s, r) THEN RepeatsOf(s) \cup {n + 1} ELSE RepeatsOf(s)
  <2>1. CASE r # Unreadable /\ StoredOf(s, r)
    <3>1. RepeatsOf(t) = RepeatsOf(s) \cup {n + 1}
      BY <1>2, <1>6, <1>7, <1>8, <2>1
    <3>. QED
      BY <2>1, <3>1
  <2>2. CASE ~(r # Unreadable /\ StoredOf(s, r))
    <3>1. RepeatsOf(t) = RepeatsOf(s)
      BY <1>2, <1>5, <1>6, <1>7, <1>8, <2>2
    <3>. QED
      BY <2>2, <3>1
  <2>. QED
    BY <2>1, <2>2
<1>. QED
  BY <1>1, <1>4, <1>5, <1>9 DEF t

(* The reading is stored: it repeats one only on credit.                    *)
LEMMA StoringIsPaid ==
  ASSUME NEW s \in Seq(Nat), NEW m \in Nat \ {0}, \A i \in 1 .. Len(s) : s[i] <= m
  PROVE  /\ Owed(Append(s, m), m) <= Owed(s, m) + 1
         /\ Owed(Append(s, m), m + 1) = Owed(s, m)
<1>. DEFINE t == Append(s, m)
<1>1. t \in Seq(Nat)
  OBVIOUS
<1>2. MissingOf(t, m) = MissingOf(s, m)
  <2>1. \A r \in 1 .. m - 1 : r # m
    OBVIOUS
  <2>. QED
    BY <2>1, OneEntryMore DEF MissingOf
<1>3. MissingOf(t, m + 1) = MissingOf(s, m)
  <2>1. \A r : r \in 1 .. (m + 1) - 1 <=> r \in 1 .. m - 1 \/ r = m
    OBVIOUS
  <2>2. m \notin 1 .. m - 1 /\ StoredOf(t, m)
    BY OneEntryMore
  <2>. QED
    BY <1>2, <2>1, <2>2 DEF MissingOf
<1>4. Credit(t, m) = 1 /\ Credit(t, m + 1) = 0
  <2>1. StoredOf(t, m)
    BY OneEntryMore
  <2>2. ~StoredOf(s, m + 1) /\ m + 1 # m
    <3>1. \A i \in 1 .. Len(s) : s[i] \in Nat /\ s[i] <= m
      OBVIOUS
    <3>. QED
      BY <3>1 DEF StoredOf
  <2>3. ~StoredOf(t, m + 1)
    BY <2>2, OneEntryMore
  <2>. QED
    BY <2>1, <2>3 DEF Credit
<1>5. Cardinality(RepeatsOf(t)) = Cardinality(RepeatsOf(s)) + Credit(s, m)
  <2>1. IsFiniteSet(RepeatsOf(s)) /\ Cardinality(RepeatsOf(s)) \in Nat
    BY OwedTypes
  <2>2. CASE StoredOf(s, m)
    <3>1. RepeatsOf(t) = RepeatsOf(s) \cup {Len(s) + 1} /\ Len(s) + 1 \notin RepeatsOf(s)
      BY <2>2, OneEntryMore DEF Unreadable
    <3>2. Cardinality(RepeatsOf(t)) = Cardinality(RepeatsOf(s)) + 1
      BY <2>1, <3>1, FS_AddElement
    <3>. QED
      BY <2>2, <3>2 DEF Credit
  <2>3. CASE ~StoredOf(s, m)
    <3>1. RepeatsOf(t) = RepeatsOf(s)
      BY <2>3, OneEntryMore
    <3>. QED
      BY <2>1, <2>3, <3>1 DEF Credit
  <2>. QED
    BY <2>2, <2>3
<1>. HIDE DEF t
<1>6. /\ Cardinality(RepeatsOf(s)) \in Nat /\ Cardinality(MissingOf(s, m)) \in Nat
      /\ Credit(s, m) \in {0, 1}
  BY OwedTypes
<1>7. Owed(t, m) = Cardinality(RepeatsOf(s)) + Credit(s, m) + Cardinality(MissingOf(s, m)) + 1
  BY <1>2, <1>4, <1>5 DEF Owed
<1>8. Owed(t, m + 1) = Cardinality(RepeatsOf(s)) + Credit(s, m) + Cardinality(MissingOf(s, m)) + 0
  BY <1>3, <1>4, <1>5 DEF Owed
<1>. QED
  BY <1>6, <1>7, <1>8 DEF Owed, t

(* The reading is given up: it is missing unless it was stored before.      *)
LEMMA GivingUpIsPaid ==
  ASSUME NEW s \in Seq(Nat), NEW m \in Nat \ {0}, \A i \in 1 .. Len(s) : s[i] <= m
  PROVE  Owed(s, m + 1) <= Owed(s, m) + 1
<1>1. /\ Cardinality(RepeatsOf(s)) \in Nat /\ Credit(s, m) \in {0, 1}
      /\ IsFiniteSet(MissingOf(s, m)) /\ Cardinality(MissingOf(s, m)) \in Nat
  BY OwedTypes
<1>2. Credit(s, m + 1) = 0
  <2>1. \A i \in 1 .. Len(s) : s[i] \in Nat /\ s[i] <= m
    OBVIOUS
  <2>. QED
    BY <2>1 DEF Credit, StoredOf
<1>3. MissingOf(s, m + 1) = MissingOf(s, m) \/ MissingOf(s, m + 1) = MissingOf(s, m) \cup {m}
  <2>1. \A r : r \in 1 .. (m + 1) - 1 <=> r \in 1 .. m - 1 \/ r = m
    OBVIOUS
  <2>. QED
    BY <2>1 DEF MissingOf
<1>4. m \notin MissingOf(s, m)
  BY DEF MissingOf
<1>5. Cardinality(MissingOf(s, m + 1)) <= Cardinality(MissingOf(s, m)) + 1
      /\ Cardinality(MissingOf(s, m + 1)) \in Nat
  <2>1. Cardinality(MissingOf(s, m) \cup {m}) = Cardinality(MissingOf(s, m)) + 1
    BY <1>1, <1>4, FS_AddElement
  <2>2. CASE MissingOf(s, m + 1) = MissingOf(s, m)
    BY <1>1, <2>2
  <2>3. CASE MissingOf(s, m + 1) = MissingOf(s, m) \cup {m}
    <3>1. Cardinality(MissingOf(s, m + 1)) = Cardinality(MissingOf(s, m)) + 1
      BY <2>1, <2>3
    <3>2. \A c \in Nat : c + 1 <= c + 1 /\ c + 1 \in Nat
      OBVIOUS
    <3>. QED
      BY <1>1, <3>1, <3>2, Zenon
  <2>. QED
    BY <1>3, <2>2, <2>3
<1>. QED
  BY <1>1, <1>2, <1>5 DEF Owed

(* An entry of another writer is neither.                                   *)
LEMMA ForeignIsFree ==
  ASSUME NEW s \in Seq(Nat), NEW m \in Nat \ {0}
  PROVE  Owed(Append(s, Unreadable), m) = Owed(s, m)
<1>1. Unreadable \in Nat /\ m # Unreadable /\ \A r \in 1 .. m - 1 : r # Unreadable
  BY DEF Unreadable
<1>2. RepeatsOf(Append(s, Unreadable)) = RepeatsOf(s)
  BY <1>1, OneEntryMore
<1>3. /\ MissingOf(Append(s, Unreadable), m) = MissingOf(s, m)
      /\ Credit(Append(s, Unreadable), m) = Credit(s, m)
  BY <1>1, OneEntryMore DEF MissingOf, Credit
<1>. QED
  BY <1>2, <1>3 DEF Owed

LEMMA OffStep == IInv /\ OffInv /\ [Next]_vars => OffInv'
<1>. SUFFICES ASSUME IInv, OffInv, [Next]_vars PROVE OffInv'
  OBVIOUS
<1>1. /\ entries \in Seq(Nat) /\ made \in Nat \ {0} /\ budget \in Nat /\ FaultBudget \in Nat
      /\ \A i \in 1 .. Len(entries) : entries[i] <= made
  BY PipelineAssumption DEF IInv, TypeOK, ReadingsOrdered, Ids, OffInv
<1>2. Owed(entries, made) \in Nat /\ Owed(entries, made) <= FaultBudget - budget
  BY <1>1, OwedTypes DEF OffInv
<1>3. ASSUME UNCHANGED <<entries, made>>, budget' = budget \/ Spend
      PROVE  OffInv'
  <2>1. budget' \in Nat /\ budget' <= budget
    BY <1>1, <1>3 DEF Spend
  <2>2. Owed(entries', made') = Owed(entries, made) /\ made' = made
    BY <1>3
  <2>3. Owed(entries', made') <= FaultBudget - budget'
    BY <1>1, <1>2, <2>1, <2>2
  <2>. QED
    BY <1>1, <2>2, <2>3 DEF OffInv
<1>4. CASE ProducerAdd
  <2>1. /\ entries' = entries \/ entries' = Append(entries, made)
        /\ \/ Answered /\ entries' = Append(entries, made) /\ made' = made + 1
           \/ CutOff /\ made' \in {made, made + 1}
    BY <1>4 DEF ProducerAdd, XAdd, redisVars, producerVars
  <2>2. CASE Answered /\ entries' = Append(entries, made) /\ made' = made + 1
    <3>1. Owed(entries', made') = Owed(entries, made)
      BY <1>1, <2>2, StoringIsPaid
    <3>2. Owed(entries', made') <= FaultBudget - budget'
      BY <1>2, <2>2, <3>1 DEF Answered
    <3>. QED
      BY <1>1, <2>2, <3>2 DEF OffInv
  <2>3. CASE CutOff /\ made' \in {made, made + 1}
    <3>1. Owed(entries', made') \in {Owed(entries, made), Owed(Append(entries, made), made),
                                    Owed(Append(entries, made), made + 1), Owed(entries, made + 1)}
      BY <2>1, <2>3
    <3>2. Append(entries, made) \in Seq(Nat) /\ made + 1 \in Nat
      BY <1>1
    <3>3. /\ Owed(Append(entries, made), made) \in Nat
          /\ Owed(Append(entries, made), made + 1) \in Nat
          /\ Owed(entries, made + 1) \in Nat
      BY <1>1, <3>2, OwedTypes
    <3>4. /\ Owed(Append(entries, made), made) <= Owed(entries, made) + 1
          /\ Owed(Append(entries, made), made + 1) = Owed(entries, made)
          /\ Owed(entries, made + 1) <= Owed(entries, made) + 1
      BY <1>1, StoringIsPaid, GivingUpIsPaid
    <3>5. Owed(entries', made') \in Nat /\ Owed(entries', made') <= Owed(entries, made) + 1
      BY <1>2, <3>1, <3>3, <3>4
    <3>6. budget' = budget - 1
      BY <2>3 DEF CutOff, Spend
    <3>7. Owed(entries', made') <= FaultBudget - budget'
      BY <1>1, <1>2, <3>5, <3>6
    <3>. QED
      BY <1>1, <2>3, <3>7 DEF OffInv
  <2>. QED
    BY <2>1, <2>2, <2>3
<1>5. CASE ForeignEntry
  <2>1. entries' = Append(entries, Unreadable) /\ made' = made /\ budget' = budget
    BY <1>5 DEF ForeignEntry, XAdd, producerVars
  <2>2. Owed(entries', made') = Owed(entries, made)
    BY <1>1, <2>1, ForeignIsFree
  <2>. QED
    BY <1>2, <2>1, <2>2 DEF OffInv
<1>6. CASE ProducerConnect \/ RedisRestart \/ AggregatorRestart \/ Dead \/ UNCHANGED vars
  BY <1>3, <1>6 DEF ProducerConnect, RedisRestart, AggregatorRestart, Dead, vars, redisVars,
     producerVars
<1>7. CASE Connect \/ EnsureGroup \/ PollNothing \/ PollCutOff \/ RoundDone
  BY <1>3, <1>7 DEF Connect, EnsureGroup, PollNothing, PollCutOff, RoundDone, vars, redisVars,
     producerVars, Answered, CutOff
<1>8. CASE PollRead
  BY <1>3, <1>8 DEF PollRead, XReadGroup, redisVars, producerVars, Answered, CutOff
<1>9. CASE CountEntry \/ AckEntry
  BY <1>3, <1>9 DEF CountEntry, AckEntry, XAck, redisVars, producerVars, Answered, CutOff
<1>. QED
  BY <1>4, <1>5, <1>6, <1>7, <1>8, <1>9 DEF Next, Work

LEMMA OffInit == Init => OffInv
<1>. SUFFICES ASSUME Init PROVE OffInv
  OBVIOUS
<1>1. entries = <<>> /\ made = 1 /\ budget = FaultBudget /\ FaultBudget \in Nat
  BY PipelineAssumption DEF Init
<1>2. RepeatsOf(entries) = {} /\ MissingOf(entries, made) = {} /\ ~StoredOf(entries, made)
  BY <1>1 DEF RepeatsOf, MissingOf, StoredOf
<1>3. Owed(entries, made) = 0
  BY <1>2, FS_EmptySet DEF Owed, Credit
<1>. QED
  BY <1>1, <1>3 DEF OffInv

(* Every reading of the producer is one entry of the stream, but for one    *)
(* reading or entry for each connection that broke: xadd sent again, or     *)
(* given up by the loop.                                                    *)
THEOREM ReadingsAreStoredOnce == Spec => []ReadingsOffByFaults
<1>1. IInv /\ OffInv => ReadingsOffByFaults
  <2>. SUFFICES ASSUME IInv, OffInv PROVE ReadingsOffByFaults
    OBVIOUS
  <2>1. /\ entries \in Seq(Nat) /\ made \in Nat /\ budget \in Nat /\ FaultBudget \in Nat
    BY PipelineAssumption DEF IInv, TypeOK
  <2>2. /\ Cardinality(RepeatsOf(entries)) \in Nat /\ Cardinality(MissingOf(entries, made)) \in Nat
        /\ Credit(entries, made) \in {0, 1}
    BY <2>1, OwedTypes
  <2>3. Owed(entries, made) <= FaultBudget - budget
    BY DEF OffInv
  <2>. QED
    BY <2>1, <2>2, <2>3, RepeatsAndMissing DEF Owed, ReadingsOffByFaults
<1>. QED
  BY InductiveInvariant, OffInit, OffStep, <1>1, PTL DEF Spec

=============================================================================
