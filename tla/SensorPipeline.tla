--------------------------- MODULE SensorPipeline ---------------------------
(* One zone of the edge sensor pipeline, the system under test of the       *)
(* example experiments: a producer that adds readings to a Redis stream and *)
(* the worker of the aggregator that reads the stream through a consumer    *)
(* group.  Workers of different zones share nothing.  Entries are numbered  *)
(* in the order in which Redis stored them; Redis keeps no data on disk.    *)
(* Which readings there are and their average are left out.                 *)
EXTENDS Integers, Sequences, FiniteSets

CONSTANTS
  ReadCount,    \* READ_COUNT
  MaxLen,       \* STREAM_MAXLEN
  MaxReadings,  \* bound: readings the producer makes
  MaxEntries,   \* bound: entries that are ever stored
  MaxForeign,   \* bound: entries of other writers
  FaultBudget   \* bound: calls cut off and restarts

ASSUME PipelineAssumption ==
  /\ ReadCount \in Nat \ {0}
  /\ MaxLen \in Nat \ {0}
  /\ MaxReadings \in Nat
  /\ MaxEntries \in Nat
  /\ MaxForeign \in Nat
  /\ FaultBudget \in Nat

VARIABLES
  producer,   \* "connect" or "add"
  made,       \* the reading the producer is about to add
  entries,    \* history: the reading of every entry ever stored
  kept,       \* the oldest entry that Redis still has
  grouped,    \* the consumer group exists
  delivered,  \* its last delivered entry
  pending,    \* its entries delivered and not acknowledged
  worker,     \* what the worker does next
  batch,      \* the entries it has in hand
  counted,    \* history: the entries it has counted, in that order
  dropped,    \* history: entries Redis no longer had when they were due
  budget      \* faults the environment may still show

vars == <<producer, made, entries, kept, grouped, delivered, pending,
          worker, batch, counted, dropped, budget>>

redisVars == <<entries, kept, grouped, delivered, pending, dropped>>
producerVars == <<producer, made>>
workerVars == <<worker, batch, counted>>

(* An entry that is not of the producer and has no value that parses.       *)
Unreadable == 0

Init ==
  /\ producer = "connect" /\ made = 1
  /\ entries = <<>> /\ kept = 1 /\ dropped = {}
  /\ grouped = FALSE /\ delivered = 0 /\ pending = {}
  /\ worker = "connect" /\ batch = {} /\ counted = <<>>
  /\ budget = FaultBudget

-----------------------------------------------------------------------------
(* Redis and its client.                                                    *)

Oldest(i, j) == IF i < j THEN i ELSE j
Newest(i, j) == IF i < j THEN j ELSE i

(* The entries the group has still to deliver.                              *)
Due == Newest(kept, delivered + 1) .. Len(entries)

Spend == budget > 0 /\ budget' = budget - 1

(* A call is carried out once and answered, or the connection breaks before *)
(* or after it was carried out.  The client library then sends it again a   *)
(* few times; if that is of no use the caller gets a ConnectionError.       *)
Answered == UNCHANGED budget
CutOff == Spend

(* XADD with an approximate MAXLEN: the oldest entries may go as long as    *)
(* MaxLen are left.                                                         *)
XAdd(reading) ==
  /\ Len(entries) < MaxEntries
  /\ entries' = Append(entries, reading)
  /\ \E oldest \in kept .. Newest(kept, Len(entries) + 2 - MaxLen) :
       /\ kept' = oldest
       /\ dropped' = dropped \cup {i \in Due : i < oldest}
  /\ UNCHANGED <<grouped, delivered, pending>>

(* XREADGROUP with ">": the next entries that nobody in the group has got.  *)
Batch == {i \in Due : i < Newest(kept, delivered + 1) + ReadCount}

XReadGroup ==
  /\ Batch # {}
  /\ delivered' = Oldest(Newest(kept, delivered + 1) + ReadCount - 1, Len(entries))
  /\ pending' = pending \cup Batch
  /\ UNCHANGED <<entries, kept, grouped, dropped>>

XAck(i) == pending' = pending \ {i} /\ UNCHANGED <<entries, kept, grouped, delivered, dropped>>

(* Redis starts afresh: stream and group are gone.  Connections that idle   *)
(* or wait are renewed by the client library without the caller noticing.   *)
RedisRestart ==
  /\ Spend
  /\ kept' = Len(entries) + 1
  /\ dropped' = dropped \cup Due \cup pending
  /\ grouped' = FALSE /\ delivered' = 0 /\ pending' = {}
  /\ UNCHANGED <<entries, producerVars, workerVars>>

(* Another client adds an entry without a value that parses.                *)
ForeignEntry ==
  /\ Cardinality({i \in DOMAIN entries : entries[i] = Unreadable}) < MaxForeign
  /\ XAdd(Unreadable)
  /\ UNCHANGED <<producerVars, workerVars, budget>>

-----------------------------------------------------------------------------
(* The producer.                                                            *)

(* Mutant of ProducerConnect: the reading that is due meanwhile is skipped. *)
ProducerConnectSkips ==
  /\ producer = "connect" /\ producer' = "add"
  /\ made' = made + 1
  /\ UNCHANGED <<redisVars, workerVars, budget>>

(* connect: Redis is pinged every two seconds until it answers.             *)
ProducerConnect ==
  /\ producer = "connect" /\ producer' = "add"
  /\ UNCHANGED <<made, redisVars, workerVars, budget>>

(* A reading that could not be added is not tried again by the loop; one    *)
(* that was stored without an answer is stored a second time when the       *)
(* library sends it again.                                                  *)
ProducerAdd ==
  /\ producer = "add" /\ made <= MaxReadings
  /\ \/ /\ XAdd(made) /\ Answered
        /\ made' = made + 1 /\ UNCHANGED producer
     \/ /\ XAdd(made) \/ UNCHANGED redisVars
        /\ CutOff
        /\ \/ UNCHANGED producerVars
           \/ made' = made + 1 /\ producer' = "connect"
  /\ UNCHANGED workerVars

-----------------------------------------------------------------------------
(* The worker.                                                              *)

(* _connect, as in the producer.                                            *)
Connect ==
  /\ worker = "connect" /\ worker' = "group"
  /\ UNCHANGED <<batch, counted, producerVars, redisVars, budget>>

(* Mutant of EnsureGroup: the group starts at the end of the stream.        *)
EnsureGroupLatest ==
  /\ worker = "group" /\ worker' = "poll"
  /\ grouped' = TRUE
  /\ delivered' = IF grouped THEN delivered ELSE Len(entries)
  /\ UNCHANGED <<entries, kept, pending, dropped, batch, counted, producerVars, budget>>

(* _ensure_group: the group starts at the beginning of the stream; one that *)
(* exists is left as it is.  A ConnectionError is handled by nobody: it     *)
(* ends the thread, at the start as well as after a reconnect.              *)
EnsureGroup ==
  /\ worker = "group"
  /\ \/ Answered /\ worker' = "poll" /\ grouped' = TRUE
     \/ CutOff /\ worker' \in {"group", "dead"} /\ grouped' \in {grouped, TRUE}
  /\ UNCHANGED <<entries, kept, delivered, pending, dropped, batch, counted, producerVars>>

(* Mutant of PollRead: after a reconnect the worker asks for what is        *)
(* pending before it asks for more.                                         *)
PollReadPending ==
  /\ worker = "poll" /\ grouped
  /\ IF pending # {}
     THEN batch' = {i \in pending : i >= kept} /\ UNCHANGED redisVars
     ELSE XReadGroup /\ batch' = Batch
  /\ batch' # {}
  /\ worker' = "entry"
  /\ UNCHANGED <<counted, producerVars, budget>>

(* _poll: xreadgroup.  A reply that is lost leaves its entries pending,     *)
(* also when the library asks again: ">" never returns them.                *)
PollRead ==
  /\ worker = "poll" /\ grouped
  /\ \/ /\ XReadGroup /\ Answered
        /\ worker' = "entry" /\ batch' = Batch
     \/ /\ XReadGroup \/ UNCHANGED redisVars
        /\ CutOff
        /\ worker' \in {"poll", "connect"} /\ UNCHANGED batch
  /\ UNCHANGED <<counted, producerVars>>

(* Nothing to read, or no group: the reply is empty or an error that is     *)
(* logged, and the next round polls again.                                  *)
PollNothing ==
  /\ worker = "poll" /\ (~grouped \/ Due = {})
  /\ UNCHANGED vars

(* Without a group the connection may also break.                           *)
PollCutOff ==
  /\ worker = "poll" /\ ~grouped
  /\ CutOff /\ worker' = "connect"
  /\ UNCHANGED <<batch, counted, producerVars, redisVars>>

InHand == CHOOSE i \in batch : \A j \in batch : i <= j

(* Mutant of CountEntry: an entry that does not parse is tried again.       *)
CountEntryInsists ==
  /\ worker = "entry" /\ batch # {} /\ entries[InHand] # Unreadable
  /\ worker' = "ack" /\ counted' = Append(counted, InHand)
  /\ UNCHANGED <<batch, producerVars, redisVars, budget>>

(* Mutant of CountEntry: an entry that does not parse ends the batch.       *)
CountEntryBreaks ==
  /\ worker = "entry" /\ batch # {}
  /\ IF entries[InHand] = Unreadable
     THEN batch' = {} /\ UNCHANGED <<worker, counted>>
     ELSE worker' = "ack" /\ counted' = Append(counted, InHand) /\ UNCHANGED batch
  /\ UNCHANGED <<producerVars, redisVars, budget>>

(* _poll: an entry is counted, or skipped if its value does not parse.      *)
CountEntry ==
  /\ worker = "entry" /\ batch # {}
  /\ IF entries[InHand] = Unreadable
     THEN batch' = batch \ {InHand} /\ UNCHANGED <<worker, counted>>
     ELSE worker' = "ack" /\ counted' = Append(counted, InHand) /\ UNCHANGED batch
  /\ UNCHANGED <<producerVars, redisVars, budget>>

(* _poll: xack.  Without a group it does nothing.  A ConnectionError leaves *)
(* _poll, and with it the rest of the batch.                                *)
AckEntry ==
  /\ worker = "ack"
  /\ \/ /\ XAck(InHand) /\ Answered
        /\ worker' = "entry" /\ batch' = batch \ {InHand}
     \/ /\ XAck(InHand) \/ UNCHANGED redisVars
        /\ CutOff
        /\ \/ UNCHANGED <<worker, batch>>
           \/ worker' = "connect" /\ batch' = {}
  /\ UNCHANGED <<counted, producerVars>>

(* The batch is done; _update_lag and _check_offline change gauges only.    *)
RoundDone ==
  /\ worker = "entry" /\ batch = {}
  /\ worker' = "poll"
  /\ UNCHANGED <<batch, counted, producerVars, redisVars, budget>>

(* The container of the aggregator is started again.                        *)
AggregatorRestart ==
  /\ Spend
  /\ worker' = "connect" /\ batch' = {}
  /\ UNCHANGED <<counted, producerVars, redisVars>>

(* A worker that is dead stays dead while those of other zones live.        *)
Dead == worker = "dead" /\ UNCHANGED vars

Work ==
  \/ Connect \/ EnsureGroup
  \/ PollRead \/ PollNothing \/ PollCutOff
  \/ CountEntry \/ AckEntry \/ RoundDone

Next ==
  \/ ProducerConnect \/ ProducerAdd
  \/ Work \/ Dead
  \/ RedisRestart \/ ForeignEntry \/ AggregatorRestart

Spec == Init /\ [][Next]_vars

(* The thread of the worker runs on, and Redis can be reached in the end.   *)
(* Nothing is assumed of the producer.                                      *)
FairSpec == Spec /\ WF_vars(Work)

-----------------------------------------------------------------------------
(* Properties.                                                              *)

Ids == 1 .. Len(entries)
Counted == {counted[k] : k \in DOMAIN counted}

TypeOK ==
  /\ producer \in {"connect", "add"}
  /\ made \in Nat
  /\ entries \in Seq(Nat)
  /\ kept \in 1 .. Len(entries) + 1
  /\ grouped \in BOOLEAN
  /\ delivered \in 0 .. Len(entries)
  /\ pending \subseteq Ids
  /\ worker \in {"connect", "group", "poll", "entry", "ack", "dead"}
  /\ batch \subseteq Ids
  /\ counted \in Seq(Ids)
  /\ dropped \subseteq Ids
  /\ budget \in Nat

(* Entries are counted in the order of the stream, none of them twice, and  *)
(* readings in the order in which they were made, through lost replies,     *)
(* calls sent again, reconnects and restarts on both sides: what is in hand *)
(* is always newer than all that was counted.                               *)
CountedInOrder ==
  /\ \A k, l \in DOMAIN counted :
       k < l => counted[k] < counted[l] /\ entries[counted[k]] <= entries[counted[l]]
  /\ \A k \in DOMAIN counted, i \in batch :
       counted[k] < i \/ (worker = "ack" /\ k = Len(counted) /\ counted[k] = InHand)

(* No entry goes missing without a trace: every entry is still to be        *)
(* delivered, pending, counted, or was dropped by Redis, and none is taken  *)
(* off the pending list before it was counted.                              *)
EveryEntryAccounted ==
  \A i \in Ids : i \in Due \/ i \in pending \/ i \in Counted \/ i \in dropped

(* What is left behind on the pending list, delivered and never counted, is *)
(* what was in flight when a connection broke or a container was restarted: *)
(* at most one batch each time, apart from entries that do not parse.       *)
Stranded == {i \in pending \ (batch \cup Counted) : entries[i] # Unreadable}

StrandedBounded == Cardinality(Stranded) <= ReadCount * (FaultBudget - budget)

(* A reading is stored once, save for what broken connections are to blame  *)
(* for: each costs at most one reading that is never stored or one entry    *)
(* that repeats a reading, whatever the client library sends again and      *)
(* wherever the producer goes on from.                                      *)
Repeats ==
  {i \in Ids : entries[i] # Unreadable /\ \E j \in 1 .. i - 1 : entries[j] = entries[i]}

Missing == {r \in 1 .. made - 1 : \A i \in Ids : entries[i] # r}

ReadingsOffByFaults == Cardinality(Repeats) + Cardinality(Missing) <= FaultBudget - budget

(* The worker gets to every entry that Redis keeps, unless its thread died  *)
(* in _ensure_group or it polls a group that went with a restart of Redis.  *)
Stalled == worker = "dead" \/ (worker = "poll" /\ ~grouped)

EntriesReached ==
  \A i \in 1 .. MaxEntries :
    (i \in Ids) ~> (i < kept \/ i <= delivered \/ Stalled)

=============================================================================
