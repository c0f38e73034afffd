---------------------------- MODULE Records_proofs ----------------------------
(***************************************************************************)
(* Theorems about what a node stores beside the samples of its monitor, and *)
(* what is made of it: MetricConnection, InteractionTrace and StackReport,  *)
(* for any writers, requests, subscriptions, tasks and bounds.             *)
(***************************************************************************)
EXTENDS MCRecords, FiniteSetTheorems, TLAPS

(***************************************************************************)
(* The connection of the metrics                                           *)
(***************************************************************************)

LEMMA MetricInitTypeOK == C!Init => C!TypeOK
BY MetricAssumption DEF C!Init, C!TypeOK

LEMMA MetricNextTypeOK ==
  ASSUME C!TypeOK, [C!Next]_metricVars
  PROVE  C!TypeOK'
<1> USE MetricAssumption DEF C!TypeOK, C!Goto, C!Connections
<1>1. ASSUME NEW w \in Writers, C!WriteMetric(w) PROVE C!TypeOK'
  BY <1>1 DEF C!WriteMetric
<1>2. ASSUME NEW w \in Writers, C!PingAnswered(w) PROVE C!TypeOK'
  BY <1>2 DEF C!PingAnswered
<1>3. ASSUME NEW w \in Writers, C!PingFails(w) \/ C!ConnectFails(w) \/ C!Zadd(w)
      PROVE C!TypeOK'
  BY <1>3 DEF C!PingFails, C!ConnectFails, C!Zadd
<1>4. ASSUME NEW w \in Writers, C!PingMistaken(w) PROVE C!TypeOK'
  BY <1>4 DEF C!PingMistaken
<1>5. ASSUME NEW w \in Writers, C!Connect(w) PROVE C!TypeOK'
  <2>1. opened + 1 \in 1..MaxConnections /\ opened' = opened + 1 /\ opened' \in 0..MaxConnections
    BY <1>5 DEF C!Connect
  <2>2. up' \subseteq 1..opened'
    BY <1>5, <2>1 DEF C!Connect
  <2> QED BY <1>5, <2>1, <2>2 DEF C!Connect
<1>6. CASE C!RedisRestarts
  BY <1>6 DEF C!RedisRestarts
<1>7. ASSUME NEW c \in C!Connections, C!Drops(c) PROVE C!TypeOK'
  BY <1>7 DEF C!Drops
<1>8. CASE UNCHANGED metricVars
  BY <1>8 DEF metricVars
<1> QED BY <1>1, <1>2, <1>3, <1>4, <1>5, <1>6, <1>7, <1>8 DEF C!Next

\* The writers that are about to open a connection, or will when their ping fails:
\* all of them when the connection of the module is lost.
Opening ==
    IF state \in up
    THEN {w \in Writers : pc[w] = "connect" \/ (pc[w] = "ping" /\ used[w] \notin up)}
    ELSE Writers

\* What the writers left behind when connections dropped.
Owed == drops * (Cardinality(Writers) - 1)

\* A writer that opens a connection was counted before.
MetricInv ==
    /\ C!TypeOK
    /\ Cardinality(up) + Cardinality(Opening) <= Cardinality(Writers) + mistaken + Owed

Counts ==
    /\ IsFiniteSet(up) /\ IsFiniteSet(Opening)
    /\ Cardinality(up) \in Nat /\ Cardinality(Opening) \in Nat
    /\ Cardinality(Writers) \in Nat \ {0}
    /\ mistaken \in Nat /\ drops \in Nat /\ Owed \in Nat
    /\ Cardinality(Opening) <= Cardinality(Writers)

LEMMA Products == \A d, n \in Nat : d * n \in Nat /\ (d + 1) * n = d * n + n
OBVIOUS

LEMMA MetricCounts == C!TypeOK => Counts
<1> SUFFICES ASSUME C!TypeOK PROVE Counts
  OBVIOUS
<1>1. IsFiniteSet(1..opened)
  BY MetricAssumption, FS_Interval DEF C!TypeOK
<1>2. IsFiniteSet(up)
  BY <1>1, FS_Subset DEF C!TypeOK
<1>3. IsFiniteSet(Opening) /\ Cardinality(Opening) <= Cardinality(Writers)
  BY MetricAssumption, FS_Subset DEF Opening
<1>4. Cardinality(Writers) \in Nat \ {0}
  BY MetricAssumption, FS_CardinalityType, FS_EmptySet
<1>5. drops \in Nat /\ Cardinality(Writers) - 1 \in Nat
  BY <1>4, MetricAssumption DEF C!TypeOK
<1>6. Owed \in Nat
  BY <1>5, Products DEF Owed
<1> QED BY <1>2, <1>3, <1>4, <1>5, <1>6, FS_CardinalityType, MetricAssumption DEF C!TypeOK, Counts

LEMMA MetricCountsPrimed == C!TypeOK' => Counts'
BY MetricCounts, PTL

LEMMA MetricNext ==
  ASSUME MetricInv, [C!Next]_metricVars
  PROVE  MetricInv'
<1> USE DEF C!Goto
<1>0. C!TypeOK /\ C!TypeOK'
  BY MetricNextTypeOK DEF MetricInv
<1>00. Counts /\ Counts'
  BY <1>0, MetricCounts, MetricCountsPrimed
\* Fewer writers are about to open a connection, and none was opened.
<1>1. ASSUME up' = up, Opening' \subseteq Opening, mistaken' = mistaken, drops' = drops
      PROVE  MetricInv'
  <2>1. Cardinality(Opening') <= Cardinality(Opening)
    BY <1>00, <1>1, FS_Subset DEF Counts
  <2>2. Owed' = Owed
    BY <1>1 DEF Owed
  <2> QED BY <1>0, <1>00, <1>1, <2>1, <2>2 DEF MetricInv, Counts
<1>3. ASSUME NEW w \in Writers, C!WriteMetric(w) PROVE MetricInv'
  <2>1. UNCHANGED <<state, opened, up, drops, mistaken>>
    BY <1>3 DEF C!WriteMetric
  <2>2. Opening' \subseteq Opening
    <3>1. CASE state \notin up
      BY <2>1, <3>1 DEF Opening
    <3>2. CASE state \in up
      <4>1. up \subseteq Nat
        BY <1>0 DEF C!TypeOK
      <4>2. state # NoConnection
        BY <3>2, <4>1, MetricAssumption
      <4> QED BY <1>0, <1>3, <2>1, <3>2, <4>2 DEF C!WriteMetric, C!TypeOK, Opening
    <3> QED BY <3>1, <3>2
  <2> QED BY <1>1, <2>1, <2>2
<1>4. ASSUME NEW w \in Writers,
             C!PingAnswered(w) \/ C!PingFails(w) \/ C!ConnectFails(w) \/ C!Zadd(w)
      PROVE  MetricInv'
  <2>1. UNCHANGED <<state, up, drops, mistaken>>
    BY <1>4 DEF C!PingAnswered, C!PingFails, C!ConnectFails, C!Zadd
  <2>2. Opening' \subseteq Opening
    BY <1>0, <1>4
    DEF C!PingAnswered, C!PingFails, C!ConnectFails, C!Zadd, C!TypeOK, Opening
  <2> QED BY <1>1, <2>1, <2>2
<1>5. ASSUME NEW w \in Writers, C!PingMistaken(w) PROVE MetricInv'
  <2>1. UNCHANGED <<state, up, drops>> /\ mistaken' = mistaken + 1 /\ Owed' = Owed
    BY <1>5 DEF C!PingMistaken, Owed
  <2>2. Opening' \subseteq Opening \cup {w}
    BY <1>0, <1>5 DEF C!PingMistaken, C!TypeOK, Opening
  <2>3. /\ IsFiniteSet(Opening \cup {w})
        /\ Cardinality(Opening \cup {w}) <= Cardinality(Opening) + 1
    <3>1. CASE w \in Opening
      <4>1. Opening \cup {w} = Opening
        BY <3>1
      <4>2. /\ Cardinality(Opening \cup {w}) = Cardinality(Opening)
            /\ IsFiniteSet(Opening \cup {w})
        BY <1>00, <4>1, Zenon DEF Counts
      <4> QED BY <1>00, <4>2 DEF Counts
    <3>2. CASE w \notin Opening
      <4>1. IsFiniteSet(Opening)
        BY <1>00 DEF Counts
      <4>2. /\ IsFiniteSet(Opening \cup {w})
            /\ Cardinality(Opening \cup {w}) = Cardinality(Opening) + 1
        BY <3>2, <4>1, FS_AddElement
      <4> QED BY <1>00, <4>2 DEF Counts
    <3> QED BY <3>1, <3>2
  <2>4. Cardinality(Opening') <= Cardinality(Opening \cup {w})
    BY <2>2, <2>3, FS_Subset
  <2>5. Cardinality(Opening \cup {w}) \in Nat
    BY <2>3, FS_CardinalityType
  <2>6. Cardinality(Opening') <= Cardinality(Opening) + 1
    BY <1>00, <2>3, <2>4, <2>5 DEF Counts
  <2> QED BY <1>0, <1>00, <2>1, <2>6 DEF MetricInv, Counts
<1>6. ASSUME NEW w \in Writers, C!Connect(w) PROVE MetricInv'
  <2>1. /\ up' = up \cup {opened + 1} /\ state' = opened + 1
        /\ mistaken' = mistaken /\ Owed' = Owed
    BY <1>6 DEF C!Connect, Owed
  <2>2. Cardinality(up') = Cardinality(up) + 1
    <3>1. opened + 1 \notin up
      BY <1>0, MetricAssumption DEF C!TypeOK
    <3> QED BY <1>00, <2>1, <3>1, FS_AddElement DEF Counts
  <2>3. w \in Opening
    BY <1>6 DEF C!Connect, Opening
  <2>4. Opening' \subseteq Opening \ {w}
    BY <1>0, <1>6 DEF C!Connect, C!TypeOK, Opening
  <2>5. /\ IsFiniteSet(Opening \ {w})
        /\ Cardinality(Opening \ {w}) = Cardinality(Opening) - 1
    BY <1>00, <2>3, FS_RemoveElement DEF Counts
  <2>6. Cardinality(Opening') <= Cardinality(Opening) - 1
    BY <2>4, <2>5, FS_Subset
  <2> QED BY <1>0, <1>00, <2>1, <2>2, <2>6 DEF MetricInv, Counts
<1>7. CASE C!RedisRestarts
  <2>1. Cardinality(up') = 0 /\ mistaken' = mistaken /\ Owed' = Owed
    BY <1>7, FS_EmptySet DEF C!RedisRestarts, Owed
  <2> QED BY <1>0, <1>00, <2>1 DEF MetricInv, Counts
\* Every writer may open one, but one that was up is not any more.
<1>8. ASSUME NEW c \in C!Connections, C!Drops(c) PROVE MetricInv'
  <2>1. c \in up /\ up' = up \ {c} /\ mistaken' = mistaken /\ drops' = drops + 1
    BY <1>8 DEF C!Drops
  <2>2. Cardinality(up') = Cardinality(up) - 1
    BY <1>00, <2>1, FS_RemoveElement DEF Counts
  <2>3. Owed' = Owed + (Cardinality(Writers) - 1)
    <3>1. Cardinality(Writers) - 1 \in Nat /\ drops \in Nat
      BY <1>00 DEF Counts
    <3> QED BY <2>1, <3>1, Products DEF Owed
  <2> QED BY <1>0, <1>00, <2>1, <2>2, <2>3 DEF MetricInv, Counts
<1>9. CASE UNCHANGED metricVars
  <2>1. UNCHANGED <<up, mistaken, drops>> /\ Opening' = Opening
    BY <1>9 DEF metricVars, Opening
  <2> QED BY <1>1, <2>1
<1> QED BY <1>3, <1>4, <1>5, <1>6, <1>7, <1>8, <1>9 DEF C!Next

\* However the writers of a container interleave, and however often Redis comes
\* back, each of them leaves one connection open at most, one more for each live
\* connection that was taken for a dead one, and one for each connection that
\* dropped alone and that another writer replaces too (utils.py:18-26).
THEOREM ConnectionsStayBounded == C!Spec => []ConnectionsBounded
<1>1. C!Init => MetricInv
  <2> SUFFICES ASSUME C!Init PROVE MetricInv
    OBVIOUS
  <2>1. C!TypeOK
    BY MetricInitTypeOK
  <2>2. up = {} /\ Cardinality(up) = 0
    BY FS_EmptySet DEF C!Init
  <2> QED BY <2>1, <2>2, MetricCounts DEF MetricInv, Counts
<1>2. MetricInv => ConnectionsBounded
  <2> SUFFICES ASSUME MetricInv PROVE ConnectionsBounded
    OBVIOUS
  <2>1. Counts
    BY MetricCounts DEF MetricInv
  <2>2. Cardinality(up) + Cardinality(Opening) <= Cardinality(Writers) + mistaken + Owed
    BY DEF MetricInv
  <2>3. Cardinality(up) <= Cardinality(Writers) + mistaken + Owed
    BY <2>1, <2>2 DEF Counts
  <2>4. \A S : C!Cardinality(S) = Cardinality(S)
    BY DEF C!Cardinality, Cardinality
  <2> QED BY <2>3, <2>4 DEF ConnectionsBounded, C!ConnectionsBounded, Owed
<1>3. MetricInv /\ [C!Next]_C!vars => MetricInv'
  BY MetricNext DEF C!vars, metricVars
<1> QED BY <1>1, <1>2, <1>3, PTL DEF C!Spec

(***************************************************************************)
(* The records of the interactions                                         *)
(***************************************************************************)

LEMMA TraceInitTypeOK == T!Init => T!TypeOK
<1> SUFFICES ASSUME T!Init PROVE T!TypeOK
  OBVIOUS
<1>1. /\ emitted \in [Subscriptions -> Seq(T!Records)]
      /\ \A s \in Subscriptions : Len(emitted[s]) <= MaxEvents + 1
  BY TraceAssumption DEF T!Init
<1>2. DOMAIN zset = {}
  BY DEF T!Init
<1> QED BY <1>1, <1>2, TraceAssumption DEF T!Init, T!TypeOK, T!Times

\* Only on_finally is beyond the bound, and nothing follows it.
FinallyIsLast ==
    \A s \in Subscriptions :
        Len(emitted[s]) > MaxEvents => emitted[s][Len(emitted[s])].says = "on_finally"

LEMMA EmitGrows ==
  ASSUME T!TypeOK, NEW s \in Subscriptions, NEW event \in T!Events, T!Emit(s, event)
  PROVE  /\ T!RecordOf(s, event) \in T!Records
         /\ T!RecordOf(s, event).says = event /\ T!RecordOf(s, event).time = time
         /\ emitted' = [emitted EXCEPT ![s] = Append(emitted[s], T!RecordOf(s, event))]
         /\ emitted'[s] = Append(emitted[s], T!RecordOf(s, event))
         /\ Len(emitted'[s]) = Len(emitted[s]) + 1
BY DEF T!RecordOf, T!Records, T!Emit, T!TypeOK

LEMMA TraceNextTypeOK ==
  ASSUME T!TypeOK, FinallyIsLast, [T!Next]_traceVars
  PROVE  T!TypeOK' /\ FinallyIsLast'
<1>0. UNCHANGED emitted => FinallyIsLast'
  BY DEF FinallyIsLast
<1>1. CASE T!Tick \/ T!ClosePool \/ UNCHANGED traceVars
  BY <1>0, <1>1, TraceAssumption DEF T!Tick, T!ClosePool, traceVars, T!TypeOK, T!Times
<1>2. ASSUME NEW r \in Requests, T!Request(r) PROVE T!TypeOK' /\ FinallyIsLast'
  BY <1>0, <1>2 DEF T!Request, T!TypeOK, T!Outcomes
<1>3. ASSUME NEW r \in Requests, NEW o \in T!Outcomes, T!Answer(r, o)
      PROVE  T!TypeOK' /\ FinallyIsLast'
  <2>1. T!RecordOf(r, o) \in T!Records
    BY DEF T!RecordOf, T!Records, T!TypeOK
  <2>2. writing' \subseteq T!Records
    BY <1>3, <2>1 DEF T!Answer, T!TypeOK
  <2>3. outcome' \in [Requests -> T!Outcomes \cup {"none", "pending"}]
    BY <1>3 DEF T!Answer, T!TypeOK
  <2> QED BY <1>0, <1>3, <2>2, <2>3 DEF T!Answer, T!TypeOK
<1>4. ASSUME NEW s \in Subscriptions, NEW event \in T!Events, T!Emit(s, event)
      PROVE  T!TypeOK' /\ FinallyIsLast'
  <2> DEFINE rec == T!RecordOf(s, event)
  <2>1. /\ rec \in T!Records /\ rec.says = event
        /\ emitted' = [emitted EXCEPT ![s] = Append(emitted[s], rec)]
        /\ emitted'[s] = Append(emitted[s], rec) /\ Len(emitted'[s]) = Len(emitted[s]) + 1
    BY <1>4, EmitGrows
  <2>2. writing' = writing \cup {rec} /\ UNCHANGED <<time, outcome, zset, lost, pool>>
    BY <1>4 DEF T!Emit
  <2>3. /\ Len(emitted[s]) < MaxEvents \/ event = "on_finally"
        /\ emitted[s] = <<>> \/ emitted[s][Len(emitted[s])].says # "on_finally"
    BY <1>4 DEF T!Emit, T!MayFollow
  <2> HIDE DEF rec
  <2>4. emitted[s] \in Seq(T!Records) /\ Len(emitted[s]) \in Nat /\ Len(emitted[s]) <= MaxEvents
    BY <2>3, TraceAssumption DEF T!TypeOK, FinallyIsLast
  <2>5. emitted' \in [Subscriptions -> Seq(T!Records)]
    BY <2>1, <2>4 DEF T!TypeOK
  <2>6. \A x \in Subscriptions : Len(emitted'[x]) <= MaxEvents + 1
    BY <2>1, <2>4, TraceAssumption DEF T!TypeOK
  <2>7. emitted'[s][Len(emitted'[s])] = rec
    BY <2>1, <2>4
  <2>8. FinallyIsLast'
    <3> SUFFICES ASSUME NEW x \in Subscriptions, Len(emitted'[x]) > MaxEvents
                 PROVE  emitted'[x][Len(emitted'[x])].says = "on_finally"
      BY DEF FinallyIsLast
    <3>1. CASE x = s
      <4>1. event = "on_finally"
        BY <2>1, <2>3, <2>4, <3>1, TraceAssumption
      <4> QED BY <2>1, <2>7, <3>1, <4>1
    <3>2. CASE x # s
      BY <2>1, <3>2 DEF FinallyIsLast, T!TypeOK
    <3> QED BY <3>1, <3>2
  <2> QED BY <2>1, <2>2, <2>5, <2>6, <2>8 DEF T!TypeOK
<1>5. ASSUME NEW m \in writing, T!Stored(m) PROVE T!TypeOK' /\ FinallyIsLast'
  <2>1. m \in T!Records /\ m.time \in T!Times
    BY DEF T!TypeOK, T!Records
  <2> QED BY <1>0, <1>5, <2>1 DEF T!Stored, T!TypeOK
<1>6. ASSUME NEW m \in writing, T!NotStored(m) PROVE T!TypeOK' /\ FinallyIsLast'
  BY <1>0, <1>6 DEF T!NotStored, T!TypeOK
<1> QED BY <1>1, <1>2, <1>3, <1>4, <1>5, <1>6 DEF T!Next

LEMMA TraceTypes == T!Spec => [](T!TypeOK /\ FinallyIsLast)
<1>1. T!Init => T!TypeOK /\ FinallyIsLast
  <2> SUFFICES ASSUME T!Init PROVE FinallyIsLast
    BY TraceInitTypeOK
  <2>1. \A s \in Subscriptions : Len(emitted[s]) = 0
    BY DEF T!Init
  <2> QED BY <2>1, TraceAssumption DEF FinallyIsLast
<1>2. T!TypeOK /\ FinallyIsLast /\ [T!Next]_T!vars => T!TypeOK' /\ FinallyIsLast'
  BY TraceNextTypeOK DEF T!vars, traceVars
<1> QED BY <1>1, <1>2, PTL DEF T!Spec

\* The records of a request, whatever has become of them.
LEMMA NextRecorded ==
  ASSUME T!TypeOK, RequestsRecorded, [T!Next]_traceVars
  PROVE  RequestsRecorded'
<1> USE DEF RequestsRecorded, T!RequestsRecorded
<1>1. ASSUME UNCHANGED outcome, \A r \in Requests : T!RecordsOf(r)' = T!RecordsOf(r)
      PROVE  RequestsRecorded'
  BY <1>1
<1>2. CASE T!Tick \/ T!ClosePool \/ UNCHANGED traceVars
  BY <1>1, <1>2 DEF T!Tick, T!ClosePool, traceVars, T!RecordsOf
<1>3. ASSUME NEW r \in Requests, T!Request(r) PROVE RequestsRecorded'
  <2>1. \A x \in Requests : T!RecordsOf(x)' = T!RecordsOf(x)
    BY <1>3 DEF T!Request, T!RecordsOf
  <2> QED BY <1>3, <2>1 DEF T!Request, T!TypeOK
<1>4. ASSUME NEW r \in Requests, NEW o \in T!Outcomes, T!Answer(r, o) PROVE RequestsRecorded'
  <2> DEFINE rec == T!RecordOf(r, o)
  <2>1. rec.source = r /\ rec.says = o
    BY DEF T!RecordOf
  <2>2. T!RecordsOf(r) = {} /\ outcome' = [outcome EXCEPT ![r] = o]
    BY <1>4 DEF T!Answer
  <2>3. o # "cancelled" => writing' = writing \cup {rec}
    BY <1>4 DEF T!Answer
  <2>4. writing \subseteq writing' /\ writing' \subseteq writing \cup {rec}
    BY <1>4 DEF T!Answer
  <2>5. UNCHANGED <<zset, lost>>
    BY <1>4 DEF T!Answer
  <2> HIDE DEF rec
  <2>6. \A x \in Requests : x # r => T!RecordsOf(x)' = T!RecordsOf(x)
    BY <2>1, <2>4, <2>5 DEF T!RecordsOf
  <2>7. o # "cancelled" => T!RecordsOf(r)' = {rec}
    BY <2>1, <2>2, <2>3, <2>5 DEF T!RecordsOf
  <2>8. outcome'[r] = o /\ o \in T!Outcomes /\ \A x \in Requests : x # r => outcome'[x] = outcome[x]
    BY <2>2 DEF T!TypeOK
  <2> SUFFICES ASSUME NEW x \in Requests
               PROVE  /\ outcome'[x] \in {"result", "error"} =>
                             \E m \in T!RecordsOf(x)' : m.says = outcome'[x] /\ T!RecordsOf(x)' = {m}
                      /\ outcome'[x] \in {"none", "pending"} => T!RecordsOf(x)' = {}
    OBVIOUS
  <2>9. CASE x = r
    BY <2>1, <2>7, <2>8, <2>9 DEF T!Outcomes
  <2>10. CASE x # r
    BY <2>6, <2>8, <2>10
  <2> QED BY <2>9, <2>10
<1>5. ASSUME NEW s \in Subscriptions, NEW event \in T!Events, T!Emit(s, event) PROVE RequestsRecorded'
  <2>1. T!RecordOf(s, event).source \notin Requests
    BY TraceAssumption DEF T!RecordOf
  <2>2. \A x \in Requests : T!RecordsOf(x)' = T!RecordsOf(x)
    BY <1>5, <2>1 DEF T!Emit, T!RecordsOf
  <2> QED BY <1>1, <1>5, <2>2 DEF T!Emit
<1>6. ASSUME NEW m \in writing, T!Stored(m) \/ T!NotStored(m) PROVE RequestsRecorded'
  <2>1. DOMAIN zset' \cup writing' \cup lost' = DOMAIN zset \cup writing \cup lost
    BY <1>6 DEF T!Stored, T!NotStored
  <2>2. \A x \in Requests : T!RecordsOf(x)' = T!RecordsOf(x)
    BY <2>1 DEF T!RecordsOf
  <2> QED BY <1>1, <1>6, <2>2 DEF T!Stored, T!NotStored
<1> QED BY <1>2, <1>3, <1>4, <1>5, <1>6 DEF T!Next

\* Every request that returned or raised has exactly one record, which says so,
\* wherever that record is by now; a pending one has none (things.py:252-265).
THEOREM EveryRequestRecorded == T!Spec => []RequestsRecorded
<1>1. T!Init => RequestsRecorded
  BY DEF T!Init, RequestsRecorded, T!RequestsRecorded, T!RecordsOf
<1>2. T!TypeOK /\ RequestsRecorded /\ [T!Next]_T!vars => RequestsRecorded'
  BY NextRecorded DEF T!vars, traceVars
<1> QED BY <1>1, <1>2, TraceTypes, PTL DEF T!Spec

\* Events are recorded as they happen, and the score of a member is its own time.
Chronology ==
    /\ \A s \in Subscriptions : \A i, j \in 1..Len(emitted[s]) :
          /\ emitted[s][i].time <= time
          /\ i <= j => emitted[s][i].time <= emitted[s][j].time
    /\ \A m \in DOMAIN zset : zset[m] = m.time

LEMMA NextChronology ==
  ASSUME T!TypeOK, Chronology, [T!Next]_traceVars
  PROVE  Chronology'
<1>0. \A s \in Subscriptions : \A i \in 1..Len(emitted[s]) : emitted[s][i].time \in Nat
  <2> SUFFICES ASSUME NEW s \in Subscriptions, NEW i \in 1..Len(emitted[s])
               PROVE  emitted[s][i].time \in Nat
    OBVIOUS
  <2>1. emitted[s][i] \in T!Records
    BY DEF T!TypeOK
  <2> QED BY <2>1, TraceAssumption DEF T!Records, T!Times
<1>1. CASE T!Tick
  <2>1. time' = time + 1 /\ UNCHANGED <<emitted, zset>> /\ time \in Nat
    BY <1>1, TraceAssumption DEF T!Tick, T!TypeOK, T!Times
  <2>2. \A s \in Subscriptions : \A i \in 1..Len(emitted[s]) : emitted[s][i].time <= time'
    BY <1>0, <2>1 DEF Chronology
  <2> QED BY <2>1, <2>2 DEF Chronology
<1>2. ASSUME NEW s \in Subscriptions, NEW event \in T!Events, T!Emit(s, event) PROVE Chronology'
  <2> DEFINE rec == T!RecordOf(s, event)
             n == Len(emitted[s])
  <2>1. /\ rec.time = time /\ time \in Nat
        /\ emitted'[s] = Append(emitted[s], rec) /\ Len(emitted'[s]) = n + 1
        /\ UNCHANGED <<time, zset>>
    <3>1. time \in Nat
      BY TraceAssumption DEF T!TypeOK, T!Times
    <3>2. UNCHANGED <<time, zset>>
      BY <1>2 DEF T!Emit
    <3> QED BY <1>2, <3>1, <3>2, EmitGrows
  <2>2. \A x \in Subscriptions : x # s => emitted'[x] = emitted[x]
    BY <1>2, EmitGrows DEF T!TypeOK
  <2>3. n \in Nat /\ emitted'[s][n + 1] = rec /\ \A i \in 1..n : emitted'[s][i] = emitted[s][i]
    BY <2>1 DEF T!TypeOK
  <2> HIDE DEF rec, n
  <2>4. ASSUME NEW i \in 1..Len(emitted'[s]), NEW j \in 1..Len(emitted'[s])
        PROVE  /\ emitted'[s][i].time <= time
               /\ i <= j => emitted'[s][i].time <= emitted'[s][j].time
    <3>1. i = n + 1 \/ i \in 1..n
      BY <2>1, <2>3
    <3>2. j = n + 1 \/ j \in 1..n
      BY <2>1, <2>3
    <3>3. i \in 1..n => emitted'[s][i].time <= time
      BY <2>3 DEF Chronology, n
    <3>4. CASE j = n + 1
      BY <2>1, <2>3, <3>1, <3>3, <3>4
    <3>5. CASE j \in 1..n
      <4>1. i <= j => i \in 1..n
        BY <2>3, <3>5
      <4>2. i <= j => emitted'[s][i].time <= emitted'[s][j].time
        BY <2>3, <3>5, <4>1 DEF Chronology, n
      <4> QED BY <2>1, <2>3, <3>1, <3>3, <4>2
    <3> QED BY <3>2, <3>4, <3>5
  <2> QED BY <2>1, <2>2, <2>4 DEF Chronology
<1>3. ASSUME NEW m \in writing, T!Stored(m) PROVE Chronology'
  <2>1. \A x \in DOMAIN zset' : zset'[x] = x.time
    BY <1>3 DEF T!Stored, Chronology
  <2> QED BY <1>3, <2>1 DEF T!Stored, Chronology
<1>4. UNCHANGED <<time, emitted, zset>> => Chronology'
  BY DEF Chronology
<1>5. ASSUME \/ \E r \in Requests : T!Request(r) \/ \E o \in T!Outcomes : T!Answer(r, o)
             \/ \E m \in writing : T!NotStored(m)
             \/ T!ClosePool \/ UNCHANGED traceVars
      PROVE  Chronology'
  BY <1>4, <1>5 DEF T!Request, T!Answer, T!NotStored, T!ClosePool, traceVars
<1> QED BY <1>1, <1>2, <1>3, <1>5 DEF T!Next

\* However the writes of the records are ordered, the sorted set lists the events of
\* a subscription in the order in which they happened (things.py:51, 158, 193;
\* redis.py:31).
THEOREM EventsKeepOrder == T!Spec => []TraceKeepsOrder
<1>1. T!Init => Chronology
  BY DEF T!Init, Chronology
<1>2. T!TypeOK /\ Chronology /\ [T!Next]_T!vars => Chronology'
  BY NextChronology DEF T!vars, traceVars
<1>3. T!TypeOK /\ Chronology => TraceKeepsOrder
  <2> SUFFICES ASSUME T!TypeOK, Chronology, NEW s \in Subscriptions,
                      NEW i \in DOMAIN emitted[s], NEW j \in DOMAIN emitted[s], i < j,
                      {emitted[s][i], emitted[s][j]} \subseteq DOMAIN zset
               PROVE  zset[emitted[s][i]] <= zset[emitted[s][j]]
    BY DEF TraceKeepsOrder, T!TraceKeepsOrder
  <2>1. DOMAIN emitted[s] = 1..Len(emitted[s])
    BY DEF T!TypeOK
  <2>2. emitted[s][i].time <= emitted[s][j].time
    BY <2>1 DEF Chronology
  <2> QED BY <2>2 DEF Chronology
<1> QED BY <1>1, <1>2, <1>3, TraceTypes, PTL DEF T!Spec

(***************************************************************************)
(* The snapshot and the report: types                                      *)
(***************************************************************************)

LEMMA EmptyDict == DOMAIN <<>> = {}
OBVIOUS

LEMMA ReportInitTypeOK == Init => TypeOK
<1> SUFFICES ASSUME Init PROVE TypeOK
  OBVIOUS
<1>1. status \in [Tasks -> Statuses \cup {"none"}]
  BY DEF Init
<1>2. records \in [Kinds \X Tasks -> Nat]
  BY DEF Init
<1>3. DOMAIN found = {}
  BY EmptyDict DEF Init
<1> QED BY <1>1, <1>2, <1>3 DEF Init, TypeOK

LEMMA ReportNextTypeOK ==
  ASSUME TypeOK, [Next]_vars
  PROVE  TypeOK'
<1> USE DEF TypeOK, stackVars, storeVars, stopVars, reportVars
<1>1. ASSUME NEW t \in Tasks, Delays(t) \/ Starts(t) \/ Introduces(t) \/ Ends(t)
      PROVE  TypeOK'
  <2>1. CASE Delays(t)
    BY <2>1 DEF Delays, Statuses
  <2>2. CASE Starts(t)
    BY <2>2 DEF Starts, Statuses
  <2>3. CASE Introduces(t)
    BY <2>3 DEF Introduces
  <2>4. CASE Ends(t)
    BY <2>4 DEF Ends, Statuses
  <2> QED BY <1>1, <2>1, <2>2, <2>3, <2>4
<1>2. ASSUME NEW k \in Kinds, NEW t \in Tasks, Records(k, t) PROVE TypeOK'
  <2>1. records' \in [Kinds \X Tasks -> Nat]
    <3>1. records' = [records EXCEPT ![<<k, t>>] = @ + 1]
      BY <1>2 DEF Records
    <3>2. records \in [Kinds \X Tasks -> Nat]
      OBVIOUS
    <3> HIDE DEF TypeOK
    <3> QED BY <3>1, <3>2
  <2> QED BY <1>2, <2>1 DEF Records
<1>3. ASSUME NEW service \in Services, Inspect(service) PROVE TypeOK'
  <2>1. \A t \in ListedTasks(service) : t \in Tasks /\ Inspected(t) \in Statuses
    BY DEF ListedTasks, Inspected, Statuses
  <2>2. /\ DOMAIN found' = DOMAIN found \cup ListedTasks(service)
        /\ \A t \in DOMAIN found' :
              found'[t] = IF t \in ListedTasks(service) THEN Inspected(t) ELSE found[t]
    BY <1>3 DEF Inspect
  <2>3. DOMAIN found' \subseteq Tasks /\ \A t \in DOMAIN found' : found'[t] \in Statuses
    BY <2>1, <2>2
  <2> QED BY <1>3, <2>3 DEF Inspect
<1>4. CASE StartStop \/ StoreCompose
  BY <1>4 DEF StartStop, StoreCompose
<1>5. CASE Deploy
  BY <1>5, EmptyDict DEF Deploy
<1>6. CASE StoreSnapshot
  BY <1>6, EmptyDict DEF StoreSnapshot
<1>7. CASE Report
  BY <1>7 DEF Report, StartReport, GetData, Fail, Write
<1>8. CASE InspectFails
  BY <1>8, EmptyDict DEF InspectFails
<1>9. CASE UNCHANGED vars
  BY <1>9 DEF vars
<1> QED BY <1>1, <1>2, <1>3, <1>4, <1>5, <1>6, <1>7, <1>8, <1>9 DEF Next, Stack, Stop

LEMMA ReportTypes == Spec => []TypeOK
<1>1. TypeOK /\ [Next]_vars => TypeOK'
  BY ReportNextTypeOK
<1> QED BY <1>1, ReportInitTypeOK, PTL DEF Spec

\* Whichever of the three runs, every variable keeps its type: no subscription has
\* an event after its end, a connection that is up is one of those opened, and what
\* the stop stores are statuses of the emulation's tasks (things.py:197-235;
\* utils.py:25-28; stop.py).
THEOREM RecordsTypes == MCSpec => []MCTypeOK
<1> DEFINE Inv == TypeOK /\ T!TypeOK /\ FinallyIsLast /\ C!TypeOK
<1>1. MCInit => Inv
  <2>1. T!Init => FinallyIsLast
    BY TraceAssumption DEF T!Init, FinallyIsLast
  <2> QED BY <2>1, ReportInitTypeOK, TraceInitTypeOK, MetricInitTypeOK DEF MCInit
<1>2. Inv /\ [MCNext]_mcVars => Inv'
  <2> SUFFICES ASSUME Inv, [MCNext]_mcVars PROVE Inv'
    OBVIOUS
  <2>1. [Next]_vars /\ [T!Next]_traceVars /\ [C!Next]_metricVars
    BY DEF MCNext, mcVars
  <2> QED BY <2>1, ReportNextTypeOK, TraceNextTypeOK, MetricNextTypeOK
<1>3. Inv => MCTypeOK
  BY DEF MCTypeOK
<1> QED BY <1>1, <1>2, <1>3, PTL DEF MCSpec

(***************************************************************************)
(* What the snapshot says of a task                                        *)
(***************************************************************************)

\* The tasks that f shows as over ended before their service was scaled down (those of
\* ended did), the way f says, or have had to wait (those of waiting).
True(f, ended, waiting, statuses) ==
    \A t \in DOMAIN f :
        f[t] # "running" =>
            /\ t \in Tasks
            /\ \/ t \in ended /\ f[t] \in {"finished", "failed"} /\ statuses[t] = f[t]
               \/ t \in waiting /\ f[t] = "finished"
TrueNow(f) == True(f, early, delayed, status)

\* What has ended stays so; until its service is scaled down it has ended early, and
\* only then the tasks are inspected.  What the report has read of the snapshot is
\* what the snapshot said.
SnapshotInv ==
    /\ \A t \in Tasks : Over(t) /\ ServiceOf[t] \notin down => t \in early
    /\ \A t \in Tasks : status[t] = "ready" => t \in delayed
    /\ stop \in {"idle", "inspect"} => down = {}
    /\ TrueNow(found)
    /\ snapshot # Nothing => TrueNow(snapshot)
    /\ \A c \in DOMAIN cache : c.func = "snapshot" /\ cache[c] # Nothing => TrueNow(cache[c])
    /\ \A i \in DOMAIN shown :
          shown[i].call.func = "snapshot" /\ shown[i].value # Nothing => TrueNow(shown[i].value)

LEMMA StaysTrue ==
  ASSUME TypeOK, NEW f, TrueNow(f), [Next]_vars
  PROVE  True(f, early', delayed', status')
<1>1. early \subseteq early' /\ delayed \subseteq delayed'
  BY DEF Next, Stack, Delays, Starts, Introduces, Ends, Records, Stop, StartStop, Inspect,
         InspectFails, Deploy, StoreSnapshot, StoreCompose, Report, StartReport, GetData, Fail,
         Write, vars, stackVars
<1>2. \A t \in Tasks : status[t] \in {"finished", "failed"} => status'[t] = status[t]
  BY DEF TypeOK, Next, Stack, Delays, Starts, Introduces, Ends, Records, Stop, StartStop,
         Inspect, InspectFails, Deploy, StoreSnapshot, StoreCompose, Report, StartReport,
         GetData, Fail, Write, vars, stackVars
<1> QED BY <1>1, <1>2 DEF True, TrueNow

IsSeq(s) == \E S : s \in Seq(S)

LEMMA AppendedTo ==
  ASSUME NEW s, IsSeq(s), NEW x
  PROVE  /\ IsSeq(Append(s, x))
         /\ DOMAIN Append(s, x) = 1..(Len(s) + 1) /\ Len(s) \in Nat
         /\ DOMAIN s = 1..Len(s)
         /\ Append(s, x)[Len(s) + 1] = x
         /\ \A i \in DOMAIN s : Append(s, x)[i] = s[i]
         /\ \A i \in DOMAIN Append(s, x) :
               (i \in DOMAIN s /\ Append(s, x)[i] = s[i]) \/ Append(s, x)[i] = x
<1>1. PICK S : s \in Seq(S)
  BY DEF IsSeq
<1>2. s \in Seq(S \cup {x})
  BY <1>1
<1>3. Append(s, x) \in Seq(S \cup {x})
  BY <1>2
<1> QED BY <1>2, <1>3 DEF IsSeq

\* An answer about the snapshot, cached or not, is true.
LEMMA TrueAnswer ==
  ASSUME SnapshotInv, NEW c, c.func = "snapshot", Answer(c) # Nothing
  PROVE  TrueNow(Answer(c))
<1>1. CASE c \in DOMAIN cache
  BY <1>1 DEF SnapshotInv, Answer
<1>2. CASE c \notin DOMAIN cache
  <2>1. Answer(c) = ReadSnapshot
    BY <1>2 DEF Answer, Read
  <2>2. snapshot # Nothing /\ ReadSnapshot = [t \in DOMAIN snapshot \cap info |-> snapshot[t]]
    BY <2>1 DEF ReadSnapshot
  <2>3. TrueNow(snapshot)
    BY <2>2 DEF SnapshotInv
  <2> QED BY <2>1, <2>2, <2>3 DEF True, TrueNow
<1> QED BY <1>1, <1>2

\* A task that is found before its service is scaled down is found as it is, or waits.
LEMMA TrueInspection ==
  ASSUME TypeOK, SnapshotInv, NEW service \in Services, Inspect(service)
  PROVE  True(found', early, delayed, status)
<1>1. /\ DOMAIN found' = DOMAIN found \cup ListedTasks(service)
      /\ \A t \in DOMAIN found' :
            found'[t] = IF t \in ListedTasks(service) THEN Inspected(t) ELSE found[t]
  BY DEF Inspect
<1>2. down = {}
  BY DEF Inspect, SnapshotInv
<1>3. ASSUME NEW t \in ListedTasks(service), Inspected(t) # "running"
      PROVE  /\ t \in Tasks
             /\ \/ t \in early /\ Inspected(t) \in {"finished", "failed"} /\ status[t] = Inspected(t)
                \/ t \in delayed /\ Inspected(t) = "finished"
  <2>1. t \in Tasks /\ status[t] \in Statuses
    BY DEF ListedTasks, TypeOK
  <2>2. CASE status[t] = "ready"
    BY <2>1, <2>2 DEF Inspected, SnapshotInv
  <2>3. CASE status[t] # "ready"
    <3>1. Inspected(t) = status[t]
      BY <1>2, <2>3 DEF Inspected
    <3> QED BY <1>2, <1>3, <2>1, <2>3, <3>1 DEF SnapshotInv, Over, Statuses
  <2> QED BY <2>2, <2>3
<1> QED BY <1>1, <1>3 DEF True, TrueNow, SnapshotInv

\* The figures read the snapshot that is there, or show again what was read.
LEMMA TrueReport ==
  ASSUME TypeOK, SnapshotInv, Report, IsSeq(shown)
  PROVE  /\ \A c \in DOMAIN cache' : c.func = "snapshot" /\ cache'[c] # Nothing => True(cache'[c], early, delayed, status)
         /\ \A i \in DOMAIN shown' :
               shown'[i].call.func = "snapshot" /\ shown'[i].value # Nothing => True(shown'[i].value, early, delayed, status)
<1>0. DOMAIN <<>> = {}
  OBVIOUS
<1>1. CASE StartReport
  <2>1. cache' = Put(cache, Call("tasks", Nothing), info) /\ shown' = shown
    BY <1>1 DEF StartReport, Cached, Call
  <2>2. Call("tasks", Nothing).func # "snapshot"
    BY DEF Call
  <2> QED BY <2>1, <2>2 DEF Put, SnapshotInv, TrueNow
<1>2. CASE GetData
  <2> DEFINE call == Head(todo).call
             value == Answer(call)
             item == [page |-> Head(todo).page, call |-> call, value |-> value]
  <2>1. cache' = Cached(call, value) /\ shown' = Append(shown, item)
    BY <1>2 DEF GetData
  <2>2. call.func = "snapshot" /\ value # Nothing => TrueNow(value)
    BY TrueAnswer
  <2> HIDE DEF call, value
  <2>3. \A c \in DOMAIN cache' :
           (c \in DOMAIN cache /\ cache'[c] = cache[c]) \/ (c = call /\ cache'[c] = value)
    BY <2>1 DEF Cached, Put
  <2>4. \A i \in DOMAIN shown' :
           (i \in DOMAIN shown /\ shown'[i] = shown[i]) \/ shown'[i] = item
    BY <2>1, AppendedTo
  <2>5. item.call = call /\ item.value = value
    OBVIOUS
  <2> HIDE DEF item
  <2>6. ASSUME NEW c \in DOMAIN cache', c.func = "snapshot", cache'[c] # Nothing
        PROVE  True(cache'[c], early, delayed, status)
    BY <2>2, <2>3, <2>6 DEF SnapshotInv, TrueNow
  <2>7. ASSUME NEW i \in DOMAIN shown', shown'[i].call.func = "snapshot", shown'[i].value # Nothing
        PROVE  True(shown'[i].value, early, delayed, status)
    BY <2>2, <2>4, <2>5, <2>7 DEF SnapshotInv, TrueNow
  <2> QED BY <2>6, <2>7
<1>3. CASE Fail
  BY <1>0, <1>3 DEF Fail
<1>4. CASE Write
  BY <1>0, <1>4 DEF Write, SnapshotInv, TrueNow
<1> QED BY <1>1, <1>2, <1>3, <1>4 DEF Report

LEMMA NextSnapshotInv ==
  ASSUME TypeOK, SnapshotInv, IsSeq(shown), [Next]_vars
  PROVE  SnapshotInv'
<1> USE DEF stackVars, storeVars, stopVars, reportVars
<1> DEFINE Stays(f) == True(f, early', delayed', status')
<1>0. DOMAIN <<>> = {}
  OBVIOUS
<1>1. \A f : TrueNow(f) => Stays(f)
  BY StaysTrue
<1>2. \A t \in Tasks :
         /\ Over(t)' /\ ServiceOf[t] \notin down' => t \in early'
         /\ status'[t] = "ready" => t \in delayed'
  BY DEF TypeOK, Over, SnapshotInv, Next, Stack, Delays, Starts, Introduces, Ends, Records,
         Stop, StartStop, Inspect, InspectFails, Deploy, StoreSnapshot, StoreCompose, Report,
         StartReport, GetData, Fail, Write, vars
<1>3. stop' \in {"idle", "inspect"} => down' = {}
  BY DEF SnapshotInv, Next, Stack, Delays, Starts, Introduces, Ends, Records, Stop, StartStop,
         Inspect, InspectFails, Deploy, StoreSnapshot, StoreCompose, Report, StartReport,
         GetData, Fail, Write, vars
<1>4. Stays(found') /\ (snapshot' # Nothing => Stays(snapshot'))
  <2>1. ASSUME NEW service \in Services, Inspect(service) PROVE Stays(found')
    <3>1. True(found', early, delayed, status) /\ UNCHANGED <<early, delayed, status>>
      BY <2>1, TrueInspection DEF Inspect
    <3> QED BY <3>1
  <2>2. CASE UNCHANGED <<found, snapshot>>
    BY <1>1, <2>2 DEF SnapshotInv
  <2>3. found' = <<>> => Stays(found')
    BY <1>0 DEF True
  <2>4. snapshot' \in {found, snapshot} => (snapshot' # Nothing => Stays(snapshot'))
    BY <1>1 DEF SnapshotInv
  <2> HIDE DEF Stays
  <2>5. CASE \E service \in Services : Inspect(service)
    BY <2>1, <2>4, <2>5 DEF Inspect
  <2>6. CASE InspectFails \/ Deploy \/ StoreSnapshot
    BY <1>1, <2>3, <2>4, <2>6 DEF InspectFails, Deploy, StoreSnapshot, SnapshotInv
  <2>7. \/ UNCHANGED <<found, snapshot>> \/ InspectFails \/ Deploy \/ StoreSnapshot
        \/ \E service \in Services : Inspect(service)
    BY DEF Next, Stack, Delays, Starts, Introduces, Ends, Records, Stop, StartStop, StoreCompose,
           Report, StartReport, GetData, Fail, Write, vars
  <2> QED BY <2>2, <2>5, <2>6, <2>7
<1>5. /\ \A c \in DOMAIN cache' : c.func = "snapshot" /\ cache'[c] # Nothing => Stays(cache'[c])
      /\ \A i \in DOMAIN shown' :
            shown'[i].call.func = "snapshot" /\ shown'[i].value # Nothing => Stays(shown'[i].value)
  <2>1. CASE Report
    <3>1. UNCHANGED <<early, delayed, status>>
      BY <2>1 DEF Report, StartReport, GetData, Fail, Write
    <3> QED BY <2>1, <3>1, TrueReport
  <2>2. CASE UNCHANGED <<cache, shown>>
    BY <1>1, <2>2 DEF SnapshotInv
  <2>3. Report \/ UNCHANGED <<cache, shown>>
    BY DEF Next, Stack, Delays, Starts, Introduces, Ends, Records, Stop, StartStop, Inspect,
           InspectFails, Deploy, StoreSnapshot, StoreCompose, vars
  <2> QED BY <2>1, <2>2, <2>3
<1> QED BY <1>2, <1>3, <1>4, <1>5 DEF SnapshotInv, TrueNow

LEMMA EmptyIsSeq == IsSeq(<<>>)
<1>1. <<>> \in Seq({})
  OBVIOUS
<1> QED BY <1>1 DEF IsSeq

LEMMA ShownIsSeq == Spec => []IsSeq(shown)
<1>1. Init => IsSeq(shown)
  BY EmptyIsSeq DEF Init
<1>2. IsSeq(shown) /\ [Next]_vars => IsSeq(shown)'
  <2> SUFFICES ASSUME IsSeq(shown), [Next]_vars PROVE IsSeq(shown')
    BY DEF IsSeq
  <2>1. CASE GetData
    BY <2>1, AppendedTo DEF GetData
  <2>2. CASE shown' = shown \/ shown' = <<>>
    BY <2>2, EmptyIsSeq
  <2> QED
    BY <2>1, <2>2 DEF Next, Stack, Delays, Starts, Introduces, Ends, Records, Stop, StartStop,
       Inspect, InspectFails, Deploy, StoreSnapshot, StoreCompose, Report, StartReport, Fail, Write, vars, reportVars
<1> QED BY <1>1, <1>2, PTL DEF Spec

\* A task that a report shows as an error had failed before its service was scaled
\* down, and one that it shows as over had ended or was one that Swarm made wait,
\* although the stop, the tasks, their replacements and the report go on side by side
\* (stop.py:47-55; reader.py:36-48).
THEOREM TasksShownAsTheyEnded == Spec => []ShownAsItEnded
<1>1. Init => SnapshotInv
  <2> SUFFICES ASSUME Init PROVE SnapshotInv
    OBVIOUS
  <2>1. DOMAIN <<>> = {}
    OBVIOUS
  <2>2. down = {} /\ snapshot = Nothing /\ found = <<>> /\ cache = <<>>
        /\ shown = <<>> /\ \A t \in Tasks : status[t] = "none"
    BY DEF Init
  <2> QED BY <2>1, <2>2 DEF SnapshotInv, TrueNow, True, Over
<1>2. TypeOK /\ IsSeq(shown) /\ SnapshotInv /\ [Next]_vars => SnapshotInv'
  BY NextSnapshotInv
<1>3. SnapshotInv => ShownAsItEnded
  BY DEF SnapshotInv, TrueNow, True, ShownAsItEnded
<1> QED BY <1>1, <1>2, <1>3, ReportTypes, ShownIsSeq, PTL DEF Spec

(***************************************************************************)
(* What the pages of a report show                                         *)
(***************************************************************************)

\* Calls that go through the cache, and requests with such calls.
Plain(calls) == IsSeq(calls) /\ \A i \in 1..Len(calls) : calls[i].func # "compose"
PlainRequests(rs) == IsSeq(rs) /\ \A i \in 1..Len(rs) : rs[i].call.func # "compose"

\* The Compose file is asked for at the end, if at all.
ComposeLast(rs) ==
    IsSeq(rs) /\ \A i \in 1..Len(rs) : rs[i].call.func = "compose" => i = Len(rs)

LEMMA Joined ==
  ASSUME NEW s, IsSeq(s), NEW t, IsSeq(t)
  PROVE  /\ IsSeq(s \o t) /\ Len(s \o t) = Len(s) + Len(t) /\ Len(s) \in Nat /\ Len(t) \in Nat
         /\ \A i \in 1..Len(s \o t) :
               \/ i \in 1..Len(s) /\ (s \o t)[i] = s[i]
               \/ i - Len(s) \in 1..Len(t) /\ (s \o t)[i] = t[i - Len(s)]
<1>1. PICK S : s \in Seq(S)
  BY DEF IsSeq
<1>2. PICK S2 : t \in Seq(S2)
  BY DEF IsSeq
<1>3. s \in Seq(S \cup S2) /\ t \in Seq(S \cup S2)
  BY <1>1, <1>2
<1> HIDE <1>1, <1>2
<1>4. /\ s \o t \in Seq(S \cup S2) /\ Len(s \o t) = Len(s) + Len(t)
      /\ Len(s) \in Nat /\ Len(t) \in Nat
  BY <1>3
<1>5. ASSUME NEW i \in 1..Len(s \o t), i \notin 1..Len(s)
      PROVE  i - Len(s) \in 1..Len(t) /\ (s \o t)[i] = t[i - Len(s)]
  BY <1>3, <1>4, <1>5
<1>6. \A i \in 1..Len(s) : (s \o t)[i] = s[i]
  BY <1>3
<1> QED BY <1>4, <1>5, <1>6 DEF IsSeq

LEMMA PlainJoined ==
  ASSUME NEW s, Plain(s), NEW t, Plain(t)
  PROVE  Plain(s \o t)
<1>1. IsSeq(s) /\ IsSeq(t) /\ IsSeq(s \o t)
  BY Joined DEF Plain
<1>2. ASSUME NEW i \in 1..Len(s \o t) PROVE (s \o t)[i].func # "compose"
  <2>1. \/ i \in 1..Len(s) /\ (s \o t)[i] = s[i]
        \/ i - Len(s) \in 1..Len(t) /\ (s \o t)[i] = t[i - Len(s)]
    BY <1>1, Joined
  <2> QED BY <2>1 DEF Plain
<1> QED BY <1>1, <1>2 DEF Plain

LEMMA PlainSingle ==
  ASSUME NEW f, f # "compose", NEW t
  PROVE  Plain(<<Call(f, t)>>)
<1>1. <<Call(f, t)>> \in Seq({Call(f, t)})
  OBVIOUS
<1>2. Call(f, t).func = f
  BY DEF Call
<1>3. \A i \in 1..Len(<<Call(f, t)>>) : <<Call(f, t)>>[i] = Call(f, t)
  BY <1>1
<1> QED BY <1>1, <1>2, <1>3 DEF Plain, IsSeq

LEMMA PlainPair ==
  ASSUME NEW f, f # "compose", NEW t, NEW g, g # "compose", NEW u
  PROVE  Plain(<<Call(f, t), Call(g, u)>>)
<1>1. <<Call(f, t), Call(g, u)>> \in Seq({Call(f, t), Call(g, u)})
  OBVIOUS
<1>2. Call(f, t).func = f /\ Call(g, u).func = g
  BY DEF Call
<1>3. \A i \in 1..Len(<<Call(f, t), Call(g, u)>>) :
         <<Call(f, t), Call(g, u)>>[i] \in {Call(f, t), Call(g, u)}
  BY <1>1
<1> QED BY <1>1, <1>2, <1>3 DEF Plain, IsSeq

\* What SetToSeq returns.
LEMMA Listed ==
  ASSUME NEW S, IsFiniteSet(S)
  PROVE  SetToSeq(S) \in Seq(S) /\ Len(SetToSeq(S)) = Cardinality(S)
<1>1. Cardinality(S) \in Nat /\ ExistsBijection(1..Cardinality(S), S)
  BY FS_CardinalityType
<1>2. \E f \in [1..Cardinality(S) -> S] : IsInjective(f)
  BY <1>1 DEF ExistsBijection, Bijection, Injection, IsInjective
<1>3. SetToSeq(S) \in [1..Cardinality(S) -> S]
  BY <1>2 DEF SetToSeq
<1> QED BY <1>1, <1>3

LEMMA PlainEach ==
  ASSUME NEW S, IsFiniteSet(S), NEW f, f # "compose"
  PROVE  Plain(EachTask(f, S))
<1> DEFINE ts == SetToSeq(S)
           each == [i \in DOMAIN ts |-> Call(f, ts[i])]
<1>1. ts \in Seq(S)
  BY Listed
<1>2. DOMAIN ts = 1..Len(ts) /\ Len(ts) \in Nat
  BY <1>1
<1>3. each \in Seq({Call(f, x) : x \in S})
  BY <1>1, <1>2
<1>4. \A i \in 1..Len(each) : each[i].func # "compose"
  BY <1>2 DEF Call
<1>5. EachTask(f, S) = each
  BY DEF EachTask
<1> HIDE DEF each
<1> QED BY <1>3, <1>4, <1>5 DEF Plain, IsSeq

LEMMA Requested ==
  ASSUME NEW page, NEW calls, IsSeq(calls)
  PROVE  /\ IsSeq(For(page, calls)) /\ Len(For(page, calls)) = Len(calls)
         /\ \A i \in 1..Len(calls) : For(page, calls)[i].call = calls[i]
<1> DEFINE rs == [i \in DOMAIN calls |-> [page |-> page, call |-> calls[i]]]
<1>1. DOMAIN calls = 1..Len(calls) /\ Len(calls) \in Nat
  BY DEF IsSeq
<1>2. rs \in Seq({rs[i] : i \in 1..Len(calls)}) /\ Len(rs) = Len(calls)
  BY <1>1
<1>3. \A i \in 1..Len(calls) : rs[i].call = calls[i]
  BY <1>1
<1> QED BY <1>2, <1>3 DEF For, IsSeq

LEMMA PlainReads ==
  ASSUME NEW t
  PROVE  Plain(SectionReads(t)) /\ Plain(DatasetReads(t))
<1> DEFINE figures == UsageFigures(t) \o PacketFigures(t) \o InteractionFigures(t)
<1>1. Plain(UsageFigures(t)) /\ Plain(PacketFigures(t)) /\ Plain(InteractionFigures(t))
  BY PlainSingle DEF UsageFigures, PacketFigures, InteractionFigures
<1>2. Plain(figures)
  BY <1>1, PlainJoined
<1>3. Plain(<<Call("snapshot", Nothing), Call("info", t)>>) /\ Plain(<<Call("info", t)>>)
  BY PlainSingle, PlainPair
<1> QED BY <1>2, <1>3, PlainJoined DEF SectionReads, DatasetReads

LEMMA ReadsLength ==
  ASSUME NEW t
  PROVE  Len(SectionReads(t)) = 5 /\ Len(DatasetReads(t)) = 4
BY DEF SectionReads, DatasetReads, UsageFigures, PacketFigures, InteractionFigures

\* The position of a task in the list, and that of a read among those of the task.
LEMMA Positions ==
  ASSUME NEW n \in Nat
  PROVE  /\ \A i \in 1..5 * n : 1 + ((i - 1) % 5) \in 1..5
         /\ \A i \in 1..4 * n : 1 + ((i - 1) % 4) \in 1..4
OBVIOUS

LEMMA SectionsPlain ==
  ASSUME NEW S, IsFiniteSet(S)
  PROVE  PlainRequests(Sections(S))
<1> DEFINE ts == SetToSeq(S)
           At(i) == Section(ts[1 + ((i - 1) \div 5)])[1 + ((i - 1) % 5)]
           rs == [i \in 1..5 * Len(ts) |-> At(i)]
<1>1. Len(ts) \in Nat
  BY Listed
<1>2. Sections(S) = rs
  BY DEF Sections, TaskByTask
<1>3. ASSUME NEW i \in 1..5 * Len(ts) PROVE At(i).call.func # "compose"
  <2> DEFINE t == ts[1 + ((i - 1) \div 5)]
             k == 1 + ((i - 1) % 5)
  <2>1. k \in 1..5
    BY <1>1, Positions
  <2>2. IsSeq(SectionReads(t)) /\ Len(SectionReads(t)) = 5
    BY PlainReads, ReadsLength DEF Plain
  <2> HIDE DEF t, k
  <2>3. Section(t)[k].call = SectionReads(t)[k]
    BY <2>1, <2>2, Requested DEF Section
  <2>4. SectionReads(t)[k].func # "compose"
    BY <2>1, <2>2, PlainReads DEF Plain
  <2> QED BY <2>3, <2>4 DEF t, k
<1>4. rs \in Seq({At(i) : i \in 1..5 * Len(ts)}) /\ Len(rs) = 5 * Len(ts)
  <2>1. 5 * Len(ts) \in Nat
    BY <1>1
  <2> HIDE DEF At, ts
  <2> QED BY <2>1
<1>5. \A i \in 1..Len(rs) : rs[i].call.func # "compose"
  BY <1>1, <1>3, <1>4
<1> QED BY <1>2, <1>4, <1>5 DEF PlainRequests, IsSeq

LEMMA DatasetPlain ==
  ASSUME NEW S, IsFiniteSet(S)
  PROVE  Plain(TasksData(S))
<1> DEFINE ts == SetToSeq(S)
           At(i) == DatasetReads(ts[1 + ((i - 1) \div 4)])[1 + ((i - 1) % 4)]
           calls == [i \in 1..4 * Len(ts) |-> At(i)]
<1>1. Len(ts) \in Nat
  BY Listed
<1>2. TasksData(S) = calls
  BY DEF TasksData, TaskByTask
<1>3. ASSUME NEW i \in 1..4 * Len(ts) PROVE At(i).func # "compose"
  <2> DEFINE t == ts[1 + ((i - 1) \div 4)]
             k == 1 + ((i - 1) % 4)
  <2>1. k \in 1..4
    BY <1>1, Positions
  <2>2. Plain(DatasetReads(t)) /\ Len(DatasetReads(t)) = 4
    BY PlainReads, ReadsLength
  <2> HIDE DEF t, k
  <2>3. DatasetReads(t)[k].func # "compose"
    BY <2>1, <2>2 DEF Plain
  <2> QED BY <2>3 DEF t, k
<1>4. calls \in Seq({At(i) : i \in 1..4 * Len(ts)}) /\ Len(calls) = 4 * Len(ts)
  <2>1. 4 * Len(ts) \in Nat
    BY <1>1
  <2> HIDE DEF At, ts
  <2> QED BY <2>1
<1>5. \A i \in 1..Len(calls) : calls[i].func # "compose"
  BY <1>1, <1>3, <1>4
<1> QED BY <1>2, <1>4, <1>5 DEF Plain, IsSeq

\* However many tasks there are, the reads of a report ask for the Compose file
\* once at most, after everything else.
LEMMA ReportReads ==
  ASSUME NEW S, IsFiniteSet(S)
  PROVE  ComposeLast(Pages(S)) /\ ComposeLast(Dataset(S))
<1> DEFINE figures ==
             <<Call("snapshot", Nothing), Call("info_map", Nothing)>>
             \o ServiceTrafficFigures \o NetworkTrafficFigure(S) \o RankingFigures(S)
             \o TimelineFigure
           last == <<Call("compose", Nothing)>>
<1>1. Plain(figures)
  <2>1. Plain(<<Call("snapshot", Nothing), Call("info_map", Nothing)>>)
        /\ Plain(ServiceTrafficFigures)
    BY PlainPair DEF ServiceTrafficFigures
  <2>2. Plain(NetworkTrafficFigure(S)) /\ Plain(RankingFigures(S))
    BY PlainSingle, PlainEach, PlainJoined DEF NetworkTrafficFigure, RankingFigures
  <2>3. Plain(TimelineFigure)
    BY PlainSingle DEF TimelineFigure
  <2> QED BY <2>1, <2>2, <2>3, PlainJoined
<1>2. Index(S) = For("index", figures \o last)
  BY DEF Index
<1> HIDE DEF figures
<1>3. IsSeq(last) /\ Len(last) = 1
  <2>1. last \in Seq({Call("compose", Nothing)})
    OBVIOUS
  <2> QED BY <2>1 DEF IsSeq
<1> HIDE DEF last
<1>4. ComposeLast(Index(S)) /\ Len(Index(S)) = Len(figures) + 1 /\ Len(figures) \in Nat
  <2>1. /\ IsSeq(figures \o last) /\ Len(figures \o last) = Len(figures) + 1
        /\ Len(figures) \in Nat
        /\ \A i \in 1..Len(figures \o last) :
              \/ i \in 1..Len(figures) /\ (figures \o last)[i] = figures[i]
              \/ i - Len(figures) \in 1..Len(last)
    BY <1>1, <1>3, Joined DEF Plain
  <2>2. /\ IsSeq(Index(S)) /\ Len(Index(S)) = Len(figures) + 1
        /\ \A i \in 1..Len(Index(S)) : Index(S)[i].call = (figures \o last)[i]
    <3> DEFINE calls == figures \o last
    <3>1. IsSeq(calls) /\ Len(calls) = Len(figures) + 1 /\ Index(S) = For("index", calls)
      BY <1>2, <2>1
    <3> HIDE DEF calls
    <3>2. /\ IsSeq(Index(S)) /\ Len(Index(S)) = Len(figures) + 1
          /\ \A i \in 1..Len(Index(S)) : Index(S)[i].call = calls[i]
      BY <3>1, Requested
    <3> QED BY <3>2 DEF calls
  <2>3. ASSUME NEW i \in 1..Len(Index(S)), Index(S)[i].call.func = "compose"
        PROVE  i = Len(Index(S))
    <3>1. i \notin 1..Len(figures)
      BY <1>1, <2>1, <2>2, <2>3 DEF Plain
    <3> QED BY <2>1, <2>2, <3>1
  <2> QED BY <2>1, <2>2, <2>3 DEF ComposeLast
<1>5. ComposeLast(Pages(S))
  <2> DEFINE sections == Sections(S)
             pages == sections \o Index(S)
  <2>1. PlainRequests(sections)
    BY SectionsPlain
  <2> HIDE DEF sections
  <2>2. /\ IsSeq(pages) /\ Len(pages) = Len(sections) + Len(Index(S))
        /\ Len(sections) \in Nat /\ Len(Index(S)) \in Nat
        /\ \A i \in 1..Len(pages) :
              \/ i \in 1..Len(sections) /\ pages[i] = sections[i]
              \/ /\ i - Len(sections) \in 1..Len(Index(S))
                 /\ pages[i] = Index(S)[i - Len(sections)]
    BY <1>4, <2>1, Joined DEF PlainRequests, ComposeLast
  <2> HIDE DEF pages
  <2>3. ASSUME NEW i \in 1..Len(pages), pages[i].call.func = "compose"
        PROVE  i = Len(pages)
    <3>1. /\ i - Len(sections) \in 1..Len(Index(S))
          /\ pages[i] = Index(S)[i - Len(sections)]
      BY <2>1, <2>2, <2>3 DEF PlainRequests
    <3>2. i - Len(sections) = Len(Index(S))
      BY <1>4, <2>3, <3>1 DEF ComposeLast
    <3> QED BY <2>2, <3>2
  <2>4. Pages(S) = pages
    BY DEF Pages, pages, sections
  <2> QED BY <2>2, <2>3, <2>4 DEF ComposeLast
<1>6. ComposeLast(Dataset(S))
  <2> DEFINE traffic == <<Call("inbound", Nothing), Call("outbound", Nothing), Call("snapshot", Nothing)>>
             calls == TasksData(S) \o traffic
  <2>1. Plain(traffic)
    <3>1. traffic = <<Call("inbound", Nothing), Call("outbound", Nothing)>>
                    \o <<Call("snapshot", Nothing)>>
      OBVIOUS
    <3> HIDE DEF traffic
    <3> QED BY <3>1, PlainPair, PlainSingle, PlainJoined
  <2> HIDE DEF traffic
  <2>2. Plain(calls)
    BY <2>1, DatasetPlain, PlainJoined
  <2>3. Dataset(S) = For("dataset", calls)
    BY DEF Dataset, traffic
  <2> HIDE DEF calls
  <2> QED BY <2>2, <2>3, Requested DEF ComposeLast, Plain
<1> QED BY <1>5, <1>6

\* Two figures that ask for the same show the same, and as long as pages are being
\* built, what they have shown is what the cache answers.  The Compose file, which
\* goes past the cache, is shown last.
Agreement ==
    \A i, j \in DOMAIN shown : shown[i].call = shown[j].call => shown[i].value = shown[j].value
PagesInv ==
    /\ IsSeq(shown)
    /\ ComposeLast(todo)
    /\ Agreement
    /\ report \in {"none", "failed"} => shown = <<>>
    /\ todo # <<>> => \A i \in DOMAIN shown : shown[i].call.func # "compose"
    /\ report = "building" =>
          \A i \in DOMAIN shown :
              shown[i].call.func # "compose" =>
                  shown[i].call \in DOMAIN cache /\ cache[shown[i].call] = shown[i].value

LEMMA NextRead ==
  ASSUME PagesInv, GetData
  PROVE  PagesInv'
<1> DEFINE call == Head(todo).call
           value == Answer(call)
           item == [page |-> Head(todo).page, call |-> call, value |-> value]
           n == Len(shown)
<1>1. /\ report = "building" /\ todo # <<>> /\ cache' = Cached(call, value)
      /\ shown' = Append(shown, item) /\ todo' = Tail(todo) /\ report' = report
  BY DEF GetData
<1>2. item.call = call /\ item.value = value
  OBVIOUS
<1>3. value = IF call \in DOMAIN cache THEN cache[call] ELSE Read(call)
  BY DEF Answer
<1>4. /\ Len(todo) \in Nat \ {0} /\ Head(todo) = todo[1] /\ Len(todo') = Len(todo) - 1
      /\ IsSeq(todo') /\ \A i \in 1..Len(todo') : todo'[i] = todo[i + 1]
  <2>1. PICK S : todo \in Seq(S)
    BY DEF PagesInv, ComposeLast, IsSeq
  <2> QED BY <1>1, <2>1 DEF IsSeq
<1> HIDE DEF call, value, item
<1>5. ComposeLast(todo')
  <2> SUFFICES ASSUME NEW i \in 1..Len(todo'), todo'[i].call.func = "compose"
               PROVE  i = Len(todo')
    BY <1>4 DEF ComposeLast
  <2>1. i + 1 \in 1..Len(todo) /\ todo[i + 1].call.func = "compose"
    BY <1>4
  <2>2. i + 1 = Len(todo)
    BY <2>1 DEF PagesInv, ComposeLast
  <2> QED BY <1>4, <2>2
<1>6. call.func = "compose" => todo' = <<>>
  <2>1. call.func = "compose" => Len(todo') = 0
    BY <1>4 DEF PagesInv, ComposeLast, call
  <2>2. Len(todo') = 0 => todo' = <<>>
    BY <1>4 DEF IsSeq
  <2> QED BY <2>1, <2>2
<1>7. /\ IsSeq(shown') /\ DOMAIN shown' = 1..(n + 1) /\ n \in Nat /\ DOMAIN shown = 1..n
      /\ shown'[n + 1] = item /\ \A i \in DOMAIN shown : shown'[i] = shown[i]
  BY <1>1, AppendedTo DEF PagesInv
<1> HIDE DEF n
<1>8. \A i \in DOMAIN shown' : i = n + 1 \/ i \in DOMAIN shown
  BY <1>7
<1>9. \A i \in DOMAIN shown : shown[i].call.func # "compose"
  BY <1>1 DEF PagesInv
\* What was shown for this call before is what the cache answers now.
<1>10. \A i \in DOMAIN shown : shown[i].call = call => shown[i].value = value
  BY <1>1, <1>3, <1>9 DEF PagesInv
<1>11. Agreement'
  <2> SUFFICES ASSUME NEW i \in DOMAIN shown', NEW j \in DOMAIN shown',
                      shown'[i].call = shown'[j].call
               PROVE  shown'[i].value = shown'[j].value
    BY DEF Agreement
  <2>1. CASE i \in DOMAIN shown /\ j \in DOMAIN shown
    BY <1>7, <2>1 DEF PagesInv, Agreement
  <2>2. CASE i = n + 1 /\ j \in DOMAIN shown
    BY <1>2, <1>7, <1>10, <2>2
  <2>3. CASE i \in DOMAIN shown /\ j = n + 1
    BY <1>2, <1>7, <1>10, <2>3
  <2> QED BY <1>8, <2>1, <2>2, <2>3
<1>12. todo' # <<>> => \A i \in DOMAIN shown' : shown'[i].call.func # "compose"
  BY <1>2, <1>6, <1>7, <1>8, <1>9
<1>13. ASSUME NEW i \in DOMAIN shown', shown'[i].call.func # "compose"
       PROVE  shown'[i].call \in DOMAIN cache' /\ cache'[shown'[i].call] = shown'[i].value
  <2>1. CASE i = n + 1
    BY <1>1, <1>2, <1>7, <1>13, <2>1 DEF Cached, Put
  <2>2. CASE i \in DOMAIN shown
    <3>1. shown'[i] = shown[i] /\ shown[i].call \in DOMAIN cache
          /\ cache[shown[i].call] = shown[i].value
      BY <1>1, <1>7, <1>9, <2>2 DEF PagesInv
    <3> QED BY <1>1, <1>10, <2>2, <3>1 DEF Cached, Put
  <2> QED BY <1>8, <2>1, <2>2
<1> QED BY <1>1, <1>5, <1>7, <1>11, <1>12, <1>13 DEF PagesInv

LEMMA NextPagesInv ==
  ASSUME TypeOK, PagesInv, [Next]_vars
  PROVE  PagesInv'
<1> USE DEF stackVars, storeVars, stopVars, reportVars
<1>0. /\ DOMAIN <<>> = {} /\ IsSeq(<<>>) /\ Len(<<>>) = 0
  BY EmptyIsSeq
<1>1. CASE StartReport
  <2>1. IsFiniteSet(info)
    BY ReportAssumption, FS_Subset DEF TypeOK
  <2>2. ComposeLast(todo')
    BY <1>1, <2>1, ReportReads DEF StartReport
  <2>3. shown' = <<>> /\ report' = "building"
    BY <1>1 DEF StartReport, PagesInv
  <2> QED BY <1>0, <2>2, <2>3 DEF PagesInv, Agreement
<1>2. CASE GetData
  BY <1>2, NextRead
<1>3. CASE Fail
  BY <1>0, <1>3 DEF Fail, PagesInv, Agreement, ComposeLast
<1>4. CASE Write
  BY <1>4 DEF Write, PagesInv, Agreement
<1>5. CASE UNCHANGED reportVars
  BY <1>5 DEF PagesInv, Agreement
<1> QED
  BY <1>1, <1>2, <1>3, <1>4, <1>5 DEF Next, Stack, Delays, Starts, Introduces, Ends, Records,
     Stop, StartStop, Inspect, InspectFails, Deploy, StoreSnapshot, StoreCompose, Report, vars

\* The pages of one report show the same wherever they draw the same, although the
\* tasks go on storing and the stack may be stopped while it is built
\* (builder.py, _reader_exec).
THEOREM PagesOfAReportAgree == Spec => []PagesAgree
<1>1. Init => PagesInv
  <2> SUFFICES ASSUME Init PROVE PagesInv
    OBVIOUS
  <2>1. DOMAIN <<>> = {} /\ IsSeq(<<>>) /\ Len(<<>>) = 0
    BY EmptyIsSeq
  <2>2. shown = <<>> /\ todo = <<>>
    BY DEF Init
  <2> QED BY <2>1, <2>2 DEF PagesInv, Agreement, ComposeLast
<1>2. TypeOK /\ PagesInv /\ [Next]_vars => PagesInv'
  BY NextPagesInv
<1>3. PagesInv => PagesAgree
  BY DEF PagesInv, Agreement, PagesAgree
<1> QED BY <1>1, <1>2, <1>3, ReportTypes, PTL DEF Spec
=============================================================================
