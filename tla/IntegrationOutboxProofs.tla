----------------------- MODULE IntegrationOutboxProofs -----------------------
(* Proofs about IntegrationOutbox, for every number of changes, any set of      *)
(* workers and messages and any number of faults and manual runs.               *)
EXTENDS IntegrationOutbox, FiniteSetTheorems, TLAPS

Columns == {"none", "PENDING", "RETRY_PENDING", "CLAIMED", "SUCCEEDED", "DEAD_LETTER"}
Records == {"none", "PENDING", "RETRY_PENDING", "PROCESSING", "PROCESSED", "DEAD_LETTER"}
Phases  == {"idle", "read", "claim", "load", "update", "write", "send", "sleep"}
Wants   == {"none", "PROCESSING", "PROCESSED", "RETRY_PENDING", "DEAD_LETTER", "LAST"}
RowType == [column : Columns, json : Records, payload : Nat, lease : Nat, due : Nat]
MessageType == [row : Nat, state : {"gone", "queued", "held"}, deliveries : Nat, delay : Nat]
WorkerType  == [phase : Phases, row : Nat, message : Messages \cup {NoMessage}, sends : Nat,
                keeps : Nat, tries : Nat, want : Wants]

\* A change is issued and not yet written: it is looked for among the rows.
Recording == producer.phase \in {"coalesce", "enqueue", "insert"}

OutboxType ==
  /\ rows \in [Changes -> RowType]
  /\ producer \in [phase : {"idle", "coalesce", "replace", "enqueue", "insert", "send"}, row : Nat]
  /\ issued \in Nat /\ issued <= Cardinality(Changes)
  /\ Recording => issued \in Changes
  /\ queue \in [Messages -> MessageType]
  /\ worker \in [Workers -> WorkerType]
  /\ contested \in [Changes -> SUBSET Nat]

\* A record that says SUCCEEDED, or one it was contested with, was applied.
GoodRow(r) == rows[r].column = "SUCCEEDED" =>
  rows[r].payload \in delivered \/ contested[r] \cap delivered # {}

\* A payload somebody has read of the row is the one that is there, or both are contested.
Known(r, p) == p = rows[r].payload \/ {p, rows[r].payload} \subseteq contested[r]

\* A message names a row.
GoodMessage(m) == queue[m].state # "gone" => queue[m].row \in Rows

\* A worker has a row, sends and writes back what it has read of it, and reports what it
\* sends as sent when the provider has applied it.
Sending(w) ==
  /\ IF worker[w].phase = "idle" THEN worker[w] = Idle ELSE worker[w].row \in Rows
  /\ worker[w].phase \in {"update", "write", "send", "sleep"} => Known(worker[w].row, worker[w].sends)
  /\ worker[w].phase = "write" => Known(worker[w].row, worker[w].keeps)
  /\ worker[w].phase \in {"update", "write"} =>
       /\ worker[w].want # "none"
       /\ worker[w].want = "PROCESSED" => worker[w].sends \in delivered

\* It holds its message alone.
Holding(w) == worker[w].message # NoMessage =>
  /\ worker[w].message \in Messages
  /\ queue[worker[w].message].state = "held"
  /\ \A v \in Workers : worker[v].message = worker[w].message => v = w

\* The producer replaces, and sends a message for, a row that is there.
GoodProducer == producer.phase \in {"replace", "send"} => producer.row \in Rows

OutboxInv ==
  /\ OutboxType
  /\ \A r \in Rows : GoodRow(r)
  /\ \A m \in Messages : GoodMessage(m)
  /\ \A w \in Workers : Sending(w) /\ Holding(w)
  /\ GoodProducer

-----------------------------------------------------------------------------
(* The operators of the module.                                                *)

LEMMA ChangesType ==
  /\ Cardinality(Changes) \in Nat /\ Changes = 1..Cardinality(Changes)
  /\ \A c \in Changes : c \in Nat /\ c > 0
BY OutboxAssumption, FS_CardinalityType

LEMMA Records0 ==
  /\ NoRow \in RowType /\ \A c \in Nat : NewRow(c) \in RowType /\ NewRow(c).payload = c
                              /\ NewRow(c).column = "PENDING"
  /\ Gone \in MessageType /\ Gone.state = "gone"
  /\ Idle \in WorkerType /\ Idle.phase = "idle" /\ Idle.message = NoMessage
BY DEF NoRow, NewRow, Gone, Idle, RowType, MessageType, WorkerType, Columns, Records, Phases, Wants, Nothing

\* The edits of a worker: the phase alone, and the next update of its row.
LEMMA GotoEdits ==
  ASSUME worker \in [Workers -> WorkerType], NEW w \in Workers, NEW from, NEW to \in Phases,
         Goto(w, from, to)
  PROVE  /\ worker[w].phase = from /\ worker' \in [Workers -> WorkerType]
         /\ worker' = [worker EXCEPT ![w] = [worker[w] EXCEPT !.phase = to]]
         /\ worker'[w].phase = to
         /\ \A f \in {"row", "message", "sends", "keeps", "tries", "want"} : worker'[w][f] = worker[w][f]
         /\ \A v \in Workers \ {w} : worker'[v] = worker[v]
BY DEF Goto, WorkerType

LEMMA UpdateEdits ==
  ASSUME worker \in [Workers -> WorkerType], NEW w \in Workers, NEW status \in Wants, NEW n \in Nat,
         Update(w, status, n)
  PROVE  /\ worker' \in [Workers -> WorkerType]
         /\ worker'[w].phase = "update" /\ worker'[w].want = status
         /\ \A f \in {"row", "message", "sends", "keeps"} : worker'[w][f] = worker[w][f]
         /\ \A v \in Workers \ {w} : worker'[v] = worker[v]
<1>1. [worker[w] EXCEPT !.phase = "update", !.want = status, !.tries = n] \in WorkerType
  BY DEF WorkerType, Phases
<1> QED
  BY <1>1 DEF Update, WorkerType

LEMMA ReleaseEdits ==
  ASSUME worker \in [Workers -> WorkerType], NEW w \in Workers, NEW from, Release(w, from)
  PROVE  /\ worker[w].phase = from /\ worker' \in [Workers -> WorkerType] /\ worker'[w] = Idle
         /\ \A v \in Workers \ {w} : worker'[v] = worker[v]
BY Records0 DEF Release

\* What is written back of a record keeps the row, and its column says SUCCEEDED only for
\* a change that was reported as sent.
LEMMA WrittenRow ==
  ASSUME worker \in [Workers -> WorkerType], NEW w \in Workers, worker[w].want # "none"
  PROVE  /\ Written(w) \in RowType /\ Written(w).payload = worker[w].keeps
         /\ Written(w).column \in Columns \ {"none"}
         /\ Written(w).column = "SUCCEEDED" => worker[w].want = "PROCESSED"
<1>1. worker[w].want \in Wants \ {"none"} /\ worker[w].keeps \in Nat
  BY DEF WorkerType
<1> QED
  BY <1>1 DEF Written, Column, RowType, Columns, Records, Wants

\* A tick shortens leases and delays and changes nothing else of a record or a message.
LEMMA RowAges ==
  ASSUME NEW x \in RowType
  PROVE  LET y == [x EXCEPT !.lease = Less(@), !.due = Less(@)]
         IN  y \in RowType /\ \A f \in {"column", "json", "payload"} : y[f] = x[f]
<1>1. Less(x.lease) \in Nat /\ Less(x.due) \in Nat
  BY DEF RowType, Less
<1> QED
  BY <1>1 DEF RowType

LEMMA MessageAges ==
  ASSUME NEW x \in MessageType
  PROVE  LET y == [x EXCEPT !.delay = Less(@)]
         IN  /\ y \in MessageType /\ \A f \in {"row", "state"} : y[f] = x[f]
             /\ x = Gone => y = Gone
<1>1. Less(x.delay) \in Nat
  BY DEF MessageType, Less
<1>2. x = Gone => Less(x.delay) = 0
  BY DEF Gone, Less
<1> QED
  BY <1>1, <1>2 DEF MessageType, Gone

-----------------------------------------------------------------------------
(* Steps of one shape.                                                         *)

\* The rows may be written, but what was read of one stays known.
Steady ==
  /\ rows' \in [Changes -> RowType] /\ Rows' = Rows /\ contested' = contested
  /\ \A r \in Rows : GoodRow(r)' /\ Known(r, rows'[r].payload)

LEMMA KnownStays ==
  ASSUME Steady, NEW r \in Rows, NEW p, Known(r, p)
  PROVE  Known(r, p)'
<1>1. contested'[r] = contested[r] /\ Known(r, rows'[r].payload)
  BY DEF Steady
<1> QED
  BY <1>1 DEF Known

LEMMA OthersSend ==
  ASSUME OutboxInv, Steady, NEW v \in Workers, worker'[v] = worker[v], delivered \subseteq delivered'
  PROVE  Sending(v)'
<1>1. Sending(v) /\ Rows' = Rows
  BY DEF OutboxInv, Steady
<1>2. worker[v].phase # "idle" => worker[v].row \in Rows
  BY <1>1 DEF Sending
<1>3. worker[v].phase \in {"update", "write", "send", "sleep"} => Known(worker[v].row, worker[v].sends)'
  BY <1>1, <1>2, KnownStays DEF Sending
<1>4. worker[v].phase = "write" => Known(worker[v].row, worker[v].keeps)'
  BY <1>1, <1>2, KnownStays DEF Sending
<1> QED
  BY <1>1, <1>3, <1>4 DEF Sending

\* A worker goes on with its row and its message.
LEMMA WorkerGoesOn ==
  ASSUME OutboxInv, NEW w \in Workers, worker[w].phase # "idle",
         worker' \in [Workers -> WorkerType], \A v \in Workers \ {w} : worker'[v] = worker[v],
         worker'[w].row = worker[w].row, worker'[w].message = worker[w].message, Sending(w)',
         UNCHANGED <<producer, issued, queue>>, delivered \subseteq delivered', Steady
  PROVE  OutboxInv'
<1>0. rows' \in [Changes -> RowType] /\ Rows' = Rows /\ contested' = contested /\ \A r \in Rows : GoodRow(r)'
  BY DEF Steady
<1>1. OutboxType'
  BY <1>0 DEF OutboxInv, OutboxType, Recording
<1>4. \A m \in Messages : GoodMessage(m)'
  BY <1>0 DEF OutboxInv, GoodMessage
<1>5. \A v \in Workers : worker'[v].message = worker[v].message
  OBVIOUS
<1>6. \A v \in Workers : Holding(v)'
  BY <1>5 DEF OutboxInv, Holding
<1>7. \A v \in Workers : Sending(v)'
  BY OthersSend
<1>9. GoodProducer'
  BY <1>0 DEF OutboxInv, GoodProducer
<1> QED
  BY <1>0, <1>1, <1>4, <1>6, <1>7, <1>9 DEF OutboxInv

\* The record of a row is written again with what is known of it.
LEMMA RowEdited ==
  ASSUME OutboxInv, NEW r \in Rows, NEW x \in RowType, rows' = [rows EXCEPT ![r] = x],
         UNCHANGED <<delivered, contested>>, Known(r, x.payload), x.column # "none",
         x.column = "SUCCEEDED" => x.payload \in delivered \/ contested[r] \cap delivered # {}
  PROVE  Steady
<1>1. rows' \in [Changes -> RowType] /\ rows'[r] = x /\ \A q \in Changes \ {r} : rows'[q] = rows[q]
  BY DEF OutboxInv, OutboxType, Rows
<1>2. Rows' = Rows
  BY <1>1 DEF Rows
<1>3. GoodRow(r)'
  BY <1>1 DEF GoodRow
<1>4. \A q \in Rows \ {r} : GoodRow(q)' /\ Known(q, rows'[q].payload)
  BY <1>1 DEF OutboxInv, GoodRow, Known, Rows
<1> QED
  BY <1>1, <1>2, <1>3, <1>4 DEF Steady

\* A worker puts its message down, for good or to be delivered again.
LEMMA WorkerLetsGo ==
  ASSUME OutboxInv, NEW w \in Workers, worker[w].phase # "idle", Release(w, worker[w].phase),
         Ack(w) \/ \E delay \in Nat : Redeliver(w, delay),
         UNCHANGED <<producer, issued, delivered>>, Steady
  PROVE  OutboxInv'
<1> DEFINE h == worker[w].message
<1>0. /\ worker \in [Workers -> WorkerType] /\ queue \in [Messages -> MessageType]
      /\ rows' \in [Changes -> RowType] /\ Rows' = Rows /\ contested' = contested
      /\ \A r \in Rows : GoodRow(r)'
  BY DEF OutboxInv, OutboxType, Steady
<1>1. worker' \in [Workers -> WorkerType] /\ worker'[w] = Idle /\ \A v \in Workers \ {w} : worker'[v] = worker[v]
  BY <1>0, ReleaseEdits
<1>2. h # NoMessage => h \in Messages /\ queue[h].row \in Rows /\ queue[h] \in MessageType
                       /\ \A v \in Workers \ {w} : worker[v].message # h
  BY <1>0 DEF OutboxInv, Holding, GoodMessage, MessageType
<1>3. ASSUME h # NoMessage
      PROVE  \E q \in MessageType : queue' = [queue EXCEPT ![h] = q] /\ (q.state = "gone" \/ q.row = queue[h].row)
  <2>1. \A delay \in Nat : [queue[h] EXCEPT !.state = "queued", !.delay = delay] \in MessageType
    BY <1>2, <1>3 DEF MessageType
  <2>2. \A delay \in Nat : [queue[h] EXCEPT !.state = "queued", !.delay = delay].row = queue[h].row
    BY <1>2, <1>3 DEF MessageType
  <2> QED
    BY <1>0, <1>2, <1>3, <2>1, <2>2, Records0 DEF Ack, Redeliver
<1>4. queue' \in [Messages -> MessageType] /\ \A m \in Messages : m # h \/ h = NoMessage => queue'[m] = queue[m]
  BY <1>0, <1>3 DEF Ack, Redeliver
<1>5. \A m \in Messages : queue'[m].state # "gone" => queue'[m].row \in Rows
  BY <1>0, <1>2, <1>3, <1>4 DEF OutboxInv, GoodMessage
<1>6. OutboxType'
  BY <1>0, <1>1, <1>4 DEF OutboxInv, OutboxType, Recording
<1>7. \A v \in Workers : Sending(v)'
  BY <1>1, Records0, OthersSend DEF Sending
<1>8. \A v \in Workers \ {w} : Holding(v)'
  BY <1>1, <1>2, <1>4, Records0 DEF OutboxInv, Holding
<1>9. Holding(w)'
  BY <1>1, Records0 DEF Holding
<1>11. GoodProducer'
  BY <1>0 DEF OutboxInv, GoodProducer
<1> QED
  BY <1>0, <1>5, <1>6, <1>7, <1>8, <1>9, <1>11 DEF OutboxInv, GoodMessage
-----------------------------------------------------------------------------
(* The steps of the producer, the queue and the workers.                       *)

\* A message for a row is put into the queue.
LEMMA MessageSent ==
  ASSUME OutboxInv, NEW r \in Rows, Sent(r), UNCHANGED <<rows, worker, issued, delivered, contested>>,
         producer' = producer \/ producer' = [phase |-> "idle", row |-> Nothing]
  PROVE  OutboxInv'
<1>0. queue \in [Messages -> MessageType] /\ r \in Nat
  BY ChangesType DEF OutboxInv, OutboxType, Rows
<1>1. PICK m \in Messages : queue[m] = Gone /\ queue' = [queue EXCEPT ![m] = [Gone EXCEPT !.row = r, !.state = "queued"]]
  BY DEF Sent
<1>2. [Gone EXCEPT !.row = r, !.state = "queued"] \in MessageType /\ [Gone EXCEPT !.row = r, !.state = "queued"].row = r
  BY <1>0 DEF Gone, MessageType, Nothing
<1>3. queue' \in [Messages -> MessageType] /\ queue'[m].row = r /\ \A x \in Messages \ {m} : queue'[x] = queue[x]
  BY <1>0, <1>1, <1>2
<1>4. Rows' = Rows
  BY DEF Rows
<1>5. OutboxType'
  BY <1>3 DEF OutboxInv, OutboxType, Recording, Nothing
<1>6. \A x \in Rows' : GoodRow(x)'
  BY <1>4 DEF OutboxInv, GoodRow
<1>7. \A x \in Messages : GoodMessage(x)'
  BY <1>3, <1>4 DEF OutboxInv, GoodMessage
<1>8. \A w \in Workers : Sending(w)'
  BY <1>4 DEF OutboxInv, Sending, Known
<1>9. \A w \in Workers : Holding(w)'
  BY <1>1, <1>3, Records0 DEF OutboxInv, Holding
<1>10. GoodProducer'
  BY <1>4 DEF OutboxInv, GoodProducer
<1> QED
  BY <1>5, <1>6, <1>7, <1>8, <1>9, <1>10 DEF OutboxInv

\* The producer looks at the rows and writes nothing.
LEMMA ProducerLooks ==
  ASSUME OutboxInv, UNCHANGED <<rows, queue, worker, delivered, contested>>, OutboxType', GoodProducer'
  PROVE  OutboxInv'
<1>1. Rows' = Rows
  BY DEF Rows
<1> QED
  BY <1>1 DEF OutboxInv, GoodRow, GoodMessage, Sending, Known, Holding

\* A record is added to the rows that are there.
LEMMA InsertKeeps ==
  ASSUME OutboxInv, Rows \subseteq Rows', \A r \in Rows : rows'[r] = rows[r],
         UNCHANGED <<queue, worker, delivered, contested>>, OutboxType',
         \A r \in Rows' : GoodRow(r)', GoodProducer'
  PROVE  OutboxInv'
<1>1. \A m \in Messages : GoodMessage(m)'
  BY DEF OutboxInv, GoodMessage
<1>2. \A w \in Workers : Holding(w)'
  BY DEF OutboxInv, Holding
<1>3. ASSUME NEW w \in Workers PROVE Sending(w)'
  <2>1. Sending(w) /\ (worker[w].phase # "idle" => worker[w].row \in Rows)
    BY DEF OutboxInv, Sending
  <2> QED
    BY <2>1 DEF Sending, Known
<1> QED
  BY <1>1, <1>2, <1>3 DEF OutboxInv

\* A change is recorded: in a row of its own, or over one that seems to be waiting.
LEMMA ProducerStep ==
  ASSUME OutboxInv, Change \/ Produce \/ SendFails
  PROVE  OutboxInv'
<1>0. OutboxType /\ GoodProducer
  BY DEF OutboxInv
<1>1. CASE Change
  <2>1. OutboxType'
    BY <1>0, <1>1, ChangesType DEF Change, Step, OutboxType, Recording, Nothing
  <2>2. producer'.phase \in {"coalesce", "enqueue"}
    BY <1>1 DEF Change, Step
  <2>3. GoodProducer'
    BY <2>2 DEF GoodProducer
  <2> QED
    BY <1>1, <2>1, <2>3, ProducerLooks DEF Change
<1>2. CASE CoalesceFind
  <2>1. /\ Recording
        /\ \/ producer' = [phase |-> "enqueue", row |-> Nothing]
           \/ \E r \in Rows : producer' = [phase |-> "replace", row |-> r]
    BY <1>2 DEF CoalesceFind, Step, Recording, Waiting
  <2>2. \A r \in Rows : r \in Nat
    BY ChangesType DEF Rows
  <2>3. OutboxType'
    BY <1>0, <1>2, <2>1, <2>2 DEF CoalesceFind, OutboxType, Recording, Nothing
  <2>4. GoodProducer'
    BY <1>2, <2>1 DEF CoalesceFind, GoodProducer, Rows
  <2> QED
    BY <1>2, <2>3, <2>4, ProducerLooks DEF CoalesceFind
<1>3. CASE Replace
  <2> DEFINE r == producer.row
             p == rows[r].payload
  <2>1. /\ r \in Rows /\ r \in Changes /\ r \in Nat /\ producer' = [phase |-> "send", row |-> r]
        /\ p \in Nat /\ issued \in Nat
    BY <1>0, <1>3, ChangesType DEF Replace, Step, GoodProducer, Rows, OutboxType, RowType
  <2>2. /\ rows' \in [Changes -> RowType] /\ rows'[r] = NewRow(issued)
        /\ \A q \in Changes \ {r} : rows'[q] = rows[q]
    BY <1>0, <1>3, <2>1, Records0 DEF Replace, OutboxType
  <2>3. rows'[r].payload = issued /\ rows'[r].column = "PENDING"
    BY <2>1, <2>2, Records0
  <2>4. Rows' = Rows
    BY <2>1, <2>2, <2>3 DEF Rows
  <2>5. /\ contested' \in [Changes -> SUBSET Nat] /\ \A q \in Changes : contested[q] \subseteq contested'[q]
        /\ \A q \in Changes \ {r} : contested'[q] = contested[q]
        /\ (\E w \in Workers : Loaded(w, r)) => {p, issued} \subseteq contested'[r]
    BY <1>0, <1>3, <2>1 DEF Replace, OutboxType
  <2>6. UNCHANGED <<issued, queue, worker, delivered>>
    BY <1>3 DEF Replace
  <2>7. OutboxType'
    BY <1>0, <2>1, <2>2, <2>5, <2>6 DEF OutboxType, Recording
  <2>8. \A q \in Rows : GoodRow(q)'
    BY <2>2, <2>3, <2>5, <2>6 DEF OutboxInv, GoodRow, Rows
  <2>9. \A m \in Messages : GoodMessage(m)'
    BY <2>4, <2>6 DEF OutboxInv, GoodMessage
  <2>10. \A w \in Workers : Holding(w)'
    BY <2>6 DEF OutboxInv, Holding
  <2>11. ASSUME NEW w \in Workers PROVE Sending(w)'
    <3>1. Sending(w) /\ worker'[w] = worker[w]
      BY <2>6 DEF OutboxInv
    <3>2. ASSUME NEW q \in Rows, NEW x, Known(q, x), worker[w].row = q, Loaded(w, q) PROVE Known(q, x)'
      <4>1. CASE q # r
        BY <2>2, <2>5, <3>2, <4>1 DEF Known, Rows
      <4>2. CASE q = r
        <5>1. {p, issued} \subseteq contested'[r] /\ rows'[r].payload = issued
          BY <2>3, <2>5, <3>2, <4>2
        <5>2. x = p \/ x \in contested[r]
          BY <3>2, <4>2 DEF Known
        <5> QED
          BY <2>1, <2>5, <4>2, <5>1, <5>2 DEF Known
      <4> QED
        BY <4>1, <4>2
    <3>3. worker[w].phase # "idle" => worker[w].row \in Rows
      BY <3>1 DEF Sending
    <3>4. worker[w].phase \in {"update", "write", "send", "sleep"} => Known(worker[w].row, worker[w].sends)'
      BY <3>1, <3>2, <3>3 DEF Sending, Loaded
    <3>5. worker[w].phase = "write" => Known(worker[w].row, worker[w].keeps)'
      BY <3>1, <3>2, <3>3 DEF Sending, Loaded
    <3> QED
      BY <2>4, <2>6, <3>1, <3>4, <3>5 DEF Sending
  <2>12. GoodProducer'
    BY <2>1, <2>4 DEF GoodProducer
  <2> QED
    BY <2>4, <2>7, <2>8, <2>9, <2>10, <2>11, <2>12 DEF OutboxInv
<1>4. CASE EnqueueFind
  <2>1. Recording /\ producer' \in {[phase |-> "idle", row |-> Nothing], [phase |-> "insert", row |-> Nothing]}
    BY <1>4 DEF EnqueueFind, Step, Recording
  <2>2. OutboxType' /\ GoodProducer'
    BY <1>0, <1>4, <2>1 DEF EnqueueFind, OutboxType, GoodProducer, Recording, Nothing, Rows
  <2> QED
    BY <1>4, <2>2, ProducerLooks DEF EnqueueFind
<1>5. CASE Insert
  <2>1. Recording /\ issued \in Changes /\ issued \in Nat /\ producer' = [phase |-> "send", row |-> issued]
    BY <1>0, <1>5 DEF Insert, Step, Recording, OutboxType
  <2>2. /\ rows' \in [Changes -> RowType]
        /\ rows'[issued] = NewRow(issued) /\ \A r \in Changes \ {issued} : rows'[r] = rows[r]
    BY <1>0, <1>5, <2>1, Records0 DEF Insert, OutboxType
  <2>3. Rows' = Rows \cup {issued}
    <3>1. rows'[issued].column # "none"
      BY <2>1, <2>2, Records0
    <3> QED
      BY <2>1, <2>2, <3>1 DEF Rows
  <2>4. OutboxType'
    BY <1>0, <1>5, <2>1, <2>2 DEF Insert, OutboxType, Recording
  <2>5. \A r \in Rows' : GoodRow(r)'
    BY <1>5, <2>1, <2>2, <2>3, Records0 DEF Insert, OutboxInv, GoodRow, Rows
  <2>6. GoodProducer'
    BY <2>1, <2>3 DEF GoodProducer
  <2>7. \A r \in Rows : rows'[r] = rows[r]
    BY <1>5, <2>1, <2>2 DEF Insert, KeyTaken, Rows
  <2> QED
    BY <1>5, <2>3, <2>4, <2>5, <2>6, <2>7, InsertKeeps DEF Insert
<1>6. CASE InsertRefused
  <2>1. OutboxType' /\ GoodProducer'
    BY <1>0, <1>6 DEF InsertRefused, Step, OutboxType, GoodProducer, Recording, Nothing
  <2> QED
    BY <1>6, <2>1, ProducerLooks DEF InsertRefused
<1>7. CASE Send
  <2>1. producer.row \in Rows /\ producer' = [phase |-> "idle", row |-> Nothing]
    BY <1>0, <1>7 DEF Send, Step, GoodProducer
  <2> QED
    BY <1>7, <2>1, MessageSent DEF Send
<1>8. CASE SendFails
  <2>1. OutboxType' /\ GoodProducer'
    BY <1>0, <1>8 DEF SendFails, Step, OutboxType, GoodProducer, Recording, Nothing
  <2> QED
    BY <1>8, <2>1, ProducerLooks DEF SendFails
<1> QED
  BY <1>1, <1>2, <1>3, <1>4, <1>5, <1>6, <1>7, <1>8 DEF Produce
\* The queue, the clock and the worker's way to its row.
LEMMA QueueStep ==
  ASSUME OutboxInv, Requeue \/ Tick \/ \E w \in Workers : \/ \E m \in Messages : Deliver(w, m)
                                                       \/ \E r \in Changes : Manual(w, r)
  PROVE  OutboxInv'
<1>0. OutboxType /\ GoodProducer
  BY DEF OutboxInv
<1>1. CASE Requeue
  <2>1. PICK r \in Rows : rows[r].column \in {"PENDING", "RETRY_PENDING"} /\ Sent(r)
    BY <1>1 DEF Requeue
  <2> QED
    BY <1>1, <2>1, MessageSent DEF Requeue
<1>2. CASE Tick
  <2>1. \A r \in Changes : /\ rows'[r] \in RowType
                           /\ \A f \in {"column", "json", "payload"} : rows'[r][f] = rows[r][f]
    BY <1>0, <1>2, RowAges DEF Tick, OutboxType
  <2>2. \A m \in Messages : /\ queue'[m] \in MessageType
                            /\ \A f \in {"row", "state"} : queue'[m][f] = queue[m][f]
    BY <1>0, <1>2, MessageAges DEF Tick, OutboxType
  <2>3. \A m \in Messages : queue[m] = Gone => queue'[m] = Gone
    BY <1>0, <1>2, MessageAges DEF Tick, OutboxType
  <2>4. Rows' = Rows
    BY <2>1 DEF Rows
  <2>5. rows' \in [Changes -> RowType] /\ queue' \in [Messages -> MessageType]
    BY <1>2, <2>1, <2>2 DEF Tick
  <2>6. OutboxType'
    BY <1>0, <1>2, <2>5 DEF Tick, OutboxType, Recording
  <2>7. \A r \in Rows' : GoodRow(r)'
    <3>1. delivered' = delivered /\ contested' = contested
      BY <1>2 DEF Tick
    <3>2. \A r \in Rows : rows'[r].column = rows[r].column /\ rows'[r].payload = rows[r].payload
      BY <2>1 DEF Rows
    <3> QED
      BY <2>4, <3>1, <3>2 DEF OutboxInv, GoodRow
  <2>8. \A m \in Messages : GoodMessage(m)'
    BY <2>2, <2>4 DEF OutboxInv, GoodMessage
  <2>9. \A w \in Workers : Sending(w)'
    <3>1. \A r \in Rows : Known(r, rows'[r].payload)
      BY <2>1 DEF Known, Rows
    <3>2. Steady
      BY <1>2, <2>4, <2>5, <2>7, <3>1 DEF Tick, Steady
    <3>3. worker' = worker /\ delivered' = delivered
      BY <1>2 DEF Tick
    <3> QED
      BY <3>2, <3>3, OthersSend
  <2>10. \A w \in Workers : Holding(w)'
    BY <1>2, <2>2 DEF Tick, OutboxInv, Holding
  <2>11. GoodProducer'
    BY <1>0, <1>2, <2>1, <2>3, <2>4 DEF Tick, GoodProducer
  <2> QED
    BY <2>6, <2>7, <2>8, <2>9, <2>10, <2>11 DEF OutboxInv
<1>3. ASSUME NEW w \in Workers, NEW m \in Messages, Deliver(w, m) PROVE OutboxInv'
  <2> DEFINE x == [Idle EXCEPT !.phase = "read", !.message = m, !.row = queue[m].row]
  <2>1. queue[m] \in MessageType /\ queue[m].row \in Rows /\ queue[m].row \in Nat /\ queue[m].state = "queued"
    BY <1>0, <1>3 DEF OutboxInv, OutboxType, GoodMessage, MessageType, Deliver
  <2>2. x \in WorkerType /\ x.phase = "read" /\ x.row = queue[m].row /\ x.message = m
    BY <2>1, Records0 DEF WorkerType, Phases
  <2>3. /\ worker' \in [Workers -> WorkerType] /\ worker'[w] = x
        /\ \A v \in Workers \ {w} : worker'[v] = worker[v]
    BY <1>0, <1>3, <2>2 DEF Deliver, OutboxType
  <2>4. /\ queue' \in [Messages -> MessageType] /\ queue'[m].state = "held" /\ queue'[m].row = queue[m].row
        /\ \A y \in Messages \ {m} : queue'[y] = queue[y]
    <3>0. queue[m].deliveries + 1 \in Nat
      BY <2>1 DEF MessageType
    <3>1. [queue[m] EXCEPT !.state = "held", !.deliveries = @ + 1] \in MessageType
      BY <2>1, <3>0 DEF MessageType
    <3>2. queue' = [queue EXCEPT ![m] = [queue[m] EXCEPT !.state = "held", !.deliveries = @ + 1]]
      BY <1>0, <1>3, <2>1 DEF Deliver, OutboxType, MessageType
    <3> QED
      BY <1>0, <2>1, <3>1, <3>2 DEF OutboxType, MessageType
  <2>5. Rows' = Rows
    BY <1>3 DEF Deliver, Rows
  <2>6. OutboxType'
    BY <1>0, <1>3, <2>3, <2>4 DEF Deliver, OutboxType, Recording
  <2>7. \A r \in Rows' : GoodRow(r)'
    BY <1>3, <2>5 DEF Deliver, OutboxInv, GoodRow
  <2>8. \A y \in Messages : GoodMessage(y)'
    BY <2>1, <2>4, <2>5 DEF OutboxInv, GoodMessage
  <2>9. \A v \in Workers : Sending(v)'
    <3>1. Sending(w)'
      BY <2>1, <2>2, <2>3, <2>5 DEF Sending
    <3>2. \A v \in Workers \ {w} : Sending(v)'
      BY <1>3, <2>3, <2>5 DEF Deliver, OutboxInv, Sending, Known
    <3> QED
      BY <3>1, <3>2
  <2>10. \A v \in Workers : worker[v].message # m \/ m = NoMessage
    BY <2>1 DEF OutboxInv, Holding
  <2>11. \A v \in Workers : Holding(v)'
    <3>1. Holding(w)'
      BY <2>2, <2>3, <2>4, <2>10 DEF Holding
    <3>2. ASSUME NEW v \in Workers \ {w}, worker[v].message # NoMessage PROVE Holding(v)'
      <4>1. /\ worker[v].message \in Messages /\ queue[worker[v].message].state = "held"
            /\ worker[v].message # m /\ worker'[v] = worker[v]
        BY <2>3, <2>1, <3>2 DEF OutboxInv, Holding
      <4>2. queue'[worker[v].message].state = "held" /\ worker'[w].message = m
        BY <2>2, <2>3, <2>4, <4>1
      <4>3. \A u \in Workers : worker'[u].message = worker[v].message => u = v
        <5>1. \A u \in Workers : worker[u].message = worker[v].message => u = v
          BY <3>2 DEF OutboxInv, Holding
        <5>2. \A u \in Workers \ {w} : worker'[u].message = worker[u].message
          BY <2>3
        <5> QED
          BY <4>1, <4>2, <5>1, <5>2
      <4> QED
        BY <4>1, <4>2, <4>3 DEF Holding
    <3>3. ASSUME NEW v \in Workers \ {w}, worker[v].message = NoMessage PROVE Holding(v)'
      BY <2>3, <3>3 DEF Holding
    <3> QED
      BY <3>1, <3>2, <3>3
  <2>13. GoodProducer'
    BY <1>0, <1>3, <2>5 DEF Deliver, GoodProducer
  <2> QED
    BY <2>6, <2>7, <2>8, <2>9, <2>11, <2>13 DEF OutboxInv
<1>4. ASSUME NEW w \in Workers, NEW r \in Changes, Manual(w, r) PROVE OutboxInv'
  <2> DEFINE x == [Idle EXCEPT !.phase = "load", !.row = r]
  <2>1. r \in Rows /\ r \in Nat /\ r \in Waiting
    BY <1>4, ChangesType DEF Manual, Waiting
  <2>2. x \in WorkerType /\ x.phase = "load" /\ x.row = r /\ x.message = NoMessage
    BY <2>1, Records0 DEF WorkerType, Phases
  <2>3. /\ worker' \in [Workers -> WorkerType] /\ worker'[w] = x /\ worker[w] = Idle
        /\ \A v \in Workers \ {w} : worker'[v] = worker[v]
    BY <1>0, <1>4, <2>2 DEF Manual, OutboxType
  <2>4. Rows' = Rows
    BY <1>4 DEF Manual, Rows
  <2>5. OutboxType'
    BY <1>0, <1>4, <2>3 DEF Manual, OutboxType, Recording
  <2>6. \A y \in Rows' : GoodRow(y)'
    BY <1>4, <2>4 DEF Manual, OutboxInv, GoodRow
  <2>7. \A m \in Messages : GoodMessage(m)'
    BY <1>4, <2>4 DEF Manual, OutboxInv, GoodMessage
  <2>8. \A v \in Workers : Sending(v)'
    <3>1. Sending(w)'
      BY <2>1, <2>2, <2>3, <2>4 DEF Sending
    <3>2. \A v \in Workers \ {w} : Sending(v)'
      BY <1>4, <2>3, <2>4 DEF Manual, OutboxInv, Sending, Known
    <3> QED
      BY <3>1, <3>2
  <2>9. \A v \in Workers : worker'[v].message = worker[v].message
    BY <2>2, <2>3, Records0
  <2>10. \A v \in Workers : Holding(v)'
    <3>1. queue' = queue
      BY <1>4 DEF Manual
    <3> QED
      BY <2>9, <3>1 DEF OutboxInv, Holding
  <2>12. GoodProducer'
    BY <1>0, <1>4, <2>4 DEF Manual, GoodProducer
  <2> QED
    BY <2>5, <2>6, <2>7, <2>8, <2>10, <2>12 DEF OutboxInv
<1> QED
  BY <1>1, <1>2, <1>3, <1>4
\* A worker that has a row.
LEMMA WorkerStep ==
  ASSUME OutboxInv, NEW w \in Workers, Work(w) \/ LoadFails(w) \/ UpdateFails(w) \/ SendsFail(w) \/ Crash(w)
  PROVE  OutboxInv'
<1>0. /\ OutboxType /\ GoodProducer /\ worker \in [Workers -> WorkerType] /\ worker[w] \in WorkerType
      /\ Sending(w) /\ worker[w].tries \in Nat
  BY DEF OutboxInv, OutboxType, WorkerType
<1>1. UNCHANGED <<rows, contested>> /\ delivered \subseteq delivered' => Steady
  BY <1>0 DEF Steady, OutboxInv, OutboxType, GoodRow, Known, Rows
<1>2. UNCHANGED <<rows, contested>> => Rows' = Rows /\ \A r \in Rows : \A x : Known(r, x)' <=> Known(r, x)
  BY <1>0 DEF Rows, Known
\* The next update is due to an attempt, or reports what the provider applied.
<1>3. ASSUME NEW status \in Wants \ {"none"}, NEW n \in Nat, Update(w, status, n),
             worker[w].phase \in {"update", "write", "send", "sleep"},
             status = "PROCESSED" => worker[w].sends \in delivered',
             UNCHANGED <<producer, issued, queue>>, delivered \subseteq delivered', Steady
      PROVE  OutboxInv'
  <2>1. /\ worker' \in [Workers -> WorkerType] /\ worker'[w].phase = "update" /\ worker'[w].want = status
        /\ worker'[w].row = worker[w].row /\ worker'[w].message = worker[w].message
        /\ worker'[w].sends = worker[w].sends /\ \A v \in Workers \ {w} : worker'[v] = worker[v]
    BY <1>0, <1>3, UpdateEdits
  <2>2. /\ worker[w].row \in Rows'
        /\ \/ worker[w].sends = rows'[worker[w].row].payload
           \/ {worker[w].sends, rows'[worker[w].row].payload} \subseteq contested'[worker[w].row]
    BY <1>0, <1>3 DEF Sending, Steady, Known
  <2>3. Known(worker[w].row, worker[w].sends)'
    BY <2>1, <2>2 DEF Known
  <2>4. worker'[w].want # "none" /\ (worker'[w].want = "PROCESSED" => worker'[w].sends \in delivered')
    BY <1>3, <2>1
  <2>5. Sending(w)'
    BY <2>1, <2>2, <2>3, <2>4 DEF Sending
  <2> QED
    BY <1>3, <2>1, <2>5, WorkerGoesOn
<1>4. CASE ClaimDone(w)
  BY <1>1, <1>4, WorkerLetsGo DEF ClaimDone, Release
<1>5. CASE ClaimRead(w)
  <2>1. /\ worker[w].phase = "read" /\ worker' \in [Workers -> WorkerType] /\ worker'[w].phase = "claim"
        /\ worker'[w].row = worker[w].row /\ worker'[w].message = worker[w].message
        /\ \A v \in Workers \ {w} : worker'[v] = worker[v]
    BY <1>0, <1>5, GotoEdits DEF ClaimRead, Phases
  <2>2. Sending(w)'
    BY <1>0, <1>2, <1>5, <2>1 DEF ClaimRead, Sending
  <2> QED
    BY <1>1, <1>2, <1>5, <2>1, <2>2, WorkerGoesOn DEF ClaimRead
<1>6. CASE ClaimBusy(w)
  BY <1>1, <1>6, WorkerLetsGo DEF ClaimBusy, Release
<1>7. CASE Load(w)
  <2>1. worker[w].row \in Rows /\ worker[w].phase = "load" /\ Row(w).payload \in Nat
    BY <1>0, <1>7 DEF Load, Sending, Row, OutboxType, RowType, Rows
  <2>2. [worker[w] EXCEPT !.phase = "update", !.want = "PROCESSING", !.tries = 1,
                          !.sends = Row(w).payload] \in WorkerType
    BY <1>0, <2>1 DEF WorkerType, Phases, Wants
  <2>3. /\ worker' \in [Workers -> WorkerType] /\ worker'[w].phase = "update" /\ worker'[w].want = "PROCESSING"
        /\ worker'[w].row = worker[w].row /\ worker'[w].message = worker[w].message
        /\ worker'[w].sends = Row(w).payload /\ \A v \in Workers \ {w} : worker'[v] = worker[v]
    BY <1>0, <1>7, <2>1, <2>2 DEF Load, WorkerType
  <2>4. Sending(w)'
    BY <1>7, <2>1, <2>3 DEF Load, Sending, Row, Known, Rows
  <2> QED
    BY <1>1, <1>2, <1>7, <2>1, <2>3, <2>4, WorkerGoesOn DEF Load
<1>8. CASE UpdateRead(w)
  <2>1. worker[w].row \in Rows /\ worker[w].phase = "update" /\ Row(w).payload \in Nat
    BY <1>0, <1>8 DEF UpdateRead, Sending, Row, OutboxType, RowType, Rows
  <2>2. [worker[w] EXCEPT !.phase = "write", !.keeps = Row(w).payload] \in WorkerType
    BY <1>0, <2>1 DEF WorkerType, Phases
  <2>3. /\ worker' \in [Workers -> WorkerType] /\ worker'[w].phase = "write" /\ worker'[w].want = worker[w].want
        /\ worker'[w].row = worker[w].row /\ worker'[w].message = worker[w].message
        /\ worker'[w].sends = worker[w].sends /\ worker'[w].keeps = Row(w).payload
        /\ \A v \in Workers \ {w} : worker'[v] = worker[v]
    BY <1>0, <1>8, <2>1, <2>2 DEF UpdateRead, WorkerType
  <2>4. Sending(w)'
    BY <1>0, <1>8, <2>1, <2>3 DEF UpdateRead, Sending, Row, Known, Rows
  <2> QED
    BY <1>1, <1>2, <1>8, <2>1, <2>3, <2>4, WorkerGoesOn DEF UpdateRead
<1>9. CASE Sends(w)
  <2>1. worker[w].phase = "send"
    BY <1>9 DEF Sends
  <2>2. worker[w].sends \in delivered' /\ delivered \subseteq delivered'
    BY <1>9, <2>1 DEF Sends, Apply
  <2> QED
    BY <1>0, <1>1, <1>2, <1>3, <1>9, <2>1, <2>2 DEF Sends, Wants
<1>10. CASE Wake(w)
  BY <1>0, <1>1, <1>2, <1>3, <1>10 DEF Wake, Wants
<1>11. CASE SendsFail(w)
  <2>1. PICK status \in {"RETRY_PENDING", "LAST"}, n \in Nat : Update(w, status, n)
    BY <1>0, <1>11 DEF SendsFail, Failed
  <2> QED
    BY <1>1, <1>2, <1>3, <1>11, <2>1 DEF SendsFail, Apply, Wants
<1>12. CASE Crash(w)
  <2>1. worker[w].phase # "idle"
    BY <1>0, <1>12 DEF Crash, Sending
  <2> QED
    BY <1>1, <1>2, <1>12, <2>1, WorkerLetsGo DEF Crash
<1>13. CASE UpdateFails(w)
  <2>0. worker[w].phase = "write"
    BY <1>13 DEF UpdateFails
  <2>1. CASE worker[w].want = "DEAD_LETTER"
    <3>1. Release(w, worker[w].phase) /\ Redeliver(w, 1)
      BY <1>13, <2>0, <2>1 DEF UpdateFails
    <3> QED
      BY <1>1, <1>2, <1>13, <2>0, <3>1, WorkerLetsGo DEF UpdateFails
  <2>2. CASE worker[w].want # "DEAD_LETTER"
    <3>1. UNCHANGED queue /\ \E status \in {"RETRY_PENDING", "LAST", "DEAD_LETTER"}, n \in Nat : Update(w, status, n)
      BY <1>0, <1>13, <2>2 DEF UpdateFails, Failed
    <3> QED
      BY <1>1, <1>2, <1>3, <1>13, <2>0, <3>1 DEF UpdateFails, Wants
  <2> QED
    BY <2>1, <2>2
<1>14. CASE Claim(w)
  <2>1. worker[w].phase = "claim" /\ worker[w].row \in Rows /\ rows[worker[w].row] \in RowType
    BY <1>0, <1>14 DEF Claim, Goto, Sending, OutboxType, Rows
  <2>2. Goto(w, "claim", "load") /\ rows[worker[w].row].column \notin DONE
    BY <1>14 DEF Claim, Claimable, Row, DONE
  <2> DEFINE x == [rows[worker[w].row] EXCEPT !.column = "CLAIMED", !.lease = Lease]
  <2>3. x \in RowType /\ x.column = "CLAIMED" /\ x.payload = rows[worker[w].row].payload
    BY <2>1 DEF RowType, Columns, Lease
  <2>4. rows' = [rows EXCEPT ![worker[w].row] = x]
    BY <1>0, <1>14, <2>1 DEF Claim, OutboxType, RowType
  <2>5. UNCHANGED <<producer, issued, queue, delivered, contested>>
    BY <1>14 DEF Claim
  <2> QED
    <3>1. Steady /\ Rows' = Rows
      BY <2>1, <2>3, <2>4, <2>5, RowEdited DEF Known, Steady
    <3>2. /\ worker' \in [Workers -> WorkerType] /\ worker'[w].phase = "load"
          /\ worker'[w].row = worker[w].row /\ worker'[w].message = worker[w].message
          /\ \A v \in Workers \ {w} : worker'[v] = worker[v]
      BY <1>0, <2>2, GotoEdits DEF Phases
    <3>3. Sending(w)'
      BY <2>1, <3>1, <3>2 DEF Sending
    <3> QED
      BY <2>1, <2>5, <3>1, <3>2, <3>3, WorkerGoesOn
<1>15. CASE UpdateWrite(w)
  <2> DEFINE r == worker[w].row
  <2>0. /\ worker[w].phase = "write" /\ r \in Rows /\ Known(r, worker[w].keeps) /\ Known(r, worker[w].sends)
        /\ worker[w].want \in Wants \ {"none"} /\ (worker[w].want = "PROCESSED" => worker[w].sends \in delivered)
    BY <1>0, <1>15 DEF UpdateWrite, Sending, WorkerType
  <2>1. rows' = [rows EXCEPT ![r] = Written(w)] /\ UNCHANGED <<producer, issued, delivered, contested>>
    BY <1>15 DEF UpdateWrite
  \* What it sent is what it writes back, or the two are contested.
  <2>10. worker[w].sends = worker[w].keeps \/ worker[w].sends \in contested[r]
    BY <2>0 DEF Known
  <2>11. /\ Written(w) \in RowType /\ Written(w).payload = worker[w].keeps /\ Written(w).column # "none"
         /\ Written(w).column = "SUCCEEDED" => worker[w].want = "PROCESSED"
    BY <1>0, <2>0, WrittenRow
  <2>12. Written(w).column = "SUCCEEDED" =>
           Written(w).payload \in delivered \/ contested[r] \cap delivered # {}
    BY <2>0, <2>10, <2>11
  <2>2. Steady
    BY <2>0, <2>1, <2>11, <2>12, RowEdited
  <2>3. ASSUME NEW to \in {"send", "sleep"}, Goto(w, "write", to), UNCHANGED queue PROVE OutboxInv'
    <3>1. /\ worker' \in [Workers -> WorkerType] /\ worker'[w].phase = to
          /\ worker'[w].row = worker[w].row /\ worker'[w].message = worker[w].message
          /\ worker'[w].sends = worker[w].sends /\ \A v \in Workers \ {w} : worker'[v] = worker[v]
      BY <1>0, <2>3, GotoEdits DEF Phases
    <3>2. /\ r \in Rows'
          /\ \/ worker[w].sends = rows'[r].payload
             \/ {worker[w].sends, rows'[r].payload} \subseteq contested'[r]
      BY <2>0, <2>2 DEF Steady, Known
    <3>3. Sending(w)'
      BY <3>1, <3>2 DEF Sending, Known
    <3> QED
      BY <2>0, <2>1, <2>2, <2>3, <3>1, <3>3, WorkerGoesOn
  <2>4. CASE worker[w].want \in {"PROCESSING", "RETRY_PENDING"}
    BY <1>15, <2>3, <2>4 DEF UpdateWrite
  <2>5. CASE worker[w].want = "LAST"
    <3>1. Update(w, "DEAD_LETTER", 0) /\ UNCHANGED queue
      BY <1>15, <2>5 DEF UpdateWrite
    <3> QED
      BY <1>3, <2>0, <2>1, <2>2, <3>1 DEF Wants
  <2>6. CASE worker[w].want \in {"PROCESSED", "DEAD_LETTER"}
    <3>1. Release(w, worker[w].phase) /\ Ack(w)
      BY <1>15, <2>0, <2>6 DEF UpdateWrite
    <3> QED
      BY <2>0, <2>1, <2>2, <3>1, WorkerLetsGo
  <2> QED
    BY <2>0, <2>4, <2>5, <2>6 DEF Wants
<1>16. CASE LoadFails(w)
  BY <1>1, <1>16, WorkerLetsGo DEF LoadFails, Release
<1> QED
  BY <1>4, <1>5, <1>6, <1>7, <1>8, <1>9, <1>10, <1>11, <1>12, <1>13, <1>14, <1>15, <1>16 DEF Work
-----------------------------------------------------------------------------
LEMMA OutboxInit == Init => OutboxInv
<1> SUFFICES ASSUME Init PROVE OutboxInv OBVIOUS
<1>1. Rows = {}
  BY DEF Init, Rows, NoRow
<1>2. OutboxType
  BY Records0, ChangesType DEF Init, OutboxType, Recording, AtRest, Nothing
<1>3. \A m \in Messages : GoodMessage(m)
  BY Records0 DEF Init, GoodMessage
<1>4. \A w \in Workers : Sending(w) /\ Holding(w)
  BY Records0 DEF Init, Sending, Holding
<1>5. GoodProducer
  BY DEF Init, GoodProducer, Recording, AtRest
<1> QED
  BY <1>1, <1>2, <1>3, <1>4, <1>5 DEF OutboxInv

LEMMA OutboxNext == OutboxInv /\ [Next]_vars => OutboxInv'
<1> SUFFICES ASSUME OutboxInv, [Next]_vars PROVE OutboxInv' OBVIOUS
<1>1. CASE UNCHANGED vars
  <2>1. Rows' = Rows
    BY <1>1 DEF vars, Rows
  <2> QED
    BY <1>1, <2>1 DEF vars, OutboxInv, OutboxType, Recording, GoodRow, Known, GoodMessage, Sending, Holding, GoodProducer
<1> QED
  BY <1>1, ProducerStep, QueueStep, WorkerStep DEF Next

\* updateOutbox writes PROCESSED only over a payload that dispatchOutbound has handed to
\* the provider, or over one that was replaced, or took another's place, while a worker
\* had the row loaded, and then one of those was handed over: with any number of
\* changes, coalesced or not, of workers, redeliveries, manual runs and faults.
THEOREM SentBeforeSucceeded == Spec => []SucceededIsDelivered
<1>1. OutboxInv => SucceededIsDelivered
  BY DEF OutboxInv, GoodRow, SucceededIsDelivered
<1> QED
  BY <1>1, OutboxInit, OutboxNext, PTL DEF Spec
=============================================================================
