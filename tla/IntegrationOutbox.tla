-------------------------- MODULE IntegrationOutbox --------------------------
(***************************************************************************)
(* The integration outbox for one resource of one provider connection: the  *)
(* changes of the resource (an item sold out, restocked, ...), the rows of  *)
(* integration_outbox they create or replace, the queue messages that name  *)
(* a row, and the workers that claim a row, send it to the provider and     *)
(* record the outcome.                                                      *)
(*                                                                          *)
(* A row keeps its status twice: the column, which the claim of workers.ts  *)
(* reads and writes, and the JSON record, which the runtime reads and       *)
(* writes.  updateOutbox reads the record and writes all of it back.  Time  *)
(* passes in ticks of thirty seconds; the lease of a claim lasts two.       *)
(***************************************************************************)
EXTENDS Integers, FiniteSets

CONSTANTS Changes,       \* 1..n, in the order they happen
          Alternatives,  \* change c sets the resource to c % Alternatives
          Coalesced,     \* TRUE: enqueueCoalesced, FALSE: enqueue
          Workers,       \* what works on rows: queue consumers, and those of ...
          Requests,      \* ... the requests of processDueOutbox
          Messages,      \* bound: messages in the queue at a time
          MaxManual,     \* bound: rows taken by processDueOutbox
          MaxFaults      \* bound: failed sends and queries, stopped isolates

ASSUME OutboxAssumption ==
  /\ IsFiniteSet(Changes) /\ Changes = 1..Cardinality(Changes) /\ Alternatives \in Nat \ {0}
  /\ Coalesced \in BOOLEAN
  /\ MaxManual \in Nat /\ MaxFaults \in Nat

Lease         == 2        \* 60 s in ticks of 30 s
MaxTries      == 4        \* defaultRetryPolicy.maxAttempts
MaxDeliveries == 6        \* max_retries 5 of the queue consumer
Nothing       == 0        \* no change, no row
NoMessage     == "none"

VARIABLES
  rows,       \* integration_outbox; a row is named after the change that made it
  producer,   \* the request that records the current change
  issued,     \* changes so far
  queue,      \* [row, state, deliveries, delay] of each message
  worker,     \* what each worker is doing
  provider,   \* the change the provider applied last
  delivered,  \* the changes it ever applied
  contested,  \* per row, the changes that replaced one another while a worker had it loaded
  manual, faults

vars == <<rows, producer, issued, queue, worker, provider, delivered, contested, manual, faults>>

\* What the idempotency key of a change is made of.
Value(c) == c % Alternatives

NoRow   == [column |-> "none", json |-> "none", payload |-> Nothing, lease |-> 0, due |-> 0]
NewRow(c) == [NoRow EXCEPT !.column = "PENDING", !.json = "PENDING", !.payload = c]
Gone    == [row |-> Nothing, state |-> "gone", deliveries |-> 0, delay |-> 0]
Idle    == [phase |-> "idle", row |-> Nothing, message |-> NoMessage, sends |-> Nothing,
            keeps |-> Nothing, tries |-> 0, want |-> "none"]
AtRest  == [phase |-> "idle", row |-> Nothing]
Rows    == {r \in Changes : rows[r].column # "none"}

Init ==
  /\ rows = [c \in Changes |-> NoRow]
  /\ producer = AtRest
  /\ issued = 0
  /\ queue = [m \in Messages |-> Gone]
  /\ worker = [w \in Workers |-> Idle]
  /\ provider = Nothing
  /\ delivered = {}
  /\ contested = [c \in Changes |-> {}]
  /\ manual = 0 /\ faults = 0

Fault == faults < MaxFaults /\ faults' = faults + 1
-----------------------------------------------------------------------------
(* The producer: enqueueOutbound, enqueueCoalesced and enqueue.               *)

DONE == {"SUCCEEDED", "DEAD_LETTER"}

Step(from, to, row) == /\ producer.phase = from
                       /\ producer' = [phase |-> to, row |-> row]

Change ==
  /\ Step("idle", IF Coalesced THEN "coalesce" ELSE "enqueue", Nothing)
  /\ issued < Cardinality(Changes) /\ issued' = issued + 1
  /\ UNCHANGED <<rows, queue, worker, provider, delivered, contested, manual, faults>>

\* coalesceOutbox looks for a record whose JSON status says it is waiting.
Waiting == {r \in Rows : rows[r].json \in {"PENDING", "RETRY_PENDING"}}

CoalesceFind ==
  /\ \/ \E r \in Waiting : Step("coalesce", "replace", r)
     \/ Waiting = {} /\ Step("coalesce", "enqueue", Nothing)
  /\ UNCHANGED <<rows, issued, queue, worker, provider, delivered, contested, manual, faults>>

\* A worker has read the record of the row and may send or write back what it read.
Loaded(w, r) == worker[w].row = r /\ worker[w].phase \in {"update", "write", "send", "sleep"}

\* ... and writes the new payload over it, status, lease and all.
Replace ==
  LET r == producer.row IN
  /\ Step("replace", "send", r)
  /\ rows' = [rows EXCEPT ![r] = NewRow(issued)]
  /\ contested' = IF \E w \in Workers : Loaded(w, r)
                  THEN [contested EXCEPT ![r] = @ \cup {rows[r].payload, issued}] ELSE contested
  /\ UNCHANGED <<issued, queue, worker, provider, delivered, manual, faults>>

\* enqueueOutbox: the records with the same idempotency key, whatever became of them.
SameCommand == {r \in Rows : Value(rows[r].payload) = Value(issued)}

EnqueueFind ==
  /\ \/ SameCommand # {} /\ Step("enqueue", "idle", Nothing)
     \/ SameCommand = {} /\ Step("enqueue", "insert", Nothing)
  /\ UNCHANGED <<rows, issued, queue, worker, provider, delivered, contested, manual, faults>>

\* UNIQUE (tenant_id, idempotency_key): the column keeps the key of the change the
\* row was made for, also when the record was replaced.
KeyTaken == \E r \in Rows : Value(r) = Value(issued)

Insert ==
  /\ ~KeyTaken /\ Step("insert", "send", issued)
  /\ rows' = [rows EXCEPT ![issued] = NewRow(issued)]
  /\ UNCHANGED <<issued, queue, worker, provider, delivered, contested, manual, faults>>

InsertRefused ==
  /\ KeyTaken /\ Step("insert", "idle", Nothing)
  /\ UNCHANGED <<rows, issued, queue, worker, provider, delivered, contested, manual, faults>>

Sent(r) == \E m \in Messages :
  /\ queue[m] = Gone
  /\ queue' = [queue EXCEPT ![m] = [Gone EXCEPT !.row = r, !.state = "queued"]]

Send ==
  /\ Step("send", "idle", Nothing)
  /\ Sent(producer.row)
  /\ UNCHANGED <<rows, issued, worker, provider, delivered, contested, manual, faults>>

\* The request stops after the row was written.
SendFails ==
  /\ Step("send", "idle", Nothing) /\ Fault
  /\ UNCHANGED <<rows, issued, queue, worker, provider, delivered, contested, manual>>

\* Mutant: only the rows that failed once are looked for.
RequeueRetries ==
  /\ \E r \in Rows : rows[r].column = "RETRY_PENDING" /\ rows[r].due = 0 /\ Sent(r)
  /\ UNCHANGED <<rows, producer, issued, worker, provider, delivered, contested, manual, faults>>

\* requeueDueOutbox, a job of every minute, goes by the column.
Requeue ==
  /\ \E r \in Rows : /\ rows[r].column \in {"PENDING", "RETRY_PENDING"} /\ rows[r].due = 0
                     /\ Sent(r)
  /\ UNCHANGED <<rows, producer, issued, worker, provider, delivered, contested, manual, faults>>

-----------------------------------------------------------------------------
(* The worker: processMessage, claimOutbox and processOutboxRecord.           *)

Goto(w, from, to) == worker[w].phase = from /\ worker' = [worker EXCEPT ![w].phase = to]
Row(w) == rows[worker[w].row]

Ack(w) == queue' = IF worker[w].message = NoMessage THEN queue
                   ELSE [queue EXCEPT ![worker[w].message] = Gone]
Redeliver(w, delay) ==
  queue' = IF worker[w].message = NoMessage THEN queue
           ELSE [queue EXCEPT ![worker[w].message] =
                   IF @.deliveries < MaxDeliveries
                   THEN [@ EXCEPT !.state = "queued", !.delay = delay] ELSE Gone]
Release(w, from) == worker[w].phase = from /\ worker' = [worker EXCEPT ![w] = Idle]

Deliver(w, m) ==
  /\ w \notin Requests /\ worker[w] = Idle /\ queue[m].state = "queued" /\ queue[m].delay = 0
  /\ queue' = [queue EXCEPT ![m].state = "held", ![m].deliveries = @ + 1]
  /\ worker' = [worker EXCEPT ![w] = [Idle EXCEPT !.phase = "read", !.message = m,
                                                  !.row = queue[m].row]]
  /\ UNCHANGED <<rows, producer, issued, provider, delivered, contested, manual, faults>>

ClaimDone(w) ==
  /\ Release(w, "read") /\ Row(w).column \in DONE
  /\ Ack(w)
  /\ UNCHANGED <<rows, producer, issued, provider, delivered, contested, manual, faults>>

ClaimRead(w) ==
  /\ Goto(w, "read", "claim") /\ Row(w).column \notin DONE
  /\ UNCHANGED <<rows, producer, issued, queue, provider, delivered, contested, manual, faults>>

\* The condition of the claiming UPDATE.
Claimable(w) == /\ Row(w).column \in {"PENDING", "RETRY_PENDING", "CLAIMED"}
                /\ Row(w).due = 0 /\ Row(w).lease = 0

\* The column says CLAIMED; the JSON record is not touched.
Claim(w) ==
  /\ Goto(w, "claim", "load") /\ Claimable(w)
  /\ rows' = [rows EXCEPT ![worker[w].row].column = "CLAIMED", ![worker[w].row].lease = Lease]
  /\ UNCHANGED <<producer, issued, queue, provider, delivered, contested, manual, faults>>

ClaimBusy(w) ==
  /\ Release(w, "claim") /\ ~Claimable(w)
  /\ Redeliver(w, 1)
  /\ UNCHANGED <<rows, producer, issued, provider, delivered, contested, manual, faults>>

\* processDueOutbox takes what the JSON records say is due, without a claim.
Manual(w, r) ==
  /\ w \in Requests /\ worker[w] = Idle /\ r \in Waiting /\ rows[r].due = 0 /\ manual < MaxManual
  /\ manual' = manual + 1
  /\ worker' = [worker EXCEPT ![w] = [Idle EXCEPT !.phase = "load", !.row = r]]
  /\ UNCHANGED <<rows, producer, issued, queue, provider, delivered, contested, faults>>

\* updateOutbox(status) is the next thing w does; tries: attempts of this execution.
Update(w, status, tries) ==
  worker' = [worker EXCEPT ![w].phase = "update", ![w].want = status, ![w].tries = tries]

\* getOutbox: the record that will be sent; then the connection, the adapter, the
\* credentials and the mappings are read.
Load(w) ==
  /\ worker[w].phase = "load"
  /\ worker' = [worker EXCEPT ![w].phase = "update", ![w].want = "PROCESSING",
                              ![w].tries = 1, ![w].sends = Row(w).payload]
  /\ UNCHANGED <<rows, producer, issued, queue, provider, delivered, contested, manual, faults>>

\* One of these throws, and may do so again and again: the message is delivered again
\* (recordWorkerFailure), or the request of a manual run fails.  The row stays as it is.
LoadFails(w) ==
  /\ Release(w, "load") /\ Redeliver(w, 1)
  /\ UNCHANGED <<rows, producer, issued, provider, delivered, contested, manual, faults>>

UpdateRead(w) ==
  /\ worker[w].phase = "update"
  /\ worker' = [worker EXCEPT ![w].phase = "write", ![w].keeps = Row(w).payload]
  /\ UNCHANGED <<rows, producer, issued, queue, provider, delivered, contested, manual, faults>>

\* databaseOutboxStatus
Column(status) == CASE status = "PROCESSING" -> "CLAIMED"
                    [] status = "PROCESSED"  -> "SUCCEEDED"
                    [] OTHER                 -> status

\* writeOutbox: the whole record as it was read, with its new status; no lease.
\* "LAST" is the PROCESSING that precedes the dead letter.
Written(w) ==
  LET status == IF worker[w].want = "LAST" THEN "PROCESSING" ELSE worker[w].want
  IN  [column |-> Column(status), json |-> status, payload |-> worker[w].keeps,
       lease |-> 0, due |-> IF status = "RETRY_PENDING" THEN 1 ELSE 0]

UpdateWrite(w) ==
  LET want == worker[w].want IN
  /\ worker[w].phase = "write"
  /\ rows' = [rows EXCEPT ![worker[w].row] = Written(w)]
  /\ CASE want = "PROCESSING"    -> Goto(w, "write", "send") /\ UNCHANGED queue
       [] want = "RETRY_PENDING" -> Goto(w, "write", "sleep") /\ UNCHANGED queue
       [] want = "LAST"          -> Update(w, "DEAD_LETTER", 0) /\ UNCHANGED queue
       [] OTHER                  -> Release(w, "write") /\ Ack(w)
  /\ UNCHANGED <<producer, issued, provider, delivered, contested, manual, faults>>

\* RetryService: wait and try again, or give up.
Failed(w) == IF worker[w].tries < MaxTries
             THEN \E status \in {"RETRY_PENDING", "LAST"} : Update(w, status, worker[w].tries)
             ELSE Update(w, "LAST", 0)

\* A query of updateOutbox throws: the attempt failed, or, outside an attempt, the
\* row is dead-lettered, or the dead letter fails and the message is retried.
UpdateFails(w) ==
  /\ worker[w].phase = "write" /\ Fault
  /\ CASE worker[w].want = "PROCESSING"  -> Failed(w) /\ UNCHANGED queue
       [] worker[w].want = "DEAD_LETTER" -> Release(w, "write") /\ Redeliver(w, 1)
       [] OTHER                          -> Update(w, "DEAD_LETTER", 0) /\ UNCHANGED queue
  /\ UNCHANGED <<rows, producer, issued, provider, delivered, contested, manual>>

Apply(c) == provider' = c /\ delivered' = delivered \cup {c}

\* The provider answers.
Sends(w) ==
  /\ worker[w].phase = "send"
  /\ Apply(worker[w].sends)
  /\ Update(w, "PROCESSED", worker[w].tries)
  /\ UNCHANGED <<rows, producer, issued, queue, contested, manual, faults>>

\* Mutant: a provider error is taken for an answer.
SendsFailUnnoticed(w) ==
  /\ worker[w].phase = "send" /\ Fault
  /\ Update(w, "PROCESSED", worker[w].tries)
  /\ UNCHANGED <<rows, producer, issued, queue, provider, delivered, contested, manual>>

\* An error, a timeout or an open circuit, with or without an effect.
SendsFail(w) ==
  /\ worker[w].phase = "send" /\ Fault
  /\ Apply(worker[w].sends) \/ UNCHANGED <<provider, delivered>>
  /\ Failed(w)
  /\ UNCHANGED <<rows, producer, issued, queue, contested, manual>>

\* The delay of RetryService is over.
Wake(w) ==
  /\ worker[w].phase = "sleep"
  /\ Update(w, "PROCESSING", worker[w].tries + 1)
  /\ UNCHANGED <<rows, producer, issued, queue, provider, delivered, contested, manual, faults>>

\* The isolate stops.
Crash(w) ==
  /\ worker[w] # Idle /\ Release(w, worker[w].phase) /\ Fault
  /\ Redeliver(w, 0)
  /\ UNCHANGED <<rows, producer, issued, provider, delivered, contested, manual>>

Less(n) == IF n > 0 THEN n - 1 ELSE 0

Tick ==
  /\ \/ \E r \in Rows : rows[r].lease > 0 \/ rows[r].due > 0
     \/ \E m \in Messages : queue[m].delay > 0
  /\ rows' = [r \in Changes |-> [rows[r] EXCEPT !.lease = Less(@), !.due = Less(@)]]
  /\ queue' = [m \in Messages |-> [queue[m] EXCEPT !.delay = Less(@)]]
  /\ UNCHANGED <<producer, issued, worker, provider, delivered, contested, manual, faults>>

Produce == CoalesceFind \/ Replace \/ EnqueueFind \/ Insert \/ InsertRefused \/ Send
Work(w) == ClaimDone(w) \/ ClaimRead(w) \/ Claim(w) \/ ClaimBusy(w) \/ Load(w)
           \/ UpdateRead(w) \/ UpdateWrite(w) \/ Sends(w) \/ Wake(w)

Next ==
  \/ Change \/ Produce \/ SendFails \/ Requeue \/ Tick
  \/ \E w \in Workers : \/ \E m \in Messages : Deliver(w, m)
                        \/ \E r \in Changes : Manual(w, r)
                        \/ Work(w) \/ LoadFails(w) \/ UpdateFails(w) \/ SendsFail(w) \/ Crash(w)

\* Requests and workers go on, the queue delivers, the recovery job runs every
\* minute, time passes.  Changes, faults and manual runs need not happen.
Fairness ==
  /\ WF_vars(Produce) /\ WF_vars(Tick)
  /\ \A w \in Workers : WF_vars(Work(w))
  /\ WF_vars(\E w \in Workers, m \in Messages : Deliver(w, m))
  /\ WF_vars(Requeue)

Spec     == Init /\ [][Next]_vars
FairSpec == Spec /\ Fairness

-----------------------------------------------------------------------------
\* A row that says SUCCEEDED holds a payload the provider has applied; or the row was
\* replaced while a worker had it loaded, and one of the payloads involved was applied.
SucceededIsDelivered ==
  \A r \in Rows : rows[r].column = "SUCCEEDED" =>
    rows[r].payload \in delivered \/ contested[r] \cap delivered # {}

\* Nobody will look at the row again: it says CLAIMED, which requeueDueOutbox passes
\* over, and the messages that named it are used up.
Abandoned(r) ==
  /\ rows[r].column = "CLAIMED"
  /\ \A w \in Workers : worker[w].row # r
  /\ \A m \in Messages : queue[m].row # r

\* In the end every row that was written is settled for good: sent, dead-lettered, or
\* abandoned as CLAIMED.
OutboxSettles == <>[](\A r \in Rows : rows[r].column \in DONE \/ Abandoned(r))

Quiet == /\ producer = AtRest
         /\ \A w \in Workers : worker[w] = Idle
         /\ \A m \in Messages : queue[m] = Gone

\* The documents: rapid changes resolve to the latest value.  When everything that was
\* recorded has been sent, the provider shows the latest value of the resource.
LatestWins ==
  (Quiet /\ issued > 0 /\ \A r \in Rows : rows[r].column = "SUCCEEDED") =>
    provider # Nothing /\ Value(provider) = Value(issued)
=============================================================================
