----------------------------- MODULE WorkerJobs -----------------------------
(***************************************************************************)
(* One durable job: its row of worker_jobs, the queue messages that name    *)
(* it, the workers that claim, execute and settle it (workers.ts), and the  *)
(* cron that sends messages for due rows again.  Time passes in ticks of    *)
(* thirty seconds, the delay of a message whose claim failed; a lease lasts *)
(* four of them.  A worker may stop, or go on after its lease has expired.  *)
(***************************************************************************)
EXTENDS Integers, FiniteSets

CONSTANTS Workers,        \* queue consumers
          Messages,       \* bound: messages for the job in the queue at a time
          MaxAttempts,    \* worker_jobs.max_attempts
          EmailJob,       \* DAILY_CLOSING_EMAIL or CUSTOMER_DOCUMENT_EMAIL
          MaxCrashes,     \* bound: isolates that stop
          MaxErrors       \* bound: database errors around the execution

ASSUME JobsAssumption ==
  /\ MaxAttempts \in Nat \ {0} /\ MaxCrashes \in Nat /\ MaxErrors \in Nat
  /\ EmailJob \in BOOLEAN

Lease         == 4        \* 120 s in ticks of 30 s
MaxDeliveries == 6        \* max_retries 5 of the queue consumer
NoMessage     == "none"

\* retryDelay, in ticks: the seconds rounded down or, late in a tick, up.
RetryDelay(n) ==
  LET power   == 2 ^ (IF n < 9 THEN n ELSE 9)
      seconds == IF power < 5 THEN 5 ELSE power
  IN  {seconds \div 30, seconds \div 30 + 1}

VARIABLES
  status,      \* of the row
  attempts,    \* attempt_count
  lease,       \* ticks until lease_expires_at; 0: none or expired
  due,         \* ticks until scheduled_at
  queue,       \* [state, deliveries, delay] of each message
  phase,       \* what each worker is doing
  holds,       \* the message it was given
  left,        \* what is left of the lease it took
  retry,       \* what recordWorkerFailure decided
  delays,      \* the retry delay it computed from the attempts it read
  crashes, errors,
  outlived     \* history: an execution has taken longer than its lease

row  == <<status, attempts, lease, due>>
decision == <<retry, delays>>
faults == <<crashes, errors, outlived>>
jobVars == <<row, queue, phase, holds, left, decision, faults>>

Gone == [state |-> "gone", deliveries |-> 0, delay |-> 0]
Terminal == {"SUCCEEDED", "DEAD_LETTER"}

\* The row is inserted and its first message sent by the caller or the cron.
JobInit ==
  /\ status = "PENDING" /\ attempts = 0 /\ lease = 0 /\ due = 0
  /\ \E m \in Messages :
       queue = [x \in Messages |->
                  IF x = m THEN [state |-> "queued", deliveries |-> 0, delay |-> 0] ELSE Gone]
  /\ phase = [w \in Workers |-> "idle"]
  /\ holds = [w \in Workers |-> NoMessage]
  /\ left = [w \in Workers |-> 0]
  /\ retry = [w \in Workers |-> FALSE]
  /\ delays = [w \in Workers |-> 0]
  /\ crashes = 0 /\ errors = 0 /\ outlived = FALSE

-----------------------------------------------------------------------------
\* The message goes back for another delivery, or to the dead-letter queue.
Redeliver(m, delay) ==
  queue' = [queue EXCEPT ![m] = IF @.deliveries < MaxDeliveries
                                THEN [@ EXCEPT !.state = "queued", !.delay = delay]
                                ELSE Gone]
Ack(m) == queue' = [queue EXCEPT ![m] = Gone]
Goto(w, from, to) == /\ phase[w] = from
                     /\ phase' = [phase EXCEPT ![w] = to]
Release(w, from) ==
  /\ Goto(w, from, "idle")
  /\ holds' = [holds EXCEPT ![w] = NoMessage]
  /\ left' = [left EXCEPT ![w] = 0]
  /\ retry' = [retry EXCEPT ![w] = FALSE]
  /\ delays' = [delays EXCEPT ![w] = 0]

Deliver(w, m) ==
  /\ Goto(w, "idle", "read") /\ queue[m].state = "queued" /\ queue[m].delay = 0
  /\ queue' = [queue EXCEPT ![m].state = "held", ![m].deliveries = @ + 1]
  /\ holds' = [holds EXCEPT ![w] = m]
  /\ UNCHANGED <<row, left, decision, faults>>

\* claimWorkerJob reads the status first: a settled row is acknowledged.
ClaimDone(w) ==
  /\ Release(w, "read") /\ status \in Terminal
  /\ Ack(holds[w])
  /\ UNCHANGED <<row, faults>>

ClaimRead(w) ==
  /\ Goto(w, "read", "claim") /\ status \notin Terminal
  /\ UNCHANGED <<row, queue, holds, left, decision, faults>>

\* Mutant: the claim does not look at the lease.
ClaimableLeased == status \in {"PENDING", "RETRY_PENDING", "CLAIMED", "RUNNING"} /\ due = 0

\* Mutant: the claim trusts the status that was read before it.
ClaimableStatusRead == due = 0 /\ lease = 0

\* The condition of the claiming UPDATE, evaluated again on the row.
Claimable == /\ status \in {"PENDING", "RETRY_PENDING", "CLAIMED", "RUNNING"}
             /\ due = 0 /\ lease = 0

Claim(w) ==
  /\ Goto(w, "claim", "run") /\ Claimable
  /\ status' = "RUNNING"
  /\ attempts' = attempts + 1
  /\ lease' = Lease
  /\ left' = [left EXCEPT ![w] = Lease]
  /\ UNCHANGED <<due, queue, holds, decision, faults>>

\* Somebody else has it, or it is not due: thirty seconds later.
ClaimBusy(w) ==
  /\ Release(w, "claim") /\ ~Claimable
  /\ Redeliver(holds[w], 1)
  /\ UNCHANGED <<row, faults>>

\* executeWorkerJob returns or throws.
Execute(w) ==
  /\ \E p \in {"complete", "failed"} : Goto(w, "run", p)
  /\ UNCHANGED <<row, queue, holds, left, decision, faults>>

\* completeWorkerJob: only a RUNNING row becomes SUCCEEDED; then acknowledge.
Complete(w) ==
  /\ Release(w, "complete")
  /\ IF status = "RUNNING" THEN status' = "SUCCEEDED" /\ lease' = 0
                           ELSE UNCHANGED <<status, lease>>
  /\ Ack(holds[w])
  /\ UNCHANGED <<attempts, due, faults>>

\* A query of the claim or of completeWorkerJob throws: a failure is recorded,
\* of a job this worker never had or of one whose work is done.
QueryFails(w) ==
  /\ \E p \in {"read", "claim", "complete"} : Goto(w, p, "failed")
  /\ errors < MaxErrors
  /\ errors' = errors + 1
  /\ UNCHANGED <<row, queue, holds, left, decision, crashes, outlived>>

\* recordWorkerFailure reads the attempts and decides; an error that is marked
\* permanent is never retried.
FailureRead(w) ==
  /\ Goto(w, "failed", "record")
  /\ \E permanent \in BOOLEAN :
       retry' = [retry EXCEPT ![w] = attempts < MaxAttempts /\ ~permanent]
  /\ \E d \in RetryDelay(attempts) : delays' = [delays EXCEPT ![w] = d]
  /\ UNCHANGED <<row, queue, holds, left, faults>>

\* Mutant: the attempts start again with every failure.
FailureWriteForever(w) ==
  /\ Release(w, "record")
  /\ status' = "RETRY_PENDING" /\ lease' = 0 /\ due' = delays[w] /\ attempts' = 0
  /\ \E d \in RetryDelay(queue[holds[w]].deliveries) : Redeliver(holds[w], d)
  /\ UNCHANGED faults

\* ... and writes, whatever the row says by then.
FailureWrite(w) ==
  /\ Release(w, "record")
  /\ status' = IF retry[w] THEN "RETRY_PENDING" ELSE "DEAD_LETTER"
  /\ lease' = 0
  /\ due' = delays[w]
  /\ IF retry[w] THEN \E d \in RetryDelay(queue[holds[w]].deliveries) : Redeliver(holds[w], d)
                 ELSE Ack(holds[w])
  /\ UNCHANGED <<attempts, faults>>

\* The isolate stops; the queue delivers the message again.
Crash(w) ==
  /\ phase[w] # "idle" /\ Release(w, phase[w]) /\ crashes < MaxCrashes
  /\ crashes' = crashes + 1
  /\ Redeliver(holds[w], 0)
  /\ UNCHANGED <<row, errors, outlived>>

\* scheduleDurableWork, each minute.
Resendable == \/ status \in {"PENDING", "RETRY_PENDING"} /\ due = 0
              \/ EmailJob /\ status = "RUNNING" /\ lease = 0
Cron ==
  /\ Resendable
  /\ \E m \in Messages :
       /\ queue[m] = Gone
       /\ queue' = [queue EXCEPT ![m] = [state |-> "queued", deliveries |-> 0, delay |-> 0]]
  /\ UNCHANGED <<row, phase, holds, left, decision, faults>>

\* The workers that have the job, as far as they know.
Executing == {w \in Workers : phase[w] \in {"run", "complete", "failed", "record"}}

Less(n) == IF n > 0 THEN n - 1 ELSE 0

Tick ==
  /\ \/ lease > 0 \/ due > 0
     \/ \E m \in Messages : queue[m].delay > 0
     \/ \E w \in Workers : left[w] > 0
  /\ outlived' = (outlived \/ \E w \in Executing : left[w] <= 1)
  /\ lease' = Less(lease) /\ due' = Less(due)
  /\ queue' = [m \in Messages |-> [queue[m] EXCEPT !.delay = Less(@)]]
  /\ left' = [w \in Workers |-> Less(left[w])]
  /\ UNCHANGED <<status, attempts, phase, holds, decision, crashes, errors>>

Work(w) == ClaimDone(w) \/ ClaimRead(w) \/ Claim(w) \/ ClaimBusy(w) \/ Execute(w)
           \/ Complete(w) \/ FailureRead(w) \/ FailureWrite(w)

JobNext ==
  \/ Cron \/ Tick
  \/ \E w \in Workers : \/ \E m \in Messages : Deliver(w, m)
                        \/ Work(w) \/ QueryFails(w) \/ Crash(w)

\* Workers go on, the queue delivers, the cron runs every minute, time passes.
Fairness ==
  /\ WF_jobVars(Tick) /\ WF_jobVars(Cron)
  /\ \A w \in Workers : WF_jobVars(Work(w))
  /\ WF_jobVars(\E w \in Workers, m \in Messages : Deliver(w, m))

JobSpec     == JobInit /\ [][JobNext]_jobVars
FairJobSpec == JobSpec /\ Fairness

-----------------------------------------------------------------------------
\* Every lease has been long enough and every query of the claim answered.
Undisturbed == ~outlived /\ errors = 0

\* As long as that is so, no two workers have the job at once, each inside the
\* lease it took, whatever stops and however often a message is delivered ...
LeaseIsExclusive ==
  Undisturbed => \A v, w \in Executing : (left[v] > 0 /\ left[w] > 0) => v = w

\* ... and a job that succeeded is not opened again.
SucceededIsFinal == [][(status = "SUCCEEDED" /\ Undisturbed) => status' = "SUCCEEDED"]_jobVars

\* However often it fails and whoever stops, the job is eventually settled for
\* good: it succeeds or is dead-lettered.
JobSettles == <>[](status \in Terminal)
=============================================================================
