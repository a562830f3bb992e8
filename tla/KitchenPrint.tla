---------------------------- MODULE KitchenPrint ----------------------------
(***************************************************************************)
(* From a kitchen ticket to paper.  The server keeps one obligation for a   *)
(* ticket, which a device claims with a fresh token; the print gateway      *)
(* grants a signed delivery for the claim; the bridge on the branch's PC    *)
(* keeps a durable job, reserves the delivery with the server before it     *)
(* talks to a printer, and answers the device, which settles the claim.     *)
(* Devices close at any time, answers are lost, signed deliveries expire,   *)
(* the bridge crashes and its ledger may be lost; a manager reviews what is *)
(* uncertain.  A command of the server is one step (see AuthoritativeStore).*)
(* Tickets have one copy.                                                   *)
(***************************************************************************)
EXTENDS Integers, FiniteSets, Sequences, Functions

CONSTANTS Tickets,      \* ids of obligations
          Printers,     \* the branch's
          Tcp,          \* those reached over TCP; the others are Windows queues
          PrinterOf,    \* of the ticket's station
          FallbackOf,   \* its fallback, as a set of at most one
          Kds,          \* tickets whose station may be on the kitchen display
          Concurrency,  \* of the runner
          MaxClaims,    \* bound: claims
          MaxRetries,   \* bound: retries a manager decides on for a ticket
          MaxFaults     \* bound: crashes of the bridge and lost ledgers

ASSUME KitchenPrintAssumption ==
  /\ Tcp \subseteq Printers /\ Kds \subseteq Tickets
  /\ PrinterOf \in [Tickets -> Printers] /\ FallbackOf \in [Tickets -> SUBSET Printers]
  /\ Concurrency \in 1..4 /\ MaxClaims \in Nat
  /\ MaxRetries \in Nat /\ MaxFaults \in Nat

Tokens == 1..MaxClaims
Slots  == 0..2
None   == [attempt |-> -1, recovery |-> 0]

VARIABLES
  ticket,  \* the KitchenPrintObligation, with what was decided about it
  client,  \* what the device that has a token is doing, for which ticket
  grant,   \* PRINT_DELIVERY_AUTHORIZED, by token
  slots,   \* PRINT_DELIVERY_RESERVED: the attempts used up
  job,     \* the bridge's ledger
  rows,    \* the tickets of the ledger, oldest first
  task,    \* the runner's tasks: what is done for a ticket
  up,      \* the bridge runs
  paper,   \* how often the ticket may have come out of a printer
  faults   \* bound

server == <<ticket, grant, slots>>
bridge == <<job, rows, task, up>>
vars   == <<ticket, client, grant, slots, job, rows, task, up, paper, faults>>

Absent == [status |-> "absent", token |-> 0, reviewed |-> FALSE,
           retries |-> 0, confirmed |-> FALSE, parent |-> {}]
NoJob  == [stage |-> "none", recovery |-> 0, auth |-> 0, used |-> {}, queued |-> 0]

Init ==
  /\ ticket = [o \in Tickets |-> Absent]
  /\ client = [t \in Tokens |-> [ticket |-> {}, at |-> "none", shown |-> FALSE]]
  /\ grant  = [t \in Tokens |-> None]
  /\ slots  = [o \in Tickets |-> {}]
  /\ job    = [o \in Tickets |-> NoJob]
  /\ rows   = <<>>
  /\ task   = [o \in Tickets |-> "none"]
  /\ up     = TRUE
  /\ paper  = [o \in Tickets |-> 0]
  /\ faults = 0

-----------------------------------------------------------------------------
(* Obligations: TransactionEngine.                                            *)

\* queueKitchenPrintObligations; BYPASSED while the branch prints nothing.
Queue(o) ==
  /\ ticket[o].status = "absent"
  /\ \E status \in {"PENDING", "BYPASSED"} :
       ticket' = [ticket EXCEPT ![o].status = status]
  /\ UNCHANGED <<client, grant, slots, bridge, paper, faults>>

At(o, t, what) == client[t].ticket = {o} /\ client[t].at \in what
Claims(o, t) == ticket[o].status = "CLAIMED" /\ ticket[o].token = t

\* claimKitchenPrintObligations, by a device with a token of its own.
Claim(o, t) ==
  /\ ticket[o].status = "PENDING"
  /\ client[t].at = "none" /\ \A s \in Tokens : s < t => client[s].at # "none"
  /\ ticket' = [ticket EXCEPT ![o].status = "CLAIMED", ![o].token = t]
  /\ client' = [client EXCEPT ![t].ticket = {o}, ![t].at = "claimed"]
  /\ UNCHANGED <<grant, slots, bridge, paper, faults>>

\* settleKitchenPrintObligation; refused unless the claim is still this device's.
Settle(o, t) ==
  /\ At(o, t, {"BRIDGE_ACCEPTED", "UNCERTAIN"})
  /\ ticket' = IF Claims(o, t) THEN [ticket EXCEPT ![o].status = client[t].at] ELSE ticket
  /\ client' = [client EXCEPT ![t].at = "gone"]
  /\ UNCHANGED <<grant, slots, bridge, paper, faults>>

\* reviewKitchenPrintObligation: also of a claim that is five minutes old, which,
\* time not being modelled, a claim may be at any step.
Reviewable(o) == ticket[o].status \in {"BRIDGE_ACCEPTED", "UNCERTAIN", "BYPASSED", "CLAIMED"}

ReviewRetry(o) ==
  /\ Reviewable(o) /\ ticket[o].status # "BRIDGE_ACCEPTED"
  /\ ticket[o].retries < MaxRetries
  /\ ticket' = [ticket EXCEPT ![o].status = "PENDING", ![o].token = 0,
                              ![o].reviewed = TRUE, ![o].retries = @ + 1]
  /\ UNCHANGED <<client, grant, slots, bridge, paper, faults>>

ReviewConfirm(o) ==
  /\ Reviewable(o) /\ ~ticket[o].confirmed
  /\ ticket' = [ticket EXCEPT ![o].status = "BRIDGE_ACCEPTED",
                              ![o].reviewed = TRUE, ![o].confirmed = TRUE]
  /\ UNCHANGED <<client, grant, slots, bridge, paper, faults>>

\* requestKitchenReprint: a ticket of its own, one at a time.
RequestReprint(o, copy) ==
  /\ ticket[copy].status = "absent" /\ ticket[o].status = "BRIDGE_ACCEPTED"
  /\ \A p \in Tickets : o \in ticket[p].parent =>
       ticket[p].status \notin {"PENDING", "CLAIMED", "UNCERTAIN"}
  /\ ticket' = [ticket EXCEPT ![copy] =
       [Absent EXCEPT !.status = "PENDING", !.reviewed = TRUE, !.parent = {o}]]
  /\ UNCHANGED <<client, grant, slots, bridge, paper, faults>>

-----------------------------------------------------------------------------
(* The device: recoverPendingKot and sendKitchenTickets.                      *)

Attempt(o) == IF ticket[o].reviewed THEN Cardinality(slots[o]) ELSE 0

\* The authorize route grants a delivery for an active claim; the grant of a
\* ticket that was reviewed is a recovery, named by the token.
Authorize(o, t) ==
  /\ At(o, t, {"claimed"}) /\ Claims(o, t) /\ Attempt(o) \in Slots
  /\ grant' = [grant EXCEPT ![t] =
       [attempt |-> Attempt(o), recovery |-> IF ticket[o].reviewed THEN t ELSE 0]]
  /\ client' = [client EXCEPT ![t].at = "submitting"]
  /\ UNCHANGED <<ticket, slots, bridge, paper, faults>>

\* The branch is KDS_ONLY: the ticket is put on the display, the bridge and the
\* authorize route are not asked.
Display(o, t) ==
  /\ At(o, t, {"claimed"}) /\ o \in Kds
  /\ client' = [client EXCEPT ![t].at = "BRIDGE_ACCEPTED", ![t].shown = TRUE]
  /\ UNCHANGED <<server, bridge, paper, faults>>

\* The device gets no answer, an error, or nothing final within 30 seconds.
GiveUp(o, t) ==
  /\ At(o, t, {"claimed", "submitting"})
  /\ client' = [client EXCEPT ![t].at = "UNCERTAIN"]
  /\ UNCHANGED <<server, bridge, paper, faults>>

\* The page is closed.
Close(o, t) ==
  /\ At(o, t, {"claimed", "submitting", "BRIDGE_ACCEPTED", "UNCERTAIN"})
  /\ client' = [client EXCEPT ![t].at = "gone"]
  /\ UNCHANGED <<server, bridge, paper, faults>>

-----------------------------------------------------------------------------
(* The bridge: PrintJobStore and PrintJobRunner.                              *)

\* Mutant: a TCP printer has a lane of its own, as a Windows queue has.
LaneOfEach(printer) == <<"WINDOWS", printer>>

Lane(printer) == IF printer \in Tcp THEN <<"TCP">> ELSE <<"WINDOWS", printer>>

\* All TCP printers share a lane; a Windows queue is its own.
LanesOf(o) == {Lane(printer) : printer \in {PrinterOf[o]} \cup FallbackOf[o]}

Older(p, o, rs) == \E i, j \in DOMAIN rs : i < j /\ rs[i] = p /\ rs[j] = o

\* The jobs pump starts, on the ledger j and the tasks k: oldest first, the queued
\* ones whose lanes neither a task nor a job started before them has taken.
Started(S, j, k, rs) ==
  \A o \in Tickets :
    LET busy == {p \in Tickets : k[p] # "none" \/ (p \in S /\ Older(p, o, rs))}
    IN o \in S <=> /\ o \in Range(rs) /\ j[o].stage = "QUEUED"
                  /\ Cardinality(busy) < Concurrency
                  /\ \A p \in busy : LanesOf(o) \cap LanesOf(p) = {}

Pumped(j, k, rs) ==
  \E S \in SUBSET Tickets :
    /\ Started(S, j, k, rs)
    /\ job'  = [o \in Tickets |-> IF o \in S THEN [j[o] EXCEPT !.stage = "TRANSMITTING"] ELSE j[o]]
    /\ task' = [o \in Tickets |-> IF o \in S THEN "verify" ELSE k[o]]
    /\ rows' = rs

\* enqueueInside and retryInside: the job after a submission by token t.
Enqueued(o, t) ==
  LET r == grant[t].recovery
  IN CASE job[o] = NoJob ->
            [NoJob EXCEPT !.stage = "QUEUED", !.recovery = r, !.auth = t, !.queued = 1,
                          !.used = IF r = 0 THEN {} ELSE {r}]
       [] r # 0 /\ job[o].stage \in {"NOT_SENT", "UNCERTAIN"} /\ job[o].recovery # r ->
            [job[o] EXCEPT !.stage = "QUEUED", !.recovery = r, !.auth = t,
                           !.used = @ \cup {r}, !.queued = @ + 1]
       [] OTHER -> job[o]

\* RETRY_REQUIRES_NEW_AUTHORIZATION and RETRY_LIMIT_REACHED
RetryRefused(o, t) ==
  /\ Enqueued(o, t) # job[o] /\ job[o] # NoJob
  /\ grant[t].recovery \in job[o].used \/ job[o].queued >= 3

\* Mutant: a job the bridge has accepted counts as delivered.
OutcomeAccepted(stage) == IF stage \in {"NOT_SENT", "UNCERTAIN"} THEN "UNCERTAIN" ELSE "BRIDGE_ACCEPTED"

\* What the device makes of the stage it is told; it asks again until one is final.
Outcome(stage) ==
  CASE stage = "SUBMITTED" -> "BRIDGE_ACCEPTED"
    [] stage \in {"NOT_SENT", "UNCERTAIN"} -> "UNCERTAIN"
    [] OTHER -> "submitting"

\* POST /jobs, also when the device asks again; a lost answer is GiveUp.
Submit(o, t) ==
  /\ At(o, t, {"submitting"}) /\ up
  /\ IF RetryRefused(o, t)
     THEN client' = [client EXCEPT ![t].at = "UNCERTAIN"] /\ UNCHANGED bridge
     ELSE /\ Pumped([job EXCEPT ![o] = Enqueued(o, t)], task,
                    IF job[o] = NoJob THEN Append(rows, o) ELSE rows)
          /\ client' = [client EXCEPT ![t].at = Outcome(job'[o].stage)]
          /\ UNCHANGED up
  /\ UNCHANGED <<server, paper, faults>>

Doing(o, what) == task[o] = what
Then(o, what)  == task' = [task EXCEPT ![o] = what] /\ UNCHANGED <<job, rows, up>>

\* Mutant: the reservation is not checked for having been made before.
ReservableAgain(o) ==
  grant[job[o].auth].attempt \in Slots /\ Claims(o, job[o].auth)

\* reserveDelivery: granted, the claim still active, and this attempt not used.
Reservable(o) ==
  /\ grant[job[o].auth].attempt \in Slots \ slots[o]
  /\ Claims(o, job[o].auth)

\* The consume route, before the printer is contacted; its answer may be lost.
Reserve(o) ==
  /\ Doing(o, "verify") /\ Reservable(o)
  /\ slots' = [slots EXCEPT ![o] = @ \cup {grant[job[o].auth].attempt}]
  /\ \E next \in {"primary", "UNCERTAIN"} : Then(o, next)
  /\ UNCHANGED <<ticket, client, grant, paper, faults>>

\* The delivery has expired, or the server refuses it or cannot be reached.
ReserveFails(o) ==
  /\ Doing(o, "verify")
  /\ Then(o, "UNCERTAIN")
  /\ UNCHANGED <<server, client, paper, faults>>

\* sendTcp, sendWindowsRaw, sendWindows: an uncertain send may have printed.
\* deliverWithFallback tries the other printer when nothing was sent.
Send(o) ==
  /\ task[o] \in {"primary", "fallback"}
  /\ \/ /\ Then(o, IF Doing(o, "primary") /\ FallbackOf[o] # {} THEN "fallback" ELSE "NOT_SENT")
        /\ UNCHANGED paper
     \/ Then(o, "SUBMITTED") /\ paper' = [paper EXCEPT ![o] = @ + 1]
     \/ /\ Then(o, "UNCERTAIN")
        /\ \E n \in {0, 1} : paper' = [paper EXCEPT ![o] = @ + n]
  /\ UNCHANGED <<server, client, faults>>

\* Mutant: nobody looks for the next job.
RecordOnly(o) ==
  /\ task[o] \in {"SUBMITTED", "NOT_SENT", "UNCERTAIN"}
  /\ job' = [job EXCEPT ![o].stage = task[o]] /\ task' = [task EXCEPT ![o] = "none"]
  /\ UNCHANGED <<server, client, rows, up, paper, faults>>

\* record, and the runner looks for the next job.
Record(o) ==
  /\ task[o] \in {"SUBMITTED", "NOT_SENT", "UNCERTAIN"}
  /\ Pumped([job EXCEPT ![o].stage = task[o]], [task EXCEPT ![o] = "none"], rows)
  /\ UNCHANGED <<server, client, up, paper, faults>>

\* The process stops; it may be started with another, empty ledger.
Crash ==
  /\ up /\ faults < MaxFaults
  /\ up' = FALSE /\ faults' = faults + 1
  /\ task' = [o \in Tickets |-> "none"]
  /\ \/ UNCHANGED <<job, rows>>
     \/ job' = [o \in Tickets |-> NoJob] /\ rows' = <<>>
  /\ UNCHANGED <<server, client, paper>>

\* Mutant: a job that was being sent is left as it is.
StartUnmarked ==
  /\ ~up /\ up' = TRUE
  /\ Pumped(job, task, rows)
  /\ UNCHANGED <<server, client, paper, faults>>

\* createBridge: what was being sent is uncertain; queued jobs go on.
Start ==
  /\ ~up /\ up' = TRUE
  /\ Pumped([o \in Tickets |-> IF job[o].stage = "TRANSMITTING"
                               THEN [job[o] EXCEPT !.stage = "UNCERTAIN"] ELSE job[o]],
            task, rows)
  /\ UNCHANGED <<server, client, paper, faults>>

Run(o) == Reserve(o) \/ ReserveFails(o) \/ Send(o) \/ Record(o)

Next ==
  \/ \E o \in Tickets :
       \/ Queue(o) \/ ReviewRetry(o) \/ ReviewConfirm(o) \/ Run(o)
       \/ \E copy \in Tickets : RequestReprint(o, copy)
       \/ \E t \in Tokens : \/ Claim(o, t) \/ Authorize(o, t) \/ Submit(o, t) \/ Display(o, t)
                            \/ GiveUp(o, t) \/ Settle(o, t) \/ Close(o, t)
  \/ Crash \/ Start

Spec == Init /\ [][Next]_vars

\* The runner's promises go on, and the bridge, a Windows service, is started again.
FairSpec == Spec /\ WF_vars(Start) /\ \A o \in Tickets : WF_vars(Run(o))

-----------------------------------------------------------------------------
Status == {"absent", "BYPASSED", "PENDING", "CLAIMED", "BRIDGE_ACCEPTED", "UNCERTAIN"}
Stages == {"none", "QUEUED", "TRANSMITTING", "SUBMITTED", "NOT_SENT", "UNCERTAIN"}

\* Every variable holds a value of its type, and while the bridge runs the ledger
\* says TRANSMITTING exactly of the jobs a task is working on.
TypeOK ==
  /\ \A o \in Tickets :
       /\ ticket[o].status \in Status /\ ticket[o].token \in {0} \cup Tokens
       /\ slots[o] \subseteq Slots
       /\ job[o].stage \in Stages /\ job[o].queued \in 0..3 /\ job[o].used \subseteq Tokens
       /\ up => (job[o].stage = "TRANSMITTING" <=> task[o] # "none")
  /\ Range(rows) = {o \in Tickets : job[o] # NoJob}

\* However answers are lost, devices close, the bridge crashes or its ledger is
\* lost: a ticket comes out of a printer once, and once more for each time a
\* manager decided to retry it.
NoUnreviewedCopy == \A o \in Tickets : paper[o] <= 1 + ticket[o].retries

OnDisplay(o) == \E t \in Tokens : client[t].ticket = {o} /\ client[t].shown

\* A ticket that counts as delivered was sent to a printer or put on the kitchen
\* display, unless a manager said that it was delivered.
AcceptedIsSubmitted ==
  \A o \in Tickets : ticket[o].status = "BRIDGE_ACCEPTED" =>
                       paper[o] > 0 \/ OnDisplay(o) \/ ticket[o].confirmed

SendingTo(o) == CASE task[o] = "primary"  -> {PrinterOf[o]}
                  [] task[o] = "fallback" -> FallbackOf[o]
                  [] OTHER -> {}

\* Two tasks never send to one printer at the same time, nor two of them over TCP,
\* whether to the printer of their station or to its fallback.
SerialLanes ==
  \A o, p \in Tickets : o # p =>
    \A a \in SendingTo(o), b \in SendingTo(p) : a # b /\ {a, b} \cap Tcp # {a, b}

\* A job the bridge has accepted does not stay queued or in transmission: waiting
\* for a lane, a crash or a restart does not strand it.
JobsEnd ==
  \A o \in Tickets : job[o].stage \in {"QUEUED", "TRANSMITTING"} ~>
                       job[o].stage \notin {"QUEUED", "TRANSMITTING"}
=============================================================================
