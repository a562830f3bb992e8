---------------------------- MODULE Reservations ----------------------------
(***************************************************************************)
(* Table reservations of one branch: capacity locks, table assignments,     *)
(* table sessions and deposits.  Guests book, move and cancel, staff seat   *)
(* and close, a payment confirms a deposit and the worker cancels what was  *)
(* not paid in time, each reading at several awaits and writing in a batch  *)
(* of its own.  A batch is atomic, but only its first statement is guarded  *)
(* by what was read before: the locks are changed whether or not the        *)
(* guarded UPDATE found its row.  The model keeps that behaviour, and       *)
(* records in missed the reservations it has happened to.                   *)
(*                                                                          *)
(* A time is the set of slots it takes, the buffer included; a request that *)
(* does not fit the branch's policy or hours is not made.  Orders and their *)
(* bills are the subject of Billing, the payment of a deposit that of       *)
(* ProviderEvents.  No code makes a reservation_holds row.                  *)
(***************************************************************************)
EXTENDS Integers, FiniteSets, Sequences, TLC

CONSTANTS Guests,       \* idempotency keys, each of one reservation
          Tables,
          Parties,      \* party sizes
          CandidatesOf, \* party size -> the table sets that seat it, best first
          Times,        \* the sets of slots a reservation may take
          Verified,     \* whether verification_policy is not NONE: the policies in force
          Deposits,     \* deposit_type is not NONE
          Handlers,     \* requests handled at the same time
          MaxRequests   \* bound: requests

ASSUME ReservationsAssumption ==
  /\ CandidatesOf \in [Parties -> Seq(SUBSET Tables)]
  /\ \A p \in Parties : \A k \in DOMAIN CandidatesOf[p] : CandidatesOf[p][k] # {}
  /\ \A time \in Times : time # {}
  /\ Verified \subseteq BOOLEAN /\ Deposits \in BOOLEAN /\ MaxRequests \in Nat
  /\ {"none", "QR"} \cap Guests = {}   \* what a table without a reservation has

VARIABLES
  status,    \* reservations.status
  slots,     \* its time, starts_at to ends_at
  walkIn,    \* the reservations whose source is WALK_IN
  assigned,  \* the tables of its assignments that are not released
  locks,     \* reservation_capacity_locks
  session,   \* the open guest_table_sessions row of a table: whose it is
  deposit,   \* reservation_deposits: [status, linked]
  intent,    \* the payment intent of the deposit
  credit,    \* adjustments that apply the deposit to a bill
  handler,   \* what a request is at
  worker,    \* the reservations runGuestLifecycleMaintenance has selected
  missed,    \* history: a batch was applied to it whose guarded UPDATE found no row
  requests   \* bound

vars  == <<status, slots, assigned, locks, session, deposit, intent, credit, handler, worker, walkIn, missed, requests>>
money == <<deposit, intent, credit>>

GuestSymmetry == Permutations(Guests) \cup Permutations(Handlers)

NoBody == "none"
Idle   == [op |-> "idle", at |-> "idle", for |-> {}, time |-> {}, tables |-> <<>>, saw |-> "none",
           to |-> "none", stale |-> FALSE]

Init ==
  /\ status   = [r \in Guests |-> "none"]
  /\ slots    = [r \in Guests |-> {}]
  /\ assigned = [r \in Guests |-> {}]
  /\ locks    = {}
  /\ session  = [t \in Tables |-> NoBody]
  /\ deposit  = [r \in Guests |-> [status |-> "none", linked |-> FALSE]]
  /\ intent   = [r \in Guests |-> "none"]
  /\ credit   = [r \in Guests |-> 0]
  /\ handler  = [h \in Handlers |-> Idle]
  /\ worker   = {} /\ walkIn = {} /\ missed = {} /\ requests = 0

Modifiable == {"PENDING", "CONFIRMED", "WAITLISTED"}
Ended      == {"COMPLETED", "CANCELLED", "NO_SHOW"}
Live       == Modifiable \cup {"SEATED"}
Unpaid     == {"REQUIRED", "PENDING", "FAILED"}

-----------------------------------------------------------------------------
At(h, r, pc) == handler[h].at = pc /\ handler[h].for = {r}
Go(h, pc)    == handler' = [handler EXCEPT ![h].at = pc]
Answer(h)    == handler' = [handler EXCEPT ![h] = Idle]

Request(op, pc, r) == [Idle EXCEPT !.op = op, !.at = pc, !.for = {r}]
Begin(h, new) ==
  /\ handler[h] = Idle /\ requests < MaxRequests
  /\ requests' = requests + 1
  /\ handler' = [handler EXCEPT ![h] = new]
\* What follows is not about what was read so far.
Then(h, op, pc, r) == handler' = [handler EXCEPT ![h] = Request(op, pc, r)]

\* updated_at of r is changed: a request that read it before will not match it.
Touched(hs, r) == [h \in Handlers |->
  IF hs[h].op = "modify" /\ hs[h].for = {r} THEN [hs[h] EXCEPT !.stale = TRUE] ELSE hs[h]]

Booking(r, tables, time) == [table : tables, slot : time, owner : {r}]
Owned(r) == {l \in locks : l.owner = r}
Taken(tables, time) == {l \in locks : l.table \in tables /\ l.slot \in time}

-----------------------------------------------------------------------------
(* Booking and changing                                                     *)

\* createReservation: a key that has a reservation is answered with it.
CreateReservation(h, r, time, party) ==
  /\ Begin(h, IF status[r] # "none" THEN Request("view", "row", r)
               ELSE [Request("create", "check", r) EXCEPT !.time = time, !.tables = CandidatesOf[party]])
  /\ UNCHANGED <<status, slots, assigned, locks, session, money, worker, walkIn, missed>>

\* modifyReservation reads the status, and then the row whose status and updated_at
\* guard the update.
ModifyReservation(h, r, time, party) ==
  /\ status[r] \in Modifiable
  /\ Begin(h, [Request("modify", "current", r) EXCEPT
                 !.time = time, !.tables = CandidatesOf[party]])
  /\ UNCHANGED <<status, slots, assigned, locks, session, money, worker, walkIn, missed>>

ReadCurrent(h, r) ==
  /\ At(h, r, "current")
  /\ handler' = [handler EXCEPT ![h].at = "check", ![h].saw = status[r], ![h].stale = FALSE]
  /\ UNCHANGED <<status, slots, assigned, locks, session, money, worker, walkIn, missed, requests>>

\* candidateAvailable, for a new reservation; candidateHasOtherLock, for a changed one.
Candidate(h) == Head(handler[h].tables)
Available(h, r) ==
  IF handler[h].op = "create"
  THEN Taken(Candidate(h), handler[h].time) = {} /\ \A t \in Candidate(h) : session[t] = NoBody
  ELSE Taken(Candidate(h), handler[h].time) \subseteq Owned(r)

\* The next candidate is looked at; its reads are one step, the batch decides.
Check(h, r) ==
  /\ At(h, r, "check")
  /\ IF handler[h].tables = <<>> THEN Answer(h)
     ELSE IF Available(h, r) THEN Go(h, "book")
     ELSE handler' = [handler EXCEPT ![h].tables = Tail(@)]
  /\ UNCHANGED <<status, slots, assigned, locks, session, money, worker, walkIn, missed, requests>>

\* Mutant: the slots are not a key of the locks.
ConstraintsHoldUnkeyed(h, r, mine) == handler[h].op = "modify" \/ status[r] = "none"

\* The keys of reservations and of reservation_capacity_locks, mine being replaced.
ConstraintsHold(h, r, mine) ==
  /\ handler[h].op = "modify" \/ status[r] = "none"
  /\ Taken(Candidate(h), handler[h].time) \subseteq mine

\* A constraint fails the batch: on to the next candidate.
Refused(h, r) ==
  /\ At(h, r, "book")
  /\ ~ ConstraintsHold(h, r, IF handler[h].op = "modify" THEN Owned(r) ELSE {})
  /\ handler' = [handler EXCEPT ![h].at = "check", ![h].tables = Tail(@)]
  /\ UNCHANGED <<status, slots, assigned, locks, session, money, worker, walkIn, missed, requests>>

\* The batch of createReservation, and then the answer.
Book(h, r) ==
  /\ At(h, r, "book") /\ handler[h].op = "create" /\ ConstraintsHold(h, r, {})
  /\ \E verified \in Verified : status' = [status EXCEPT ![r] = IF verified THEN "PENDING" ELSE "CONFIRMED"]
  /\ slots' = [slots EXCEPT ![r] = handler[h].time]
  /\ assigned' = [assigned EXCEPT ![r] = Candidate(h)]
  /\ locks' = locks \cup Booking(r, Candidate(h), handler[h].time)
  /\ deposit' = [deposit EXCEPT ![r].status = IF Deposits THEN "REQUIRED" ELSE "none"]
  /\ Then(h, "view", "row", r)
  /\ UNCHANGED <<session, intent, credit, worker, walkIn, missed, requests>>

\* Mutant: the locks of the old time stay.
ReplacedKept(r, tables, time) == locks \cup Booking(r, tables, time)

Replaced(r, tables, time) == (locks \ Owned(r)) \cup Booking(r, tables, time)

\* The batch of modifyReservation: locks and tables are replaced, and the time is if
\* the row is as it was read; otherwise the guest is told of a conflict.
Rebook(h, r) ==
  /\ At(h, r, "book") /\ handler[h].op = "modify" /\ ConstraintsHold(h, r, Owned(r))
  /\ locks' = Replaced(r, Candidate(h), handler[h].time)
  /\ assigned' = [assigned EXCEPT ![r] = Candidate(h)]
  /\ IF handler[h].stale
     THEN Answer(h) /\ UNCHANGED slots
     ELSE /\ slots' = [slots EXCEPT ![r] = handler[h].time]
          /\ handler' = [Touched(handler, r) EXCEPT ![h] = Request("view", "row", r)]
  /\ missed' = IF handler[h].stale \/ handler[h].saw \notin Modifiable THEN missed \cup {r} ELSE missed
  /\ UNCHANGED <<status, session, money, worker, walkIn, requests>>

\* cancelReservation: the guest's own, also when seated.
CancelReservation(h, r) ==
  /\ r \notin walkIn /\ status[r] \in Live
  /\ Begin(h, Request("cancel", "cancel", r))
  /\ UNCHANGED <<status, slots, assigned, locks, session, money, worker, walkIn, missed>>

Cancel(h, r) ==
  /\ At(h, r, "cancel")
  /\ status' = [status EXCEPT ![r] = IF @ \in Ended THEN @ ELSE "CANCELLED"]
  /\ locks' = locks \ Owned(r)
  /\ assigned' = [assigned EXCEPT ![r] = {}]
  /\ handler' = [IF status[r] \in Ended THEN handler ELSE Touched(handler, r) EXCEPT ![h] = Idle]
  /\ UNCHANGED <<slots, session, money, worker, walkIn, missed, requests>>

-----------------------------------------------------------------------------
(* The host                                                                 *)

\* Mutant: a party that is seated may be marked as not having come.
AllowedSeatedNoShow ==
  [PENDING |-> {"CONFIRMED", "CANCELLED", "WAITLISTED"}, CONFIRMED |-> {"SEATED", "CANCELLED", "NO_SHOW"},
   SEATED |-> {"COMPLETED", "NO_SHOW"}, WAITLISTED |-> {"CONFIRMED", "CANCELLED"}]

\* reservationTransitionAllowed
Allowed ==
  [PENDING |-> {"CONFIRMED", "CANCELLED", "WAITLISTED"}, CONFIRMED |-> {"SEATED", "CANCELLED", "NO_SHOW"},
   SEATED |-> {"COMPLETED"}, WAITLISTED |-> {"CONFIRMED", "CANCELLED"}]

\* staffReservationTransition reads the status, to seat also a table, and then writes.
StaffReservationTransition(h, r, to) ==
  /\ status[r] \in Live /\ to \in Allowed[status[r]]
  /\ Begin(h, [Request("staff", IF to = "SEATED" THEN "table" ELSE "move", r) EXCEPT
                 !.saw = status[r], !.to = to])
  /\ UNCHANGED <<status, slots, assigned, locks, session, money, worker, walkIn, missed>>

ReadTable(h, r) ==
  /\ At(h, r, "table")
  /\ IF assigned[r] = {} THEN Answer(h)
     ELSE \E t \in assigned[r] : handler' = [handler EXCEPT ![h].at = "move", ![h].tables = <<{t}>>]
  /\ UNCHANGED <<status, slots, assigned, locks, session, money, worker, walkIn, missed, requests>>

\* The batch; refused as a whole when the table has an open session.
Move(h, r) ==
  LET to    == handler[h].to
      found == status[r] = handler[h].saw
      at    == IF to = "SEATED" THEN Candidate(h) ELSE {}
  IN  /\ At(h, r, "move")
      /\ IF \E t \in at : session[t] # NoBody
         THEN Answer(h) /\ UNCHANGED <<status, locks, session, missed>>
         ELSE /\ status' = IF found THEN [status EXCEPT ![r] = to] ELSE status
              /\ locks' = IF to \in Ended THEN locks \ Owned(r) ELSE locks
              /\ session' = [t \in Tables |-> IF t \in at THEN r ELSE session[t]]
              /\ missed' = IF found THEN missed ELSE missed \cup {r}
              /\ handler' = [IF found THEN Touched(handler, r) ELSE handler EXCEPT ![h] = Idle]
      /\ UNCHANGED <<slots, assigned, money, worker, walkIn, requests>>

\* seatWalkIn: a reservation that is seated at once, for the two hours from now (some
\* time of Times), on any table without an open session: nothing looks at the locks,
\* and it gets none.
SeatWalkIn(r, t, time) ==
  /\ status[r] = "none" /\ session[t] = NoBody /\ requests < MaxRequests
  /\ status' = [status EXCEPT ![r] = "SEATED"]
  /\ slots' = [slots EXCEPT ![r] = time]
  /\ walkIn' = walkIn \cup {r}
  /\ assigned' = [assigned EXCEPT ![r] = {t}]
  /\ session' = [session EXCEPT ![t] = r]
  /\ requests' = requests + 1
  /\ UNCHANGED <<locks, money, handler, worker, missed>>

\* openOrFindTableSession: guests at a table scan its code.
OpenTableSession(t) ==
  /\ session[t] = NoBody /\ requests < MaxRequests
  /\ session' = [session EXCEPT ![t] = "QR"]
  /\ requests' = requests + 1
  /\ UNCHANGED <<status, slots, assigned, locks, money, handler, worker, walkIn, missed>>

\* closeTableSession, of a table whose orders are paid.
CloseTableSession(t) ==
  /\ session[t] # NoBody
  /\ session' = [session EXCEPT ![t] = NoBody]
  /\ UNCHANGED <<status, slots, assigned, locks, money, handler, worker, walkIn, missed, requests>>

-----------------------------------------------------------------------------
(* Deposits                                                                 *)

\* getReservation; the deposit route; applyReservationDeposit: each refreshes the
\* deposit before anything else, as createReservation and modifyReservation do last.
GetReservation(h, r) ==
  /\ status[r] # "none" /\ Begin(h, Request("view", "row", r))
  /\ UNCHANGED <<status, slots, assigned, locks, session, money, worker, walkIn, missed>>
PayDeposit(h, r) ==
  /\ deposit[r].status # "none" /\ Begin(h, Request("pay", "row", r))
  /\ UNCHANGED <<status, slots, assigned, locks, session, money, worker, walkIn, missed>>
ApplyReservationDeposit(h, r) ==
  /\ deposit[r].status # "none" /\ Begin(h, Request("apply", "row", r))
  /\ UNCHANGED <<status, slots, assigned, locks, session, money, worker, walkIn, missed>>

\* What follows the refresh.
AfterRefresh(h, r) ==
  IF handler[h].op \in {"pay", "apply"} THEN Request(handler[h].op, "deposit", r) ELSE Idle

\* refreshReservationDeposit: the row, the payment state, the batch.
ReadDeposit(h, r) ==
  /\ At(h, r, "row")
  /\ IF deposit[r].linked
     THEN handler' = [handler EXCEPT ![h].at = "state", ![h].saw = deposit[r].status]
     ELSE handler' = [handler EXCEPT ![h] = AfterRefresh(h, r)]
  /\ UNCHANGED <<status, slots, assigned, locks, session, money, worker, walkIn, missed, requests>>

ReadPayment(h, r) ==
  LET next == CASE intent[r] = "paid" -> "CONFIRMED" [] intent[r] = "failed" -> "FAILED"
                [] OTHER -> "PENDING"
  IN  /\ At(h, r, "state")
      /\ IF handler[h].saw \in {next, "APPLIED"} THEN handler' = [handler EXCEPT ![h] = AfterRefresh(h, r)]
         ELSE handler' = [handler EXCEPT ![h].at = "refresh", ![h].to = next]
      /\ UNCHANGED <<status, slots, assigned, locks, session, money, worker, walkIn, missed, requests>>

\* Mutant: the reservation is left to the next request.
ConfirmedLater(r, next) == status[r]

Confirmed(r, next) == IF next = "CONFIRMED" /\ status[r] = "PENDING" THEN "CONFIRMED" ELSE status[r]

\* Mutant: the deposit is written over whatever it has become.
RefreshedOver(now, saw, next) == next

RefreshedDeposit(now, saw, next) == IF now = saw THEN next ELSE now

RefreshReservationDeposit(h, r) ==
  LET next == handler[h].to
      hit  == next = "CONFIRMED" /\ status[r] \in {"PENDING", "CONFIRMED"}
  IN  /\ At(h, r, "refresh")
      /\ deposit' = [deposit EXCEPT ![r].status = RefreshedDeposit(@, handler[h].saw, next)]
      /\ status' = [status EXCEPT ![r] = Confirmed(r, next)]
      /\ handler' = [IF hit THEN Touched(handler, r) ELSE handler EXCEPT ![h] = AfterRefresh(h, r)]
      /\ UNCHANGED <<slots, assigned, locks, session, intent, credit, worker, walkIn, missed, requests>>

\* reservationDepositContext: refused or answered when the deposit is paid.
ReadContext(h, r) ==
  /\ At(h, r, "deposit") /\ handler[h].op = "pay"
  /\ IF deposit[r].status \in Unpaid THEN Go(h, "initiate") ELSE Answer(h)
  /\ UNCHANGED <<status, slots, assigned, locks, session, money, worker, walkIn, missed, requests>>

\* initiateUnallocatedPayment, with one intent for the deposit: an open one is answered
\* as a replay, a failed one may be prompted again and stays failed.
Initiate(h, r) ==
  /\ At(h, r, "initiate")
  /\ \E ok \in BOOLEAN :
       /\ intent[r] \in {"open", "paid"} => ok
       /\ intent' = [intent EXCEPT ![r] = IF @ # "none" THEN @ ELSE IF ok THEN "open" ELSE "failed"]
       /\ handler' = [handler EXCEPT ![h].at = "link", ![h].to = IF ok THEN "PENDING" ELSE "FAILED"]
  /\ UNCHANGED <<status, slots, assigned, locks, session, deposit, credit, worker, walkIn, missed, requests>>

\* The guest pays or does not; a payment may come after its failure was reported.
Settle(r) ==
  /\ \/ intent[r] \in {"open", "failed"} /\ intent' = [intent EXCEPT ![r] = "paid"]
     \/ intent[r] = "open" /\ intent' = [intent EXCEPT ![r] = "failed"]
  /\ UNCHANGED <<status, slots, assigned, locks, session, deposit, credit, handler, worker, walkIn, missed, requests>>

Linkable(r) == deposit[r].status \in Unpaid

\* linkReservationDepositIntent, and the answer.
Link(h, r) ==
  /\ At(h, r, "link")
  /\ deposit' = IF Linkable(r)
                THEN [deposit EXCEPT ![r] = [status |-> handler[h].to, linked |-> TRUE]] ELSE deposit
  /\ Then(h, "view", "row", r)
  /\ UNCHANGED <<status, slots, assigned, locks, session, intent, credit, worker, walkIn, missed, requests>>

\* authoritativeReservationDepositInput: a confirmed deposit of a party at its table.
ReadApplication(h, r) ==
  /\ At(h, r, "deposit") /\ handler[h].op = "apply"
  /\ IF /\ deposit[r].status = "CONFIRMED" /\ status[r] \in {"SEATED", "COMPLETED"}
        /\ \E t \in Tables : session[t] = r
     THEN Go(h, "apply") ELSE Answer(h)
  /\ UNCHANGED <<status, slots, assigned, locks, session, money, worker, walkIn, missed, requests>>

\* applyCustomerDeposit and the statements of its batch: refused when the collection
\* has been applied before.
Apply(h, r) ==
  /\ At(h, r, "apply") /\ Answer(h)
  /\ IF credit[r] = 0
     THEN /\ credit' = [credit EXCEPT ![r] = 1]
          /\ deposit' = [deposit EXCEPT ![r].status = IF @ = "CONFIRMED" THEN "APPLIED" ELSE @]
     ELSE UNCHANGED <<credit, deposit>>
  /\ UNCHANGED <<status, slots, assigned, locks, session, intent, worker, walkIn, missed, requests>>

-----------------------------------------------------------------------------
(* The worker, and what may stop a request                                  *)

\* Unpaid reservations; which of them are older than hold_minutes is not modelled.
Overdue == {r \in Guests : status[r] = "PENDING" /\ deposit[r].status \in Unpaid}

\* runGuestLifecycleMaintenance: the selection, and later the batch.
Select(S) ==
  /\ worker = {} /\ S # {} /\ S \subseteq Overdue
  /\ worker' = S
  /\ UNCHANGED <<status, slots, assigned, locks, session, money, handler, walkIn, missed, requests>>

Expire ==
  /\ worker # {}
  /\ LET found == {r \in worker : status[r] = "PENDING"}
     IN /\ status' = [r \in Guests |-> IF r \in found THEN "CANCELLED" ELSE status[r]]
        /\ handler' = [h \in Handlers |->
             IF handler[h].op = "modify" /\ handler[h].for \subseteq found
             THEN [handler[h] EXCEPT !.stale = TRUE] ELSE handler[h]]
        /\ missed' = missed \cup (worker \ found)
  /\ deposit' = [r \in Guests |-> IF r \in worker /\ deposit[r].status \in {"REQUIRED", "PENDING"}
                                  THEN [deposit[r] EXCEPT !.status = "FAILED"] ELSE deposit[r]]
  /\ locks' = {l \in locks : l.owner \notin worker}
  /\ worker' = {}
  /\ UNCHANGED <<slots, assigned, session, intent, credit, walkIn, requests>>

\* The isolate stops, or the database refuses or cannot serialize the batch.
Fail(h) ==
  /\ handler[h] # Idle /\ Answer(h)
  /\ UNCHANGED <<status, slots, assigned, locks, session, money, worker, walkIn, missed, requests>>

Next ==
  \/ \E h \in Handlers, r \in Guests :
       \/ \E time \in Times, party \in Parties :
            CreateReservation(h, r, time, party) \/ ModifyReservation(h, r, time, party)
       \/ ReadCurrent(h, r) \/ Check(h, r) \/ Refused(h, r) \/ Book(h, r) \/ Rebook(h, r)
       \/ CancelReservation(h, r) \/ Cancel(h, r)
       \/ \E to \in {"CONFIRMED", "WAITLISTED", "SEATED"} \cup Ended : StaffReservationTransition(h, r, to)
       \/ ReadTable(h, r) \/ Move(h, r)
       \/ GetReservation(h, r) \/ PayDeposit(h, r) \/ ApplyReservationDeposit(h, r)
       \/ ReadDeposit(h, r) \/ ReadPayment(h, r) \/ RefreshReservationDeposit(h, r)
       \/ ReadContext(h, r) \/ Initiate(h, r) \/ Link(h, r)
       \/ ReadApplication(h, r) \/ Apply(h, r)
  \/ \E r \in Guests : Settle(r) \/ \E t \in Tables, time \in Times : SeatWalkIn(r, t, time)
  \/ \E t \in Tables : OpenTableSession(t) \/ CloseTableSession(t)
  \/ \E S \in SUBSET Guests : Select(S)
  \/ Expire
  \/ \E h \in Handlers : Fail(h)

Spec == Init /\ [][Next]_vars

-----------------------------------------------------------------------------
(* Properties                                                               *)

\* The slots a reservation was given capacity for: a walk-in is given none.
Held(r) == IF r \in walkIn THEN {} ELSE slots[r]

\* The locks of a reservation are those of the tables and the time it has, and none once
\* it has ended, through any number of changes, retries and refused batches: capacity is
\* neither lost nor given away (createReservation, modifyReservation, the releases). A
\* walk-in has none at any time.
LocksMatchBooking == \A r \in Guests \ missed :
  Owned(r) = IF status[r] \in Live THEN Booking(r, assigned[r], Held(r)) ELSE {}

\* Two reservations that were booked and stand never have one table at one time,
\* whichever of the create and modify batches that were prepared side by side is written
\* first. A walk-in may: it is seated over a booking, see SeatWalkIn.
NoDoubleBooking == \A r, q \in Guests \ (missed \cup walkIn) :
  r # q /\ {status[r], status[q]} \subseteq Live => assigned[r] \cap assigned[q] = {} \/ slots[r] \cap slots[q] = {}

\* A table session is opened for a party that has come, and is one table's only: the
\* reservation of an open session is not waiting to be seated, nor marked as absent.
TableOpenedForSeated == \A t \in Tables, r \in Guests \ missed : session[t] = r =>
  /\ status[r] \notin Modifiable \cup {"none", "NO_SHOW"}
  /\ \A u \in Tables : session[u] = r => u = t

\* A deposit counts as paid only when its payment is, and its reservation is then no
\* longer one the worker would cancel for want of it.
DepositSettled == \A r \in Guests :
  deposit[r].status \in {"CONFIRMED", "APPLIED"} => intent[r] = "paid" /\ status[r] # "PENDING"

\* A deposit is used up exactly when it has been applied to a bill: refreshes, links and
\* expiries that were decided before do not make it available again.
DepositSpentOnce == \A r \in Guests : (deposit[r].status = "APPLIED") <=> (credit[r] = 1)
=============================================================================
