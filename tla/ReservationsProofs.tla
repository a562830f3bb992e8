------------------------- MODULE ReservationsProofs -------------------------
(* Proofs about Reservations, for any number of guests, tables, times and      *)
(* requests, and any candidates.                                               *)
EXTENDS Reservations, TLAPS

Statuses == {"none"} \cup Live \cup Ended
Funds    == Unpaid \cup {"none", "CONFIRMED", "APPLIED"}
Ops      == {"idle", "create", "modify", "cancel", "staff", "view", "pay", "apply"}
Places   == {"idle", "current", "check", "book", "cancel", "table", "move", "row", "state", "refresh",
             "deposit", "initiate", "link", "apply"}
Whose    == {{}} \cup {{r} : r \in Guests}
HandlerType == [op : Ops, at : Places, for : Whose, time : SUBSET UNION Times,
                tables : Seq(SUBSET Tables), saw : Statuses \cup Funds, to : Statuses \cup Funds,
                stale : BOOLEAN]

ReservationsType ==
  /\ status \in [Guests -> Statuses]
  /\ slots \in [Guests -> SUBSET UNION Times]
  /\ assigned \in [Guests -> SUBSET Tables]
  /\ session \in [Tables -> Guests \cup {NoBody, "QR"}]
  /\ deposit \in [Guests -> [status : Funds, linked : BOOLEAN]]
  /\ intent \in [Guests -> {"none", "open", "failed", "paid"}]
  /\ credit \in [Guests -> {0, 1}]
  /\ handler \in [Handlers -> HandlerType]
  /\ worker \subseteq Guests /\ walkIn \subseteq Guests /\ missed \subseteq Guests

\* What a change may rely on: the reservation exists, and is as it was read unless the
\* request is stale; a candidate is left.
GoodChange(h) ==
  /\ \A r \in handler[h].for :
       /\ handler[h].op = "modify" => status[r] # "none"
       /\ (/\ handler[h].op = "modify" /\ ~ handler[h].stale
           /\ handler[h].at \in {"check", "book"} /\ handler[h].saw \in Modifiable)
          => status[r] = handler[h].saw
  /\ handler[h].at = "book" => handler[h].tables # <<>>

\* What the host may rely on.
GoodTransition(h) ==
  /\ handler[h].at \in {"table", "move"} => handler[h].saw \in Live /\ handler[h].to \in Allowed[handler[h].saw]
  /\ (handler[h].at = "move" /\ handler[h].to = "SEATED") =>
       handler[h].tables # <<>> /\ \E t \in Tables : Head(handler[h].tables) = {t}

\* What a request about a deposit may rely on: a payment that was seen is for good, what
\* a refresh replaces was not paid, and what is applied was.
GoodFund(h) == \A r \in handler[h].for :
  /\ handler[h].at \in {"state", "refresh"} => handler[h].saw # "none"
  /\ (handler[h].at = "state" /\ handler[h].saw = "CONFIRMED") => intent[r] = "paid"
  /\ handler[h].at = "refresh" =>
       /\ handler[h].to \in {"CONFIRMED", "FAILED", "PENDING"} /\ handler[h].saw \notin {"CONFIRMED", "APPLIED"}
       /\ handler[h].to = "CONFIRMED" => intent[r] = "paid"
  /\ handler[h].at = "link" => handler[h].to \in {"PENDING", "FAILED"}
  /\ handler[h].at = "apply" => deposit[r].status \in {"CONFIRMED", "APPLIED"}

GoodRequest(h) == GoodChange(h) /\ GoodTransition(h) /\ GoodFund(h)

\* The key of reservation_capacity_locks is the table and the slot.
OneLockPerSlot == \A l, k \in locks : l.table = k.table /\ l.slot = k.slot => l.owner = k.owner

\* What is not booked has no time and no deposit, and a payment is linked to a deposit.
NotBooked == \A r \in Guests :
  /\ status[r] = "none" => slots[r] = {} /\ deposit[r].status = "none"
  /\ deposit[r].linked => deposit[r].status # "none"

\* A walk-in is at its table or has left it.
WalkInsSat == \A r \in walkIn : status[r] \notin Modifiable \cup {"none"}

BookingInv == OneLockPerSlot /\ NotBooked /\ WalkInsSat /\ LocksMatchBooking
DepositInv == DepositSettled /\ DepositSpentOnce
Inv == /\ ReservationsType /\ \A h \in Handlers : GoodRequest(h)
       /\ BookingInv /\ TableOpenedForSeated /\ DepositInv

-----------------------------------------------------------------------------
(* Requests                                                                  *)

LEMMA Empty ==
  /\ Idle \in HandlerType /\ Idle.op = "idle" /\ Idle.at = "idle" /\ Idle.for = {} /\ Idle.tables = <<>>
  /\ \A op \in Ops, pc \in Places, r \in Guests :
       /\ Request(op, pc, r) \in HandlerType /\ Request(op, pc, r).op = op
       /\ Request(op, pc, r).at = pc /\ Request(op, pc, r).for = {r} /\ Request(op, pc, r).tables = <<>>
<1>1. /\ "idle" \in Ops /\ "idle" \in Places /\ {} \in Whose /\ {} \in SUBSET UNION Times
      /\ <<>> \in Seq(SUBSET Tables) /\ "none" \in Statuses \cup Funds
  BY DEF Ops, Places, Whose, Statuses
<1>2. Idle \in HandlerType
  BY <1>1 DEF Idle, HandlerType
<1>3. Idle.op = "idle" /\ Idle.at = "idle" /\ Idle.for = {} /\ Idle.tables = <<>>
  BY DEF Idle
<1>4. ASSUME NEW op \in Ops, NEW pc \in Places, NEW r \in Guests
      PROVE  /\ Request(op, pc, r) \in HandlerType /\ Request(op, pc, r).op = op
             /\ Request(op, pc, r).at = pc /\ Request(op, pc, r).for = {r} /\ Request(op, pc, r).tables = <<>>
  <2>1. {r} \in Whose
    BY DEF Whose
  <2> QED
    BY <1>2, <1>3, <2>1 DEF Request, HandlerType
<1> QED
  BY <1>2, <1>3, <1>4

LEMMA OneReservation == \A x \in HandlerType : \A r \in x.for : r \in Guests /\ x.for = {r}
BY DEF HandlerType, Whose

\* One request moves.
Moves(h, x) == x \in HandlerType /\ handler' = [handler EXCEPT ![h] = x]

LEMMA Moved ==
  ASSUME handler \in [Handlers -> HandlerType], NEW h \in Handlers, NEW x, Moves(h, x)
  PROVE  /\ handler' \in [Handlers -> HandlerType] /\ handler'[h] = x
         /\ \A g \in Handlers \ {h} : handler'[g] = handler[g]
BY DEF Moves

\* Another request is as it was, or stale.
Goes(g) == /\ \A f \in {"op", "at", "for", "time", "tables", "saw", "to"} : handler'[g][f] = handler[g][f]
           /\ handler[g].stale => handler'[g].stale

\* What a request relies on is not taken from it by what others do.
LEMMA OthersKeep ==
  ASSUME NEW g \in Handlers, GoodRequest(g), Goes(g),
         \A r \in handler[g].for :
           /\ status[r] # "none" => status'[r] # "none"
           /\ handler[g].op = "modify" => status'[r] = status[r] \/ handler'[g].stale
           /\ intent[r] = "paid" => intent'[r] = "paid"
           /\ deposit[r].status \in {"CONFIRMED", "APPLIED"} => deposit'[r].status \in {"CONFIRMED", "APPLIED"}
  PROVE  GoodRequest(g)'
<1>1. GoodChange(g)'
  BY DEF GoodRequest, GoodChange, Goes
<1>2. GoodTransition(g)'
  BY DEF GoodRequest, GoodTransition, Goes
<1>3. GoodFund(g)'
  BY DEF GoodRequest, GoodFund, Goes
<1> QED
  BY <1>1, <1>2, <1>3 DEF GoodRequest

\* A request that has just begun, is answered or goes on to a new question.
LEMMA Fresh ==
  ASSUME NEW h \in Handlers,
         \/ handler'[h].at \in {"idle", "cancel", "row", "deposit", "initiate", "check"} /\ handler'[h].op # "modify"
         \/ handler'[h].at = "current" /\ \A r \in handler'[h].for : status'[r] # "none"
  PROVE  GoodRequest(h)'
BY DEF GoodRequest, GoodChange, GoodTransition, GoodFund

\* The requests that a change of r makes stale.
LEMMA TouchedType ==
  ASSUME handler \in [Handlers -> HandlerType], NEW r \in Guests
  PROVE  /\ Touched(handler, r) \in [Handlers -> HandlerType]
         /\ \A g \in Handlers :
              /\ \A f \in {"op", "at", "for", "time", "tables", "saw", "to"} : Touched(handler, r)[g][f] = handler[g][f]
              /\ handler[g].stale => Touched(handler, r)[g].stale
              /\ (handler[g].op = "modify" /\ r \in handler[g].for) => Touched(handler, r)[g].stale
<1>1. \A x \in HandlerType :
        /\ [x EXCEPT !.stale = TRUE] \in HandlerType /\ [x EXCEPT !.stale = TRUE].stale
        /\ \A f \in {"op", "at", "for", "time", "tables", "saw", "to"} : [x EXCEPT !.stale = TRUE][f] = x[f]
  BY DEF HandlerType
<1> QED
  BY <1>1, OneReservation DEF Touched

\* Nothing but a request moves.
LEMMA OnlyRequests ==
  ASSUME Inv, NEW h \in Handlers, NEW x, Moves(h, x), GoodRequest(h)',
         UNCHANGED <<status, slots, assigned, locks, session, money, worker, walkIn, missed>>
  PROVE  Inv'
<1>1. handler' \in [Handlers -> HandlerType] /\ \A g \in Handlers \ {h} : handler'[g] = handler[g]
  BY Moved DEF Inv, ReservationsType
<1>2. ReservationsType'
  BY <1>1 DEF Inv, ReservationsType, money
<1>3. \A g \in Handlers : GoodRequest(g)'
  <2>1. \A g \in Handlers \ {h} : Goes(g)
    BY <1>1 DEF Goes
  <2>2. \A g \in Handlers \ {h} : GoodRequest(g)'
    BY <2>1, OthersKeep DEF Inv, money
  <2> QED
    BY <2>2
<1>4. BookingInv'
  BY DEF Inv, BookingInv, OneLockPerSlot, NotBooked, WalkInsSat, LocksMatchBooking, Owned, Booking, Held, money
<1>5. TableOpenedForSeated' /\ DepositInv'
  BY DEF Inv, TableOpenedForSeated, DepositInv, DepositSettled, DepositSpentOnce, money
<1> QED
  BY <1>2, <1>3, <1>4, <1>5 DEF Inv

-----------------------------------------------------------------------------
(* The steps that read                                                       *)

\* A request begins, is answered, or goes on to a new question.
LEMMA Begins ==
  ASSUME Inv, NEW h \in Handlers, NEW x \in HandlerType, handler' = [handler EXCEPT ![h] = x],
         \/ x.at \in {"idle", "cancel", "row", "deposit", "initiate", "check"} /\ x.op # "modify"
         \/ x.at = "current" /\ \A r \in x.for : status[r] # "none",
         UNCHANGED <<status, slots, assigned, locks, session, money, worker, walkIn, missed>>
  PROVE  Inv'
<1>1. Moves(h, x)
  BY DEF Moves
<1>2. handler'[h] = x
  BY <1>1, Moved DEF Inv, ReservationsType
<1>3. GoodRequest(h)'
  BY <1>2, Fresh
<1> QED
  BY <1>1, <1>3, OnlyRequests

LEMMA FailStep == ASSUME Inv, NEW h \in Handlers, Fail(h) PROVE Inv'
BY Begins, Empty DEF Fail, Answer

LEMMA BeginSteps ==
  ASSUME Inv, NEW h \in Handlers, NEW r \in Guests,
         \/ \E time \in Times, party \in Parties :
              CreateReservation(h, r, time, party) \/ ModifyReservation(h, r, time, party)
         \/ CancelReservation(h, r) \/ GetReservation(h, r) \/ PayDeposit(h, r) \/ ApplyReservationDeposit(h, r)
  PROVE  Inv'
<1>1. ASSUME NEW op \in {"view", "pay", "apply", "cancel"}, NEW pc \in {"row", "cancel"},
             handler' = [handler EXCEPT ![h] = Request(op, pc, r)],
             UNCHANGED <<status, slots, assigned, locks, session, money, worker, walkIn, missed>>
      PROVE  Inv'
  <2>1. op \in Ops /\ pc \in Places /\ op # "modify"
    BY DEF Ops, Places
  <2>2. Request(op, pc, r) \in HandlerType /\ Request(op, pc, r).op = op /\ Request(op, pc, r).at = pc
    BY <2>1, Empty
  <2>3. Request(op, pc, r).at \in {"cancel", "row"} /\ Request(op, pc, r).op # "modify"
    BY <2>1, <2>2
  <2> QED
    BY <1>1, <2>2, <2>3, Begins
<1>2. CASE CancelReservation(h, r) \/ GetReservation(h, r) \/ PayDeposit(h, r) \/ ApplyReservationDeposit(h, r)
  BY <1>1, <1>2 DEF CancelReservation, GetReservation, PayDeposit, ApplyReservationDeposit, Begin
<1>4. ASSUME NEW time \in Times, NEW party \in Parties, NEW op \in {"create", "modify"},
             NEW pc \in {"check", "current"}
      PROVE  LET x == [Request(op, pc, r) EXCEPT !.time = time, !.tables = CandidatesOf[party]]
             IN  x \in HandlerType /\ x.op = op /\ x.at = pc /\ x.for = {r}
  <2>1. op \in Ops /\ pc \in Places
    BY DEF Ops, Places
  <2>2. time \in SUBSET UNION Times /\ CandidatesOf[party] \in Seq(SUBSET Tables)
    BY ReservationsAssumption
  <2>3. Request(op, pc, r) \in HandlerType /\ Request(op, pc, r).op = op
         /\ Request(op, pc, r).at = pc /\ Request(op, pc, r).for = {r}
    BY <2>1, Empty
  <2> QED
    BY <2>2, <2>3 DEF HandlerType
<1>5. ASSUME NEW time \in Times, NEW party \in Parties, CreateReservation(h, r, time, party) PROVE Inv'
  <2>1. CASE status[r] # "none"
    BY <1>1, <1>5, <2>1 DEF CreateReservation, Begin
  <2>2. CASE status[r] = "none"
    BY <1>4, <1>5, <2>2, Begins DEF CreateReservation, Begin
  <2> QED
    BY <2>1, <2>2
<1>6. ASSUME NEW time \in Times, NEW party \in Parties, ModifyReservation(h, r, time, party) PROVE Inv'
  <2>1. status[r] # "none"
    BY <1>6 DEF ModifyReservation, Modifiable
  <2> DEFINE x == [Request("modify", "current", r) EXCEPT !.time = time, !.tables = CandidatesOf[party]]
  <2>2. x \in HandlerType /\ x.at = "current" /\ x.for = {r}
    BY <1>4
  <2>3. handler' = [handler EXCEPT ![h] = x] /\ UNCHANGED <<status, slots, assigned, locks, session, money, worker, walkIn, missed>>
    BY <1>6 DEF ModifyReservation, Begin
  <2> HIDE DEF x
  <2> QED
    BY <2>1, <2>2, <2>3, Begins
<1> QED
  BY <1>2, <1>5, <1>6

\* The reads of a change.
LEMMA ChangeReads ==
  ASSUME Inv, NEW h \in Handlers, NEW r \in Guests, ReadCurrent(h, r) \/ Check(h, r) \/ Refused(h, r)
  PROVE  Inv'
<1>0. /\ handler \in [Handlers -> HandlerType] /\ handler[h] \in HandlerType /\ GoodRequest(h)
      /\ handler[h].for = {r} /\ handler[h].tables \in Seq(SUBSET Tables) /\ status[r] \in Statuses
      /\ UNCHANGED <<status, slots, assigned, locks, session, money, worker, walkIn, missed>>
  BY DEF Inv, ReservationsType, ReadCurrent, Check, Refused, At, HandlerType
<1>1. CASE ReadCurrent(h, r)
  <2> DEFINE x == [handler[h] EXCEPT !.at = "check", !.saw = status[r], !.stale = FALSE]
  <2>1. "check" \in Places
    BY DEF Places
  <2>2. x \in HandlerType /\ x.at = "check" /\ x.saw = status[r] /\ x.for = {r} /\ x.op = handler[h].op
    BY <1>0, <2>1 DEF HandlerType
  <2>3. Moves(h, x)
    BY <1>0, <1>1, <2>2 DEF ReadCurrent, Moves
  <2>4. handler'[h] = x
    BY <1>0, <2>3, Moved
  <2> HIDE DEF x
  <2>5. GoodRequest(h)'
    BY <1>0, <2>2, <2>4 DEF GoodRequest, GoodChange, GoodTransition, GoodFund
  <2> QED
    BY <1>0, <2>3, <2>5, OnlyRequests
<1>2. ASSUME handler[h].tables # <<>>, handler[h].at \in {"check", "book"},
             handler' = [handler EXCEPT ![h] = [handler[h] EXCEPT !.at = "check", !.tables = Tail(@)]]
      PROVE  Inv'
  <2> DEFINE x == [handler[h] EXCEPT !.at = "check", !.tables = Tail(@)]
  <2>1. "check" \in Places /\ Tail(handler[h].tables) \in Seq(SUBSET Tables)
    BY <1>0, <1>2 DEF Places
  <2>2. x \in HandlerType /\ x.at = "check" /\ x.for = {r} /\ x.op = handler[h].op /\ x.saw = handler[h].saw
        /\ x.stale = handler[h].stale
    BY <1>0, <2>1 DEF HandlerType
  <2>3. Moves(h, x)
    BY <1>2, <2>2 DEF Moves
  <2>4. handler'[h] = x
    BY <1>0, <2>3, Moved
  <2> HIDE DEF x
  <2>5. GoodRequest(h)'
    BY <1>0, <1>2, <2>2, <2>4 DEF GoodRequest, GoodChange, GoodTransition, GoodFund
  <2> QED
    BY <1>0, <2>3, <2>5, OnlyRequests
<1>3. CASE Refused(h, r)
  <2>1. handler[h].at = "book" /\ handler[h].tables # <<>>
    BY <1>0, <1>3 DEF Refused, At, GoodRequest, GoodChange
  <2>2. handler' = [handler EXCEPT ![h] = [handler[h] EXCEPT !.at = "check", !.tables = Tail(@)]]
    BY <1>0, <1>3 DEF Refused
  <2> QED
    BY <1>2, <2>1, <2>2
<1>4. CASE Check(h, r)
  <2>0. handler[h].at = "check"
    BY <1>4 DEF Check, At
  <2>1. CASE handler[h].tables = <<>>
    BY <1>0, <1>4, <2>1, Begins, Empty DEF Check, Answer
  <2>2. CASE handler[h].tables # <<>> /\ Available(h, r)
    <3> DEFINE x == [handler[h] EXCEPT !.at = "book"]
    <3>1. "book" \in Places
      BY DEF Places
    <3>2. x \in HandlerType /\ x.at = "book" /\ x.for = {r} /\ x.op = handler[h].op /\ x.saw = handler[h].saw
          /\ x.stale = handler[h].stale /\ x.tables = handler[h].tables
      BY <1>0, <3>1 DEF HandlerType
    <3>3. Moves(h, x)
      BY <1>0, <1>4, <2>2, <3>2 DEF Check, Go, Moves
    <3>4. handler'[h] = x
      BY <1>0, <3>3, Moved
    <3> HIDE DEF x
    <3>5. GoodRequest(h)'
      BY <1>0, <2>0, <2>2, <3>2, <3>4 DEF GoodRequest, GoodChange, GoodTransition, GoodFund
    <3> QED
      BY <1>0, <3>3, <3>5, OnlyRequests
  <2>3. CASE handler[h].tables # <<>> /\ ~ Available(h, r)
    <3>1. [handler[h] EXCEPT !.tables = Tail(@)] = [handler[h] EXCEPT !.at = "check", !.tables = Tail(@)]
      BY <1>0, <2>0 DEF HandlerType
    <3>2. handler' = [handler EXCEPT ![h] = [handler[h] EXCEPT !.tables = Tail(@)]]
      BY <1>0, <1>4, <2>3 DEF Check
    <3> QED
      BY <1>2, <2>0, <2>3, <3>1, <3>2
  <2> QED
    BY <2>1, <2>2, <2>3
<1> QED
  BY <1>1, <1>3, <1>4

\* The reads of the host and of the deposit.
LEMMA OtherReads ==
  ASSUME Inv, NEW h \in Handlers, NEW r \in Guests,
         \/ \E to \in {"CONFIRMED", "WAITLISTED", "SEATED"} \cup Ended : StaffReservationTransition(h, r, to)
         \/ ReadTable(h, r) \/ ReadDeposit(h, r) \/ ReadPayment(h, r) \/ ReadContext(h, r) \/ ReadApplication(h, r)
  PROVE  Inv'
<1>0. /\ handler \in [Handlers -> HandlerType] /\ handler[h] \in HandlerType /\ GoodRequest(h)
      /\ status[r] \in Statuses /\ assigned[r] \subseteq Tables /\ deposit[r].status \in Funds
      /\ UNCHANGED <<status, slots, assigned, locks, session, money, worker, walkIn, missed>>
  BY DEF Inv, ReservationsType, StaffReservationTransition, ReadTable, ReadDeposit, ReadPayment, ReadContext, ReadApplication
<1>1. ASSUME NEW x \in HandlerType, handler' = [handler EXCEPT ![h] = x], GoodRequest(h)' PROVE Inv'
  BY <1>0, <1>1, OnlyRequests DEF Moves
<1>2. ASSUME handler' = [handler EXCEPT ![h] = AfterRefresh(h, r)] PROVE Inv'
  <2>1. AfterRefresh(h, r) \in HandlerType /\ AfterRefresh(h, r).at \in {"deposit", "idle"} /\ AfterRefresh(h, r).op # "modify"
    <3>1. "deposit" \in Places /\ {"pay", "apply"} \subseteq Ops
      BY DEF Places, Ops
    <3>2. CASE handler[h].op \in {"pay", "apply"}
      BY <3>1, <3>2, Empty DEF AfterRefresh
    <3>3. CASE handler[h].op \notin {"pay", "apply"}
      BY <3>3, Empty DEF AfterRefresh
    <3> QED
      BY <3>2, <3>3
  <2> QED
    BY <1>0, <1>2, <2>1, Begins
<1>3. ASSUME NEW to \in {"CONFIRMED", "WAITLISTED", "SEATED"} \cup Ended, StaffReservationTransition(h, r, to) PROVE Inv'
  <2> DEFINE pc == IF to = "SEATED" THEN "table" ELSE "move"
             x == [Request("staff", pc, r) EXCEPT !.saw = status[r], !.to = to]
  <2>1. "staff" \in Ops /\ pc \in Places /\ to \in Statuses \cup Funds
    BY DEF Ops, Places, Statuses, Live, Modifiable
  <2>2. Request("staff", pc, r) \in HandlerType /\ Request("staff", pc, r).op = "staff" /\ Request("staff", pc, r).at = pc
    BY <2>1, Empty
  <2>3. x \in HandlerType /\ x.op = "staff" /\ x.at = pc /\ x.saw = status[r] /\ x.to = to
    BY <1>0, <2>1, <2>2 DEF HandlerType
  <2>4. handler' = [handler EXCEPT ![h] = x]
    BY <1>3 DEF StaffReservationTransition, Begin
  <2>5. handler'[h] = x
    BY <1>0, <2>4
  <2>6. status[r] \in Live /\ to \in Allowed[status[r]]
    BY <1>3 DEF StaffReservationTransition
  <2> HIDE DEF x
  <2>7. GoodRequest(h)'
    BY <2>3, <2>5, <2>6 DEF GoodRequest, GoodChange, GoodTransition, GoodFund
  <2> QED
    BY <1>1, <2>3, <2>4, <2>7
<1>4. CASE ReadTable(h, r)
  <2>1. CASE assigned[r] = {}
    BY <1>0, <1>4, <2>1, Begins, Empty DEF ReadTable, Answer
  <2>2. CASE assigned[r] # {}
    <3>1. PICK t \in assigned[r] : handler' = [handler EXCEPT ![h].at = "move", ![h].tables = <<{t}>>]
      BY <1>4, <2>2 DEF ReadTable
    <3> DEFINE x == [handler[h] EXCEPT !.at = "move", !.tables = <<{t}>>]
    <3>2. "move" \in Places /\ <<{t}>> \in Seq(SUBSET Tables) /\ <<{t}>> # <<>> /\ Head(<<{t}>>) = {t} /\ t \in Tables
      BY <1>0 DEF Places
    <3>3. x \in HandlerType /\ x.op = handler[h].op /\ x.at = "move" /\ x.tables = <<{t}>>
          /\ x.saw = handler[h].saw /\ x.to = handler[h].to /\ x.for = handler[h].for
      BY <1>0, <3>2 DEF HandlerType
    <3>4. handler' = [handler EXCEPT ![h] = x]
      BY <1>0, <3>1
    <3>5. handler'[h] = x /\ handler[h].at = "table"
      BY <1>0, <1>4, <3>4 DEF ReadTable, At
    <3> HIDE DEF x
    <3>6. GoodTransition(h)'
      BY <1>0, <3>2, <3>3, <3>5 DEF GoodRequest, GoodTransition
    <3>7. GoodRequest(h)'
      BY <1>0, <3>3, <3>5, <3>6 DEF GoodRequest, GoodChange, GoodFund
    <3> QED
      BY <1>1, <3>3, <3>4, <3>7
  <2> QED
    BY <2>1, <2>2
<1>5. CASE ReadDeposit(h, r)
  <2>1. CASE deposit[r].linked
    <3> DEFINE x == [handler[h] EXCEPT !.at = "state", !.saw = deposit[r].status]
    <3>1. "state" \in Places
      BY DEF Places
    <3>2. x \in HandlerType /\ x.op = handler[h].op /\ x.at = "state" /\ x.saw = deposit[r].status /\ x.for = handler[h].for
      BY <1>0, <3>1 DEF HandlerType
    <3>3. handler' = [handler EXCEPT ![h] = x]
      BY <1>0, <1>5, <2>1 DEF ReadDeposit
    <3>4. handler'[h] = x /\ handler[h].for = {r}
      BY <1>0, <1>5, <3>3 DEF ReadDeposit, At
    <3>5. deposit[r].status # "none" /\ (deposit[r].status = "CONFIRMED" => intent'[r] = "paid")
      BY <1>0, <2>1 DEF Inv, DepositInv, DepositSettled, BookingInv, NotBooked, money
    <3> HIDE DEF x
    <3>6. GoodRequest(h)'
      BY <1>0, <3>2, <3>4, <3>5 DEF GoodRequest, GoodChange, GoodTransition, GoodFund
    <3> QED
      BY <1>1, <3>2, <3>3, <3>6
  <2>2. CASE ~ deposit[r].linked
    BY <1>2, <1>5, <2>2 DEF ReadDeposit
  <2> QED
    BY <2>1, <2>2
<1>6. CASE ReadPayment(h, r)
  <2> DEFINE next == CASE intent[r] = "paid" -> "CONFIRMED" [] intent[r] = "failed" -> "FAILED"
                       [] OTHER -> "PENDING"
             x == [handler[h] EXCEPT !.at = "refresh", !.to = next]
  <2>0. next \in {"CONFIRMED", "FAILED", "PENDING"} /\ (next = "CONFIRMED" <=> intent[r] = "paid")
    OBVIOUS
  <2>1. handler[h].at = "state" /\ handler[h].for = {r}
    BY <1>6 DEF ReadPayment, At
  <2>2. handler[h].saw = "CONFIRMED" => next = "CONFIRMED"
    BY <1>0, <2>0, <2>1 DEF GoodRequest, GoodFund
  <2>3. CASE handler[h].saw \in {next, "APPLIED"}
    BY <1>2, <1>6, <2>3 DEF ReadPayment
  <2>4. CASE handler[h].saw \notin {next, "APPLIED"}
    <3>1. "refresh" \in Places /\ next \in Statuses \cup Funds
      BY <2>0 DEF Places, Funds, Unpaid
    <3>2. handler' = [handler EXCEPT ![h] = x]
      BY <1>0, <1>6, <2>4 DEF ReadPayment
    <3>3. UNCHANGED intent
      BY <1>0 DEF money
    <3> HIDE DEF next
    <3>4. x \in HandlerType /\ x.op = handler[h].op /\ x.at = "refresh" /\ x.saw = handler[h].saw /\ x.to = next /\ x.for = {r}
      BY <1>0, <2>1, <3>1 DEF HandlerType
    <3>5. handler'[h] = x
      BY <1>0, <3>2
    <3> HIDE DEF x
    <3>6. GoodRequest(h)'
      BY <1>0, <2>0, <2>1, <2>2, <2>4, <3>3, <3>4, <3>5 DEF GoodRequest, GoodChange, GoodTransition, GoodFund
    <3> QED
      BY <1>1, <3>2, <3>4, <3>6
  <2> QED
    BY <2>3, <2>4
<1>7. ASSUME NEW pc \in {"initiate", "apply"}, handler[h].at = "deposit", handler[h].op # "modify", handler[h].for = {r},
             Go(h, pc), pc = "apply" => deposit[r].status = "CONFIRMED"
      PROVE  Inv'
  <2> DEFINE x == [handler[h] EXCEPT !.at = pc]
  <2>1. pc \in Places
    BY DEF Places
  <2>2. x \in HandlerType /\ x.op = handler[h].op /\ x.at = pc /\ x.for = {r}
    BY <1>0, <1>7, <2>1 DEF HandlerType
  <2>3. handler' = [handler EXCEPT ![h] = x]
    BY <1>0, <1>7 DEF Go
  <2>4. handler'[h] = x /\ UNCHANGED deposit
    BY <1>0, <2>3 DEF money
  <2> HIDE DEF x
  <2>5. GoodRequest(h)'
    BY <1>0, <1>7, <2>2, <2>4 DEF GoodRequest, GoodChange, GoodTransition, GoodFund
  <2> QED
    BY <1>1, <2>2, <2>3, <2>5
<1>8. CASE Answer(h)
  BY <1>0, <1>8, Begins, Empty DEF Answer
<1>9. CASE ReadContext(h, r)
  BY <1>7, <1>8, <1>9 DEF ReadContext, At
<1>10. CASE ReadApplication(h, r)
  BY <1>7, <1>8, <1>10 DEF ReadApplication, At
<1> QED
  BY <1>3, <1>4, <1>5, <1>6, <1>9, <1>10

-----------------------------------------------------------------------------
(* What the steps that write leave alone                                     *)

\* Nothing that a request relies on is taken back: reservations stay, payments stay.
Safe(q) == /\ status[q] # "none" => status'[q] # "none"
           /\ intent[q] = "paid" => intent'[q] = "paid"
           /\ deposit[q].status \in {"CONFIRMED", "APPLIED"} => deposit'[q].status \in {"CONFIRMED", "APPLIED"}

\* A request writes about r and is answered or goes on to a new question; the changes of r
\* that others have read become stale if the status of r does not stay.
LEMMA Writes ==
  ASSUME Inv, NEW h \in Handlers, NEW r \in Guests, NEW hs \in {handler, Touched(handler, r)},
         NEW x \in HandlerType, x.at \in {"idle", "row", "deposit"}, x.op # "modify",
         handler' = [hs EXCEPT ![h] = x], \A q \in Guests : Safe(q),
         \A q \in Guests \ {r} : status'[q] = status[q],
         status'[r] = status[r] \/ status[r] = "none" \/ hs = Touched(handler, r)
  PROVE  handler' \in [Handlers -> HandlerType] /\ \A g \in Handlers : GoodRequest(g)'
<1>0. handler \in [Handlers -> HandlerType]
  BY DEF Inv, ReservationsType
<1>1. /\ hs \in [Handlers -> HandlerType]
      /\ \A g \in Handlers : \A f \in {"op", "at", "for", "time", "tables", "saw", "to"} : hs[g][f] = handler[g][f]
      /\ \A g \in Handlers : handler[g].stale => hs[g].stale
  BY <1>0, TouchedType
<1>2. handler' \in [Handlers -> HandlerType] /\ handler'[h] = x /\ \A g \in Handlers \ {h} : handler'[g] = hs[g]
  BY <1>1
<1>3. GoodRequest(h)'
  BY <1>2, Fresh
<1>4. ASSUME NEW g \in Handlers \ {h} PROVE GoodRequest(g)'
  <2>1. Goes(g)
    BY <1>1, <1>2 DEF Goes
  <2>2. ASSUME NEW q \in handler[g].for, handler[g].op = "modify" PROVE status'[q] = status[q] \/ handler'[g].stale
    <3>1. q \in Guests /\ status[q] # "none"
      BY <1>0, <2>2, OneReservation DEF Inv, GoodRequest, GoodChange
    <3>2. CASE q # r
      BY <3>1, <3>2
    <3>3. CASE q = r /\ hs = Touched(handler, r)
      BY <1>0, <1>2, <2>2, <3>3, TouchedType
    <3> QED
      BY <3>1, <3>2, <3>3
  <2>3. \A q \in handler[g].for : q \in Guests
    BY <1>0, OneReservation
  <2> QED
    BY <2>1, <2>2, <2>3, OthersKeep DEF Safe, Inv
<1> QED
  BY <1>2, <1>3, <1>4

\* Whose locks are whose.
LEMMA LocksStay ==
  ASSUME Inv, UNCHANGED <<slots, assigned, locks, walkIn>>, missed \subseteq missed',
         \A q \in Guests \ missed' : status'[q] \in Live <=> status[q] \in Live
  PROVE  OneLockPerSlot' /\ LocksMatchBooking'
BY DEF Inv, BookingInv, OneLockPerSlot, LocksMatchBooking, Owned, Booking, Held

LEMMA LocksReleased ==
  ASSUME Inv, NEW W \in SUBSET Guests, locks' = {l \in locks : l.owner \notin W}, missed \subseteq missed',
         UNCHANGED <<slots, walkIn>>, \A q \in Guests \ W : assigned'[q] = assigned[q],
         \A q \in Guests \ missed' : IF q \in W THEN status'[q] \notin Live
                                     ELSE status'[q] \in Live <=> status[q] \in Live
  PROVE  OneLockPerSlot' /\ LocksMatchBooking'
<1>1. OneLockPerSlot'
  BY DEF Inv, BookingInv, OneLockPerSlot
<1>2. \A q \in Guests : Owned(q)' = IF q \in W THEN {} ELSE Owned(q)
  BY DEF Owned
<1>3. \A q \in Guests \ W : Booking(q, assigned[q], Held(q))' = Booking(q, assigned[q], Held(q))
  BY DEF Booking, Held
<1>4. ASSUME NEW q \in Guests \ missed'
      PROVE  Owned(q)' = IF status'[q] \in Live THEN Booking(q, assigned[q], Held(q))' ELSE {}
  <2>1. CASE q \in W
    BY <1>2, <2>1
  <2>2. CASE q \notin W
    BY <1>2, <1>3, <2>2 DEF Inv, BookingInv, LocksMatchBooking
  <2> QED
    BY <2>1, <2>2
<1> QED
  BY <1>1, <1>4 DEF LocksMatchBooking

\* A table session stays with a party that is at its table or has left it.
LEMMA TablesStay ==
  ASSUME Inv, UNCHANGED session, missed \subseteq missed',
         \A q \in Guests \ missed' : \/ status'[q] = status[q] \/ status[q] \in Modifiable \cup {"none"}
                                     \/ status'[q] \in {"CANCELLED", "COMPLETED"}
  PROVE  TableOpenedForSeated'
<1>1. /\ "CANCELLED" \notin Modifiable \cup {"none", "NO_SHOW"}
      /\ "COMPLETED" \notin Modifiable \cup {"none", "NO_SHOW"}
  BY DEF Modifiable
<1> QED
  BY <1>1 DEF Inv, TableOpenedForSeated

\* Nobody comes in, and who did is not made to wait.
LEMMA WalkInsStay ==
  ASSUME Inv, UNCHANGED walkIn,
         \A q \in Guests : \/ status'[q] = status[q] \/ status[q] \in Modifiable \cup {"none"}
                            \/ status'[q] \notin Modifiable \cup {"none"}
  PROVE  WalkInsSat'
BY DEF Inv, ReservationsType, BookingInv, WalkInsSat

\* No reservation becomes one that waits for its deposit.
LEMMA DepositsStay ==
  ASSUME Inv, UNCHANGED <<deposit, intent, credit>>,
         \A q \in Guests : status'[q] = status[q] \/ status'[q] # "PENDING"
  PROVE  DepositInv'
BY DEF Inv, DepositInv, DepositSettled, DepositSpentOnce

-----------------------------------------------------------------------------
(* The steps that write                                                      *)

\* The batch of createReservation.
LEMMA BookStep ==
  ASSUME Inv, NEW h \in Handlers, NEW r \in Guests, Book(h, r)
  PROVE  Inv'
<1> DEFINE B == Booking(r, Candidate(h), handler[h].time)
<1>0. /\ ReservationsType /\ handler[h] \in HandlerType /\ status[r] = "none"
      /\ slots[r] = {} /\ deposit[r].status = "none" /\ ~ deposit[r].linked /\ r \notin walkIn
  BY DEF Inv, ReservationsType, Book, ConstraintsHold, BookingInv, NotBooked, WalkInsSat
<1>1. Candidate(h) \in SUBSET Tables /\ handler[h].time \in SUBSET UNION Times
  <2>1. handler[h].tables # <<>> /\ handler[h].tables \in Seq(SUBSET Tables)
    BY <1>0 DEF Book, At, Inv, GoodRequest, GoodChange, HandlerType
  <2> QED
    BY <1>0, <2>1 DEF Candidate, HandlerType
<1>2. /\ status'[r] \in {"PENDING", "CONFIRMED"} /\ slots'[r] = handler[h].time /\ assigned'[r] = Candidate(h)
      /\ \A q \in Guests \ {r} : status'[q] = status[q] /\ slots'[q] = slots[q] /\ assigned'[q] = assigned[q]
      /\ deposit'[r].status \in {"REQUIRED", "none"} /\ deposit'[r].linked = deposit[r].linked
      /\ \A q \in Guests \ {r} : deposit'[q] = deposit[q]
  BY <1>0 DEF Book, ReservationsType
<1>3. /\ status' \in [Guests -> Statuses] /\ slots' \in [Guests -> SUBSET UNION Times]
      /\ assigned' \in [Guests -> SUBSET Tables]
      /\ deposit' \in [Guests -> [status : Funds, linked : BOOLEAN]]
  <2>1. status' \in [Guests -> Statuses]
    BY <1>0 DEF Book, ReservationsType, Statuses, Live, Modifiable
  <2>2. slots' \in [Guests -> SUBSET UNION Times] /\ assigned' \in [Guests -> SUBSET Tables]
    BY <1>0, <1>1 DEF Book, ReservationsType
  <2>3. {"REQUIRED", "none"} \subseteq Funds
    BY DEF Funds, Unpaid
  <2> QED
    BY <1>0, <2>1, <2>2, <2>3 DEF Book, ReservationsType
<1>4. /\ UNCHANGED <<session, intent, credit, worker, walkIn, missed>> /\ locks' = locks \cup B
      /\ handler' = [handler EXCEPT ![h] = Request("view", "row", r)]
  BY DEF Book, Then
<1>5. \A q \in Guests : Safe(q)
  BY <1>0, <1>2, <1>4 DEF Safe
<1>6. handler' \in [Handlers -> HandlerType] /\ \A g \in Handlers : GoodRequest(g)'
  <2>1. "view" \in Ops /\ "row" \in Places
    BY DEF Ops, Places
  <2>2. Request("view", "row", r) \in HandlerType /\ Request("view", "row", r).at = "row" /\ Request("view", "row", r).op = "view"
    BY <2>1, Empty
  <2>3. status[r] = "none" /\ \A q \in Guests \ {r} : status'[q] = status[q]
    BY <1>0, <1>2
  <2> QED
    BY <1>4, <1>5, <2>2, <2>3, Writes
<1>7. OneLockPerSlot' /\ LocksMatchBooking'
  <2>1. \A l \in B : l.owner = r /\ l.table \in Candidate(h) /\ l.slot \in handler[h].time
    BY DEF Booking
  <2>2. \A l \in locks : ~ (l.table \in Candidate(h) /\ l.slot \in handler[h].time)
    BY DEF Book, ConstraintsHold, Taken
  <2>3. OneLockPerSlot'
    BY <1>4, <2>1, <2>2 DEF OneLockPerSlot, Inv, BookingInv
  <2>4. \A q \in Guests \ {r} : Owned(q)' = Owned(q)
    BY <1>4, <2>1 DEF Owned
  <2>5. Owned(r)' = Owned(r) \cup B
    BY <1>4, <2>1 DEF Owned
  <2>6. ASSUME r \notin missed PROVE Owned(r) = {}
    BY <1>0, <2>6 DEF Inv, BookingInv, LocksMatchBooking, Live, Modifiable
  <2>7. status'[r] \in Live
    BY <1>2 DEF Live, Modifiable
  <2>8. \A q \in Guests \ {r} : Booking(q, assigned[q], Held(q))' = Booking(q, assigned[q], Held(q))
    BY <1>2, <1>4 DEF Booking, Held
  <2>9. Booking(r, assigned[r], Held(r))' = B
    BY <1>0, <1>2, <1>4 DEF Booking, Held
  <2>10. ASSUME NEW q \in Guests \ missed PROVE Owned(q)' = IF status'[q] \in Live THEN Booking(q, assigned[q], Held(q))' ELSE {}
    <3>1. CASE q = r
      BY <2>5, <2>6, <2>7, <2>9, <3>1
    <3>2. CASE q # r
      BY <1>2, <2>4, <2>8, <3>2 DEF Inv, BookingInv, LocksMatchBooking
    <3> QED
      BY <3>1, <3>2
  <2>11. LocksMatchBooking'
    BY <1>4, <2>10 DEF LocksMatchBooking
  <2> QED
    BY <2>3, <2>11
<1>8. NotBooked' /\ WalkInsSat'
  <2>1. NotBooked'
    BY <1>0, <1>2 DEF Inv, BookingInv, NotBooked
  <2>2. WalkInsSat'
    BY <1>0, <1>2, <1>4, WalkInsStay
  <2> QED
    BY <2>1, <2>2
<1>9. TableOpenedForSeated'
  BY <1>0, <1>2, <1>4, TablesStay
<1>10. DepositInv'
  BY <1>0, <1>2, <1>4 DEF Inv, DepositInv, DepositSettled, DepositSpentOnce
<1> QED
  BY <1>0, <1>3, <1>4, <1>6, <1>7, <1>8, <1>9, <1>10 DEF Inv, ReservationsType, BookingInv

\* The batch of modifyReservation.
LEMMA RebookStep ==
  ASSUME Inv, NEW h \in Handlers, NEW r \in Guests, Rebook(h, r)
  PROVE  Inv'
<1> DEFINE B == Booking(r, Candidate(h), handler[h].time)
<1>0. /\ ReservationsType /\ handler[h] \in HandlerType /\ handler[h].for = {r} /\ status[r] # "none"
      /\ handler[h].at = "book" /\ handler[h].op = "modify" /\ handler[h].stale \in BOOLEAN
  BY DEF Inv, ReservationsType, Rebook, At, GoodRequest, GoodChange, HandlerType
<1>1. Candidate(h) \in SUBSET Tables /\ handler[h].time \in SUBSET UNION Times
  <2>1. handler[h].tables # <<>> /\ handler[h].tables \in Seq(SUBSET Tables)
    BY <1>0 DEF Inv, GoodRequest, GoodChange, HandlerType
  <2> QED
    BY <1>0, <2>1 DEF Candidate, HandlerType
<1>2. /\ UNCHANGED <<status, session, deposit, intent, credit, worker, walkIn>>
      /\ locks' = (locks \ Owned(r)) \cup B /\ assigned' = [assigned EXCEPT ![r] = Candidate(h)]
      /\ slots' \in {slots, [slots EXCEPT ![r] = handler[h].time]}
      /\ missed' \in {missed, missed \cup {r}}
  BY DEF Rebook, Replaced, money
<1>3. slots' \in [Guests -> SUBSET UNION Times] /\ assigned' \in [Guests -> SUBSET Tables]
      /\ \A q \in Guests \ {r} : slots'[q] = slots[q] /\ assigned'[q] = assigned[q]
  BY <1>0, <1>1, <1>2 DEF ReservationsType
<1>4. handler' \in [Handlers -> HandlerType] /\ \A g \in Handlers : GoodRequest(g)'
  <2>1. \A q \in Guests : Safe(q)
    BY <1>2 DEF Safe
  <2>2. CASE handler[h].stale
    <3>1. handler' = [handler EXCEPT ![h] = Idle]
      BY <2>2 DEF Rebook, Answer
    <3> QED
      BY <1>2, <2>1, <3>1, Empty, Writes
  <2>3. CASE ~ handler[h].stale
    <3>1. "view" \in Ops /\ "row" \in Places
      BY DEF Ops, Places
    <3>2. Request("view", "row", r) \in HandlerType /\ Request("view", "row", r).at = "row" /\ Request("view", "row", r).op = "view"
      BY <3>1, Empty
    <3>3. handler' = [Touched(handler, r) EXCEPT ![h] = Request("view", "row", r)]
      BY <2>3 DEF Rebook
    <3> QED
      BY <1>2, <2>1, <3>2, <3>3, Writes
  <2> QED
    BY <2>2, <2>3
<1>5. OneLockPerSlot' /\ LocksMatchBooking'
  <2>1. \A l \in B : l.owner = r /\ l.table \in Candidate(h) /\ l.slot \in handler[h].time
    BY DEF Booking
  <2>2. \A l \in locks \ Owned(r) : l \in locks /\ l.owner # r /\ ~ (l.table \in Candidate(h) /\ l.slot \in handler[h].time)
    BY DEF Rebook, ConstraintsHold, Taken, Owned
  <2>3. OneLockPerSlot'
    BY <1>2, <2>1, <2>2 DEF OneLockPerSlot, Inv, BookingInv
  <2>4. \A q \in Guests \ {r} : Owned(q)' = Owned(q)
    BY <1>2, <2>1, <2>2 DEF Owned
  <2>5. Owned(r)' = B
    BY <1>2, <2>1, <2>2 DEF Owned
  <2>6. ASSUME r \notin missed' PROVE status'[r] \in Live /\ slots'[r] = handler[h].time /\ r \notin walkIn'
    <3>1. ~ handler[h].stale /\ handler[h].saw \in Modifiable
      BY <2>6 DEF Rebook
    <3>2. status[r] = handler[h].saw
      BY <1>0, <3>1 DEF Inv, GoodRequest, GoodChange
    <3>3. slots' = [slots EXCEPT ![r] = handler[h].time]
      BY <3>1 DEF Rebook
    <3> QED
      BY <1>0, <1>2, <3>1, <3>2, <3>3 DEF Live, ReservationsType, Inv, BookingInv, WalkInsSat
  <2>7. \A q \in Guests \ {r} : Booking(q, assigned[q], Held(q))' = Booking(q, assigned[q], Held(q))
    BY <1>2, <1>3 DEF Booking, Held
  <2>8. assigned'[r] = Candidate(h)
    BY <1>0, <1>2 DEF ReservationsType
  <2>9. ASSUME r \notin missed' PROVE Booking(r, assigned[r], Held(r))' = B
    BY <2>6, <2>8, <2>9 DEF Booking, Held
  <2>10. ASSUME NEW q \in Guests \ missed'
         PROVE  Owned(q)' = IF status'[q] \in Live THEN Booking(q, assigned[q], Held(q))' ELSE {}
    <3>1. CASE q = r
      BY <2>5, <2>6, <2>9, <2>10, <3>1
    <3>2. CASE q # r
      BY <1>2, <2>4, <2>7, <2>10, <3>2 DEF Inv, BookingInv, LocksMatchBooking
    <3> QED
      BY <3>1, <3>2
  <2>11. LocksMatchBooking'
    BY <2>10 DEF LocksMatchBooking
  <2> QED
    BY <2>3, <2>11
<1>6. NotBooked' /\ WalkInsSat'
  BY <1>0, <1>2, <1>3, WalkInsStay DEF Inv, BookingInv, NotBooked
<1>7. TableOpenedForSeated' /\ DepositInv'
  BY <1>2, TablesStay, DepositsStay
<1> QED
  BY <1>0, <1>2, <1>3, <1>4, <1>5, <1>6, <1>7 DEF Inv, ReservationsType, BookingInv

\* The batch of cancelReservation.
LEMMA CancelStep ==
  ASSUME Inv, NEW h \in Handlers, NEW r \in Guests, Cancel(h, r)
  PROVE  Inv'
<1>0. ReservationsType /\ status[r] \in Statuses
  BY DEF Inv, ReservationsType
<1>1. /\ UNCHANGED <<slots, session, deposit, intent, credit, worker, walkIn, missed>>
      /\ assigned' = [assigned EXCEPT ![r] = {}]
      /\ \A q \in Guests \ {r} : status'[q] = status[q] /\ assigned'[q] = assigned[q]
      /\ status'[r] = IF status[r] \in Ended THEN status[r] ELSE "CANCELLED"
  BY <1>0 DEF Cancel, money, ReservationsType
<1>2. status' \in [Guests -> Statuses] /\ assigned' \in [Guests -> SUBSET Tables] /\ status'[r] \in Ended
  BY <1>0, <1>1 DEF Cancel, ReservationsType, Statuses, Ended
<1>3. status'[r] \notin Live \cup {"none", "PENDING"}
  BY <1>2 DEF Ended, Live, Modifiable
<1>4. handler' \in [Handlers -> HandlerType] /\ \A g \in Handlers : GoodRequest(g)'
  <2>1. \A q \in Guests : Safe(q)
    BY <1>1, <1>3 DEF Safe
  <2>2. CASE status[r] \in Ended
    <3>1. handler' = [handler EXCEPT ![h] = Idle]
      BY <2>2 DEF Cancel
    <3> QED
      BY <1>1, <2>1, <2>2, <3>1, Empty, Writes
  <2>3. CASE status[r] \notin Ended
    <3>1. handler' = [Touched(handler, r) EXCEPT ![h] = Idle]
      BY <2>3 DEF Cancel
    <3> QED
      BY <1>1, <2>1, <3>1, Empty, Writes
  <2> QED
    BY <2>2, <2>3
<1>5. OneLockPerSlot' /\ LocksMatchBooking'
  <2>1. locks' = {l \in locks : l.owner \notin {r}}
    BY DEF Cancel, Owned
  <2>2. \A q \in Guests \ missed' : IF q \in {r} THEN status'[q] \notin Live ELSE status'[q] \in Live <=> status[q] \in Live
    BY <1>1, <1>3
  <2>3. /\ {r} \in SUBSET Guests /\ missed \subseteq missed' /\ UNCHANGED <<slots, walkIn>>
        /\ \A q \in Guests \ {r} : assigned'[q] = assigned[q]
    BY <1>1
  <2> QED
    BY <2>1, <2>2, <2>3, LocksReleased
<1>6. NotBooked' /\ WalkInsSat'
  <2>1. status'[r] \notin Modifiable \cup {"none"}
    BY <1>3 DEF Live
  <2> QED
    BY <1>1, <1>3, <2>1, WalkInsStay DEF Inv, BookingInv, NotBooked
<1>7. DepositInv'
  BY <1>1, <1>3, DepositsStay
<1>8. TableOpenedForSeated'
  BY <1>1, TablesStay
<1> QED
  BY <1>0, <1>1, <1>2, <1>4, <1>5, <1>6, <1>7, <1>8 DEF Inv, ReservationsType, BookingInv

\* What reservationTransitionAllowed lets the host do.
LEMMA AllowedMoves ==
  \A saw \in Live : \A to \in Allowed[saw] :
    /\ to \in Statuses \ {"none", "PENDING"} /\ (to \in Live \/ to \in Ended)
    /\ to = "SEATED" => saw = "CONFIRMED"
    /\ to = "NO_SHOW" => saw = "CONFIRMED"
    /\ saw = "SEATED" => to = "COMPLETED"
BY DEF Allowed, Live, Modifiable, Ended, Statuses

\* The batch of staffReservationTransition.
LEMMA MoveStep ==
  ASSUME Inv, NEW h \in Handlers, NEW r \in Guests, Move(h, r)
  PROVE  Inv'
<1> DEFINE to    == handler[h].to
           saw   == handler[h].saw
           found == status[r] = saw
           at    == IF to = "SEATED" THEN Candidate(h) ELSE {}
<1>0. /\ ReservationsType /\ handler[h] \in HandlerType /\ handler[h].at = "move"
      /\ saw \in Live /\ to \in Allowed[saw]
      /\ to = "SEATED" => \E t \in Tables : Candidate(h) = {t}
  BY DEF Inv, ReservationsType, Move, At, GoodRequest, GoodTransition, Candidate
<1>1. /\ to \in Statuses \ {"none", "PENDING"} /\ (to \in Live \/ to \in Ended)
      /\ to = "SEATED" => saw = "CONFIRMED"
      /\ to = "NO_SHOW" => saw = "CONFIRMED"
      /\ saw = "SEATED" => to = "COMPLETED"
  BY <1>0, AllowedMoves
<1>2. CASE \E t \in at : session[t] # NoBody
  <2>1. handler' = [handler EXCEPT ![h] = Idle] /\ UNCHANGED <<status, slots, assigned, locks, session, money, worker, walkIn, missed>>
    BY <1>2 DEF Move, Answer
  <2> QED
    BY <2>1, Begins, Empty
<1>3. CASE ~ \E t \in at : session[t] # NoBody
  <2>1. /\ status' = IF found THEN [status EXCEPT ![r] = to] ELSE status
        /\ locks' = IF to \in Ended THEN locks \ Owned(r) ELSE locks
        /\ session' = [t \in Tables |-> IF t \in at THEN r ELSE session[t]]
        /\ missed' = IF found THEN missed ELSE missed \cup {r}
        /\ handler' = [IF found THEN Touched(handler, r) ELSE handler EXCEPT ![h] = Idle]
        /\ UNCHANGED <<slots, assigned, deposit, intent, credit, worker, walkIn>>
    BY <1>3 DEF Move, money
  <2>2. /\ \A q \in Guests \ {r} : status'[q] = status[q]
        /\ status'[r] = IF found THEN to ELSE status[r]
        /\ status' \in [Guests -> Statuses]
    BY <1>0, <1>1, <2>1 DEF ReservationsType
  <2>3. session' \in [Tables -> Guests \cup {NoBody, "QR"}] /\ missed' \subseteq Guests /\ missed \subseteq missed'
    BY <1>0, <2>1 DEF ReservationsType
  <2>4. handler' \in [Handlers -> HandlerType] /\ \A g \in Handlers : GoodRequest(g)'
    <3>1. \A q \in Guests : Safe(q)
      BY <1>1, <2>1, <2>2 DEF Safe
    <3>2. CASE found
      <4>1. handler' = [Touched(handler, r) EXCEPT ![h] = Idle]
        BY <2>1, <3>2
      <4> QED
        BY <2>2, <3>1, <4>1, Empty, Writes
    <3>3. CASE ~ found
      <4>1. handler' = [handler EXCEPT ![h] = Idle] /\ status'[r] = status[r]
        BY <2>1, <2>2, <3>3
      <4> QED
        BY <2>2, <3>1, <4>1, Empty, Writes
    <3> QED
      BY <3>2, <3>3
  <2>5. r \notin missed' => found
    BY <2>1
  <2>6. OneLockPerSlot' /\ LocksMatchBooking'
    <3>1. CASE to \in Ended
      <4>1. locks' = {l \in locks : l.owner \notin {r}}
        BY <2>1, <3>1 DEF Owned
      <4>2. to \notin Live
        BY <3>1 DEF Ended, Live, Modifiable
      <4>3. \A q \in Guests \ missed' : IF q \in {r} THEN status'[q] \notin Live ELSE status'[q] \in Live <=> status[q] \in Live
        BY <2>2, <2>5, <4>2
      <4> HIDE DEF to, found, saw, at
      <4> QED
        BY <2>1, <2>3, <4>1, <4>3, LocksReleased
    <3>2. CASE to \notin Ended
      <4>1. \A q \in Guests \ missed' : status'[q] \in Live <=> status[q] \in Live
        BY <1>0, <1>1, <2>2, <2>5, <3>2
      <4>2. UNCHANGED <<slots, assigned, locks, walkIn>>
        BY <2>1, <3>2
      <4> QED
        BY <2>3, <4>1, <4>2, LocksStay
    <3> QED
      BY <3>1, <3>2
  <2>7. NotBooked' /\ WalkInsSat'
    <3>1. NotBooked'
      BY <1>1, <2>1, <2>2 DEF Inv, BookingInv, NotBooked
    <3>2. saw \in Modifiable \/ to = "COMPLETED"
      BY <1>0, <1>1 DEF Live
    <3>3. "COMPLETED" \notin Modifiable \cup {"none"}
      BY DEF Modifiable
    <3>4. \/ status'[r] = status[r] \/ status[r] \in Modifiable \cup {"none"}
          \/ status'[r] \notin Modifiable \cup {"none"}
      BY <2>2, <3>2, <3>3
    <3>5. WalkInsSat'
      BY <2>1, <2>2, <3>4, WalkInsStay
    <3> QED
      BY <3>1, <3>5
  <2>8. DepositInv'
    BY <1>1, <2>1, <2>2, DepositsStay
  <2>9. TableOpenedForSeated'
    <3>1. CASE to = "SEATED"
      <4>1. PICK t \in Tables : at = {t}
        BY <1>0, <3>1
      <4>2. session'[t] = r /\ \A u \in Tables \ {t} : session'[u] = session[u]
        BY <2>1, <4>1
      <4>3. ASSUME r \notin missed' PROVE status'[r] = "SEATED" /\ \A u \in Tables : session[u] # r
        <5>1. status[r] = "CONFIRMED" /\ r \notin missed
          BY <1>1, <2>1, <2>5, <3>1, <4>3
        <5>2. "CONFIRMED" \in Modifiable
          BY DEF Modifiable
        <5> QED
          BY <2>2, <2>5, <3>1, <4>3, <5>1, <5>2 DEF Inv, TableOpenedForSeated
      <4>4. "SEATED" \notin Modifiable \cup {"none", "NO_SHOW"}
        BY DEF Modifiable
      <4>5. ASSUME NEW u \in Tables, NEW q \in Guests \ missed', session'[u] = q
            PROVE  status'[q] \notin Modifiable \cup {"none", "NO_SHOW"} /\ \A v \in Tables : session'[v] = q => v = u
        <5>1. CASE q = r
          BY <4>2, <4>3, <4>4, <4>5, <5>1
        <5>2. CASE q # r
          BY <2>2, <2>3, <4>2, <4>5, <5>2 DEF Inv, TableOpenedForSeated
        <5> QED
          BY <5>1, <5>2
      <4> QED
        BY <4>5 DEF TableOpenedForSeated
    <3>2. CASE to # "SEATED"
      <4>1. session' = session
        BY <1>0, <2>1, <3>2 DEF ReservationsType
      <4>2. saw \in Modifiable \/ to = "COMPLETED"
        BY <1>0, <1>1 DEF Live
      <4>3. \A q \in Guests \ missed' : \/ status'[q] = status[q] \/ status[q] \in Modifiable \cup {"none"}
                                        \/ status'[q] \in {"CANCELLED", "COMPLETED"}
        BY <2>2, <2>5, <4>2
      <4> QED
        BY <2>3, <4>1, <4>3, TablesStay
    <3> QED
      BY <3>1, <3>2
  <2> QED
    BY <1>0, <2>1, <2>2, <2>3, <2>4, <2>6, <2>7, <2>8, <2>9 DEF Inv, ReservationsType, BookingInv
<1> QED
  BY <1>2, <1>3

\* Requests that are not affected when no request moves.
LEMMA NobodyMoves ==
  ASSUME Inv, UNCHANGED handler, \A q \in Guests : Safe(q),
         \A q \in Guests : status'[q] = status[q] \/ status[q] = "none"
  PROVE  handler' \in [Handlers -> HandlerType] /\ \A g \in Handlers : GoodRequest(g)'
<1>0. handler \in [Handlers -> HandlerType]
  BY DEF Inv, ReservationsType
<1>1. ASSUME NEW g \in Handlers PROVE GoodRequest(g)'
  <2>1. Goes(g)
    BY DEF Goes
  <2>2. \A q \in handler[g].for : q \in Guests /\ (handler[g].op = "modify" => status[q] # "none")
    BY <1>0, OneReservation DEF Inv, GoodRequest, GoodChange
  <2> QED
    BY <2>1, <2>2, OthersKeep DEF Safe, Inv
<1> QED
  BY <1>0, <1>1

\* Walk-ins, scans of a table's code and closed tables.
LEMMA TableSteps ==
  ASSUME Inv, \/ \E r \in Guests, t \in Tables, time \in Times : SeatWalkIn(r, t, time)
              \/ \E t \in Tables : OpenTableSession(t) \/ CloseTableSession(t)
  PROVE  Inv'
<1>0. ReservationsType
  BY DEF Inv
<1>1. ASSUME NEW r \in Guests, NEW t \in Tables, NEW time \in Times, SeatWalkIn(r, t, time) PROVE Inv'
  <2>1. /\ UNCHANGED <<locks, deposit, intent, credit, handler, worker, missed>> /\ walkIn' = walkIn \cup {r}
        /\ status[r] = "none" /\ status'[r] = "SEATED" /\ slots' = [slots EXCEPT ![r] = time]
        /\ \A q \in Guests \ {r} : status'[q] = status[q] /\ assigned'[q] = assigned[q] /\ slots'[q] = slots[q]
        /\ session'[t] = r /\ \A u \in Tables \ {t} : session'[u] = session[u]
    BY <1>0, <1>1 DEF SeatWalkIn, money, ReservationsType
  <2>2. status' \in [Guests -> Statuses] /\ assigned' \in [Guests -> SUBSET Tables]
        /\ session' \in [Tables -> Guests \cup {NoBody, "QR"}]
        /\ slots' \in [Guests -> SUBSET UNION Times] /\ walkIn' \subseteq Guests
    <3>1. time \in SUBSET UNION Times
      OBVIOUS
    <3> QED
      BY <1>0, <1>1, <3>1 DEF SeatWalkIn, ReservationsType, Statuses, Live
  <2>3. handler' \in [Handlers -> HandlerType] /\ \A g \in Handlers : GoodRequest(g)'
    <3>1. \A q \in Guests : Safe(q)
      BY <2>1 DEF Safe
    <3> QED
      BY <2>1, <3>1, NobodyMoves
  <2>4. OneLockPerSlot'
    BY <2>1 DEF Inv, BookingInv, OneLockPerSlot
  <2>5. LocksMatchBooking'
    <3>1. \A q \in Guests : Owned(q)' = Owned(q)
      BY <2>1 DEF Owned
    <3>2. Booking(r, assigned[r], Held(r))' = {}
      BY <2>1 DEF Booking, Held
    <3>3. r \notin missed => Owned(r) = {}
      BY <2>1 DEF Inv, BookingInv, LocksMatchBooking, Live, Modifiable
    <3>4. \A q \in Guests \ {r} : Booking(q, assigned[q], Held(q))' = Booking(q, assigned[q], Held(q))
      BY <2>1 DEF Booking, Held
    <3>5. ASSUME NEW q \in Guests \ missed
          PROVE  Owned(q)' = IF status'[q] \in Live THEN Booking(q, assigned[q], Held(q))' ELSE {}
      <4>1. CASE q = r
        BY <3>1, <3>2, <3>3, <3>5, <4>1
      <4>2. CASE q # r
        BY <2>1, <3>1, <3>4, <3>5, <4>2 DEF Inv, BookingInv, LocksMatchBooking
      <4> QED
        BY <4>1, <4>2
    <3> QED
      BY <2>1, <3>5 DEF LocksMatchBooking
  <2>6. NotBooked' /\ WalkInsSat' /\ DepositInv'
    <3>1. NotBooked'
      BY <2>1 DEF Inv, BookingInv, NotBooked
    <3>2. DepositInv'
      BY <2>1, DepositsStay
    <3>3. "SEATED" \notin Modifiable \cup {"none"}
      BY DEF Modifiable
    <3>4. WalkInsSat'
      BY <1>0, <2>1, <3>3 DEF Inv, BookingInv, WalkInsSat, ReservationsType
    <3> QED
      BY <3>1, <3>2, <3>4
  <2>7. TableOpenedForSeated'
    <3>1. r \notin missed => \A u \in Tables : session[u] # r
      BY <2>1 DEF Inv, TableOpenedForSeated
    <3>2. "SEATED" \notin Modifiable \cup {"none", "NO_SHOW"}
      BY DEF Modifiable
    <3>3. ASSUME NEW u \in Tables, NEW q \in Guests \ missed, session'[u] = q
          PROVE  status'[q] \notin Modifiable \cup {"none", "NO_SHOW"} /\ \A v \in Tables : session'[v] = q => v = u
      <4>1. CASE q = r
        BY <2>1, <3>1, <3>2, <3>3, <4>1
      <4>2. CASE q # r
        BY <2>1, <3>3, <4>2 DEF Inv, TableOpenedForSeated
      <4> QED
        BY <4>1, <4>2
    <3> QED
      BY <2>1, <3>3 DEF TableOpenedForSeated
  <2> QED
    BY <1>0, <2>1, <2>2, <2>3, <2>4, <2>5, <2>6, <2>7 DEF Inv, ReservationsType, BookingInv
<1>2. ASSUME NEW t \in Tables, OpenTableSession(t) \/ CloseTableSession(t) PROVE Inv'
  <2>1. /\ UNCHANGED <<status, slots, assigned, locks, deposit, intent, credit, handler, worker, walkIn, missed>>
        /\ session'[t] \in {NoBody, "QR"} /\ \A u \in Tables \ {t} : session'[u] = session[u]
        /\ session' \in [Tables -> Guests \cup {NoBody, "QR"}]
    BY <1>0, <1>2 DEF OpenTableSession, CloseTableSession, money, ReservationsType
  <2>2. handler' \in [Handlers -> HandlerType] /\ \A g \in Handlers : GoodRequest(g)'
    <3>1. \A q \in Guests : Safe(q)
      BY <2>1 DEF Safe
    <3> QED
      BY <2>1, <3>1, NobodyMoves
  <2>3. BookingInv' /\ DepositInv'
    <3>1. NotBooked' /\ WalkInsSat'
      BY <2>1, WalkInsStay DEF Inv, BookingInv, NotBooked
    <3>2. OneLockPerSlot' /\ LocksMatchBooking'
      BY <2>1, LocksStay
    <3>3. DepositInv'
      BY <2>1, DepositsStay
    <3> QED
      BY <3>1, <3>2, <3>3 DEF BookingInv
  <2>4. \A q \in Guests : session'[t] # q
    BY <2>1, ReservationsAssumption DEF NoBody
  <2>5. TableOpenedForSeated'
    BY <2>1, <2>4 DEF Inv, TableOpenedForSeated
  <2> QED
    BY <1>0, <2>1, <2>2, <2>3, <2>5 DEF Inv, ReservationsType
<1> QED
  BY <1>1, <1>2

\* The steps of deposits and payments: reservations stay as they are, but for those that
\* a paid deposit confirms.
LEMMA FundsOnly ==
  ASSUME Inv, UNCHANGED <<slots, assigned, locks, session, worker, walkIn, missed>>,
         status' \in [Guests -> Statuses],
         \A q \in Guests : status'[q] = status[q] \/ (status[q] = "PENDING" /\ status'[q] = "CONFIRMED"),
         deposit' \in [Guests -> [status : Funds, linked : BOOLEAN]],
         \A q \in Guests : \/ deposit'[q] = deposit[q]
                           \/ deposit[q].status # "none" /\ deposit'[q].status # "none",
         intent' \in [Guests -> {"none", "open", "failed", "paid"}], credit' \in [Guests -> {0, 1}],
         handler' \in [Handlers -> HandlerType], \A g \in Handlers : GoodRequest(g)', DepositInv'
  PROVE  Inv'
<1>1. {"PENDING", "CONFIRMED"} \subseteq Live /\ "PENDING" \in Modifiable
  BY DEF Live, Modifiable
<1>2. OneLockPerSlot' /\ LocksMatchBooking'
  BY <1>1, LocksStay
<1>3. NotBooked' /\ WalkInsSat'
  BY <1>1, WalkInsStay DEF Inv, BookingInv, NotBooked
<1>4. TableOpenedForSeated'
  BY <1>1, TablesStay
<1> QED
  BY <1>2, <1>3, <1>4 DEF Inv, ReservationsType, BookingInv

\* The batch of refreshReservationDeposit.
LEMMA RefreshStep ==
  ASSUME Inv, NEW h \in Handlers, NEW r \in Guests, RefreshReservationDeposit(h, r)
  PROVE  Inv'
<1> DEFINE next == handler[h].to
           saw  == handler[h].saw
           hit  == next = "CONFIRMED" /\ status[r] \in {"PENDING", "CONFIRMED"}
<1>0. /\ ReservationsType /\ handler[h] \in HandlerType /\ handler[h].for = {r}
      /\ next \in {"CONFIRMED", "FAILED", "PENDING"} /\ saw \notin {"CONFIRMED", "APPLIED"}
      /\ next = "CONFIRMED" => intent[r] = "paid"
      /\ saw # "none" /\ deposit[r] \in [status : Funds, linked : BOOLEAN]
  BY DEF Inv, ReservationsType, RefreshReservationDeposit, At, GoodRequest, GoodFund
<1>1. /\ UNCHANGED <<slots, assigned, locks, session, intent, credit, worker, walkIn, missed>>
      /\ deposit' = [deposit EXCEPT ![r].status = RefreshedDeposit(@, saw, next)]
      /\ status' = [status EXCEPT ![r] = Confirmed(r, next)]
      /\ handler' = [IF hit THEN Touched(handler, r) ELSE handler EXCEPT ![h] = AfterRefresh(h, r)]
  BY DEF RefreshReservationDeposit
<1>2. /\ \A q \in Guests \ {r} : status'[q] = status[q] /\ deposit'[q] = deposit[q]
      /\ deposit'[r].status = IF deposit[r].status = saw THEN next ELSE deposit[r].status
      /\ status'[r] = IF next = "CONFIRMED" /\ status[r] = "PENDING" THEN "CONFIRMED" ELSE status[r]
  BY <1>0, <1>1 DEF ReservationsType, RefreshedDeposit, Confirmed
<1>3. /\ status' \in [Guests -> Statuses]
      /\ deposit' \in [Guests -> [status : Funds, linked : BOOLEAN]]
  <2>1. "CONFIRMED" \in Statuses /\ next \in Funds
    BY <1>0 DEF Statuses, Live, Modifiable, Funds, Unpaid
  <2>2. RefreshedDeposit(deposit[r].status, saw, next) \in Funds /\ Confirmed(r, next) \in Statuses
    BY <1>0, <2>1 DEF RefreshedDeposit, Confirmed, ReservationsType
  <2> QED
    BY <1>0, <1>1, <2>2 DEF ReservationsType
<1> HIDE DEF next, saw
<1>4. handler' \in [Handlers -> HandlerType] /\ \A g \in Handlers : GoodRequest(g)'
  <2>1. \A q \in Guests : Safe(q)
    BY <1>0, <1>1, <1>2 DEF Safe
  <2>2. AfterRefresh(h, r) \in HandlerType /\ AfterRefresh(h, r).at \in {"deposit", "idle"} /\ AfterRefresh(h, r).op # "modify"
    <3>1. "deposit" \in Places /\ {"pay", "apply"} \subseteq Ops
      BY DEF Places, Ops
    <3>2. CASE handler[h].op \in {"pay", "apply"}
      BY <3>1, <3>2, Empty DEF AfterRefresh
    <3>3. CASE handler[h].op \notin {"pay", "apply"}
      BY <3>3, Empty DEF AfterRefresh
    <3> QED
      BY <3>2, <3>3
  <2>3. CASE hit
    <3>1. handler' = [Touched(handler, r) EXCEPT ![h] = AfterRefresh(h, r)]
      BY <1>1, <2>3
    <3> QED
      BY <1>2, <2>1, <2>2, <3>1, Writes
  <2>4. CASE ~ hit
    <3>1. handler' = [handler EXCEPT ![h] = AfterRefresh(h, r)] /\ status'[r] = status[r]
      BY <1>1, <1>2, <2>4
    <3> QED
      BY <1>2, <2>1, <2>2, <3>1, Writes
  <2> QED
    BY <2>3, <2>4
<1>5. DepositSettled'
  BY <1>0, <1>1, <1>2 DEF Inv, DepositInv, DepositSettled
<1>6. DepositSpentOnce'
  BY <1>0, <1>1, <1>2 DEF Inv, DepositInv, DepositSpentOnce
<1>7. deposit'[r] = deposit[r] \/ (deposit[r].status # "none" /\ deposit'[r].status # "none")
  <2>1. CASE deposit[r].status = saw
    BY <1>0, <1>2, <2>1
  <2>2. CASE deposit[r].status # saw
    BY <1>0, <1>1, <2>2 DEF RefreshedDeposit, ReservationsType
  <2> QED
    BY <2>1, <2>2
<1>8. /\ \A q \in Guests : status'[q] = status[q] \/ (status[q] = "PENDING" /\ status'[q] = "CONFIRMED")
      /\ \A q \in Guests : \/ deposit'[q] = deposit[q]
                           \/ deposit[q].status # "none" /\ deposit'[q].status # "none"
  BY <1>2, <1>7
<1>9. /\ intent' \in [Guests -> {"none", "open", "failed", "paid"}] /\ credit' \in [Guests -> {0, 1}]
      /\ UNCHANGED <<slots, assigned, locks, session, worker, walkIn, missed>> /\ DepositInv'
  BY <1>0, <1>1, <1>5, <1>6 DEF ReservationsType, DepositInv
<1> QED
  BY <1>3, <1>4, <1>8, <1>9, FundsOnly

\* The guest pays, or does not.
LEMMA SettleStep == ASSUME Inv, NEW r \in Guests, Settle(r) PROVE Inv'
<1>0. ReservationsType /\ UNCHANGED <<status, slots, assigned, locks, session, worker, walkIn, missed>>
  BY DEF Inv, Settle
<1>1. /\ intent' \in [Guests -> {"none", "open", "failed", "paid"}] /\ UNCHANGED <<deposit, credit, handler>>
      /\ \A q \in Guests : intent[q] = "paid" => intent'[q] = "paid"
  BY <1>0 DEF ReservationsType, Settle
<1>2. \A q \in Guests : Safe(q)
  BY <1>0, <1>1 DEF Safe
<1>3. handler' \in [Handlers -> HandlerType] /\ \A g \in Handlers : GoodRequest(g)'
  BY <1>0, <1>1, <1>2, NobodyMoves
<1>4. DepositInv'
  BY <1>0, <1>1 DEF Inv, DepositInv, DepositSettled, DepositSpentOnce
<1>5. status' \in [Guests -> Statuses] /\ credit' \in [Guests -> {0, 1}]
      /\ deposit' \in [Guests -> [status : Funds, linked : BOOLEAN]]
  BY <1>0, <1>1 DEF ReservationsType
<1> QED
  BY <1>0, <1>1, <1>3, <1>4, <1>5, FundsOnly

\* The payment of a deposit, and its use.
LEMMA PaymentSteps ==
  ASSUME Inv, NEW h \in Handlers, NEW r \in Guests, Initiate(h, r) \/ Link(h, r) \/ Apply(h, r)
  PROVE  Inv'
<1>0. /\ ReservationsType /\ handler \in [Handlers -> HandlerType] /\ handler[h] \in HandlerType /\ GoodRequest(h)
      /\ deposit[r] \in [status : Funds, linked : BOOLEAN] /\ credit[r] \in {0, 1} /\ status[r] \in Statuses
      /\ UNCHANGED <<status, slots, assigned, locks, session, worker, walkIn, missed>>
  BY DEF Inv, ReservationsType, Initiate, Link, Apply
<1>1. ASSUME deposit' \in [Guests -> [status : Funds, linked : BOOLEAN]],
             intent' \in [Guests -> {"none", "open", "failed", "paid"}], credit' \in [Guests -> {0, 1}],
             \A q \in Guests : \/ deposit'[q] = deposit[q]
                               \/ deposit[q].status # "none" /\ deposit'[q].status # "none",
             handler' \in [Handlers -> HandlerType], \A g \in Handlers : GoodRequest(g)', DepositInv'
      PROVE  Inv'
  <2>1. status' \in [Guests -> Statuses]
    BY <1>0 DEF ReservationsType
  <2>2. \A q \in Guests : status'[q] = status[q]
    BY <1>0
  <2> QED
    BY <1>0, <1>1, <2>1, <2>2, FundsOnly
<1>2. CASE Initiate(h, r)
  <2>1. PICK ok \in BOOLEAN :
          /\ intent' = [intent EXCEPT ![r] = IF @ # "none" THEN @ ELSE IF ok THEN "open" ELSE "failed"]
          /\ handler' = [handler EXCEPT ![h].at = "link", ![h].to = IF ok THEN "PENDING" ELSE "FAILED"]
    BY <1>2 DEF Initiate
  <2> DEFINE new == IF ok THEN "PENDING" ELSE "FAILED"
             x == [handler[h] EXCEPT !.at = "link", !.to = new]
  <2>2. /\ intent' \in [Guests -> {"none", "open", "failed", "paid"}] /\ UNCHANGED <<deposit, credit>>
        /\ \A q \in Guests : intent[q] = "paid" => intent'[q] = "paid"
    BY <1>0, <1>2, <2>1 DEF ReservationsType, Initiate
  <2>3. "link" \in Places /\ new \in {"PENDING", "FAILED"} /\ {"PENDING", "FAILED"} \subseteq Funds
    BY DEF Places, Funds, Unpaid
  <2>4. handler' = [handler EXCEPT ![h] = x]
    BY <1>0, <2>1
  <2> HIDE DEF new
  <2>5. x \in HandlerType /\ x.at = "link" /\ x.to = new /\ x.op = handler[h].op /\ x.for = handler[h].for
    BY <1>0, <2>3 DEF HandlerType
  <2> HIDE DEF x
  <2>6. handler'[h] = x /\ handler' \in [Handlers -> HandlerType] /\ \A g \in Handlers \ {h} : handler'[g] = handler[g]
    BY <1>0, <2>4, <2>5
  <2>7. GoodRequest(h)'
    BY <1>0, <2>3, <2>5, <2>6 DEF GoodRequest, GoodChange, GoodTransition, GoodFund
  <2>8. \A g \in Handlers \ {h} : GoodRequest(g)'
    <3>1. ASSUME NEW g \in Handlers \ {h} PROVE GoodRequest(g)'
      <4>1. Goes(g) /\ GoodRequest(g)
        BY <2>6 DEF Goes, Inv
      <4>2. \A q \in handler[g].for : q \in Guests
        BY <1>0, OneReservation
      <4> QED
        BY <1>0, <2>2, <4>1, <4>2, OthersKeep
    <3> QED
      BY <3>1
  <2>9. DepositInv'
    BY <1>0, <2>2 DEF Inv, DepositInv, DepositSettled, DepositSpentOnce
  <2> QED
    BY <1>0, <1>1, <2>2, <2>6, <2>7, <2>8, <2>9 DEF ReservationsType
<1>4. CASE Link(h, r)
  <2>1. handler[h].to \in {"PENDING", "FAILED"} /\ {"PENDING", "FAILED"} \subseteq Funds
    BY <1>0, <1>4 DEF Link, At, GoodRequest, GoodFund, Funds, Unpaid
  <2>2. /\ UNCHANGED <<intent, credit>> /\ handler' = [handler EXCEPT ![h] = Request("view", "row", r)]
        /\ deposit' = IF deposit[r].status \in Unpaid
                      THEN [deposit EXCEPT ![r] = [status |-> handler[h].to, linked |-> TRUE]] ELSE deposit
    BY <1>4 DEF Link, Linkable, Then
  <2>3. /\ deposit' \in [Guests -> [status : Funds, linked : BOOLEAN]]
        /\ \A q \in Guests \ {r} : deposit'[q] = deposit[q]
        /\ deposit'[r] = deposit[r] \/ (deposit[r].status \in Unpaid /\ deposit'[r].status \in {"PENDING", "FAILED"})
    BY <1>0, <2>1, <2>2 DEF ReservationsType
  <2>4. \A q \in Guests : Safe(q)
    BY <1>0, <2>2, <2>3 DEF Safe, Unpaid
  <2>5. handler' \in [Handlers -> HandlerType] /\ \A g \in Handlers : GoodRequest(g)'
    <3>1. "view" \in Ops /\ "row" \in Places
      BY DEF Ops, Places
    <3>2. Request("view", "row", r) \in HandlerType /\ Request("view", "row", r).at = "row" /\ Request("view", "row", r).op = "view"
      BY <3>1, Empty
    <3> QED
      BY <1>0, <2>2, <2>4, <3>2, Writes
  <2>6. DepositInv'
    BY <1>0, <2>2, <2>3 DEF Inv, DepositInv, DepositSettled, DepositSpentOnce, Unpaid
  <2>7. \A q \in Guests : \/ deposit'[q] = deposit[q]
                          \/ deposit[q].status # "none" /\ deposit'[q].status # "none"
    BY <2>3 DEF Unpaid
  <2> QED
    BY <1>0, <1>1, <2>2, <2>3, <2>5, <2>6, <2>7 DEF ReservationsType
<1>5. CASE Apply(h, r)
  <2>1. deposit[r].status \in {"CONFIRMED", "APPLIED"}
    BY <1>0, <1>5 DEF Apply, At, GoodRequest, GoodFund
  <2>2. handler' = [handler EXCEPT ![h] = Idle] /\ UNCHANGED intent
    BY <1>5 DEF Apply, Answer
  <2>3. CASE credit[r] = 0
    <3>1. deposit[r].status = "CONFIRMED"
      BY <2>1, <2>3 DEF Inv, DepositInv, DepositSpentOnce
    <3>2. credit' = [credit EXCEPT ![r] = 1] /\ deposit' = [deposit EXCEPT ![r].status = "APPLIED"]
      BY <1>0, <1>5, <2>3, <3>1 DEF Apply, ReservationsType
    <3>3. "APPLIED" \in Funds
      BY DEF Funds
    <3>4. /\ deposit' \in [Guests -> [status : Funds, linked : BOOLEAN]]
          /\ credit' \in [Guests -> {0, 1}]
          /\ \A q \in Guests \ {r} : deposit'[q] = deposit[q] /\ credit'[q] = credit[q]
          /\ deposit'[r].status = "APPLIED" /\ credit'[r] = 1
      BY <1>0, <3>2, <3>3 DEF ReservationsType
    <3>5. \A q \in Guests : Safe(q)
      BY <1>0, <2>2, <3>4 DEF Safe
    <3>6. handler' \in [Handlers -> HandlerType] /\ \A g \in Handlers : GoodRequest(g)'
      BY <1>0, <2>2, <3>5, Empty, Writes
    <3>7. DepositInv'
      BY <1>0, <2>2, <3>1, <3>4 DEF Inv, DepositInv, DepositSettled, DepositSpentOnce
    <3> QED
      BY <1>0, <1>1, <2>2, <3>1, <3>4, <3>6, <3>7 DEF ReservationsType
  <2>4. CASE credit[r] # 0
    BY <1>0, <1>5, <2>2, <2>4, Begins, Empty DEF Apply, money
  <2> QED
    BY <2>3, <2>4
<1> QED
  BY <1>2, <1>4, <1>5

\* The worker of runGuestLifecycleMaintenance.
LEMMA WorkerSteps ==
  ASSUME Inv, Expire \/ \E S \in SUBSET Guests : Select(S)
  PROVE  Inv'
<1>0. ReservationsType /\ handler \in [Handlers -> HandlerType]
  BY DEF Inv, ReservationsType
<1>1. CASE \E S \in SUBSET Guests : Select(S)
  <2>1. /\ UNCHANGED <<status, slots, assigned, locks, session, deposit, intent, credit, handler, walkIn, missed>>
        /\ worker' \subseteq Guests
    BY <1>1 DEF Select, money
  <2>2. \A q \in Guests : Safe(q)
    BY <2>1 DEF Safe
  <2>3. \A g \in Handlers : GoodRequest(g)'
    BY <2>1, <2>2, NobodyMoves
  <2>4. OneLockPerSlot' /\ LocksMatchBooking'
    BY <2>1, LocksStay
  <2>5. NotBooked' /\ WalkInsSat'
    BY <2>1, WalkInsStay DEF Inv, BookingInv, NotBooked
  <2>6. TableOpenedForSeated' /\ DepositInv'
    BY <2>1, TablesStay, DepositsStay
  <2> QED
    BY <1>0, <2>1, <2>3, <2>4, <2>5, <2>6 DEF Inv, ReservationsType, BookingInv
<1>2. CASE Expire
  <2> DEFINE found == {r \in worker : status[r] = "PENDING"}
  <2>1. /\ status' = [r \in Guests |-> IF r \in found THEN "CANCELLED" ELSE status[r]]
        /\ missed' = missed \cup (worker \ found) /\ locks' = {l \in locks : l.owner \notin worker}
        /\ worker' = {} /\ UNCHANGED <<slots, assigned, session, intent, credit, walkIn>>
        /\ handler' = [h \in Handlers |->
             IF handler[h].op = "modify" /\ handler[h].for \subseteq found
             THEN [handler[h] EXCEPT !.stale = TRUE] ELSE handler[h]]
    BY <1>2 DEF Expire
  <2>2. /\ deposit' \in [Guests -> [status : Funds, linked : BOOLEAN]]
        /\ \A q \in Guests : \/ deposit'[q] = deposit[q]
                             \/ deposit[q].status \in {"REQUIRED", "PENDING"} /\ deposit'[q].status = "FAILED"
    <3>1. "FAILED" \in Funds
      BY DEF Funds, Unpaid
    <3> QED
      BY <1>0, <1>2, <3>1 DEF Expire, ReservationsType
  <2>3. /\ status' \in [Guests -> Statuses] /\ found \subseteq Guests /\ worker \subseteq Guests
        /\ \A q \in Guests \ found : status'[q] = status[q]
        /\ \A q \in found : status'[q] = "CANCELLED" /\ status[q] = "PENDING"
    BY <1>0, <2>1 DEF ReservationsType, Statuses, Ended
  <2>4. /\ handler' \in [Handlers -> HandlerType] /\ \A g \in Handlers : Goes(g)
        /\ \A g \in Handlers : (handler[g].op = "modify" /\ handler[g].for \subseteq found) => handler'[g].stale
    <3>1. \A x \in HandlerType :
            /\ [x EXCEPT !.stale = TRUE] \in HandlerType /\ [x EXCEPT !.stale = TRUE].stale
            /\ \A f \in {"op", "at", "for", "time", "tables", "saw", "to"} : [x EXCEPT !.stale = TRUE][f] = x[f]
      BY DEF HandlerType
    <3> HIDE DEF found
    <3> QED
      BY <1>0, <2>1, <3>1 DEF Goes
  <2> HIDE DEF found
  <2>5. ASSUME NEW g \in Handlers PROVE GoodRequest(g)'
    <3>1. \A q \in handler[g].for : q \in Guests /\ handler[g].for = {q}
      BY <1>0, OneReservation
    <3>2. ASSUME NEW q \in handler[g].for, handler[g].op = "modify" PROVE status'[q] = status[q] \/ handler'[g].stale
      BY <2>3, <2>4, <3>1, <3>2
    <3>3. \A q \in Guests : Safe(q)
      BY <2>1, <2>2, <2>3 DEF Safe
    <3> QED
      BY <2>4, <3>1, <3>2, <3>3, OthersKeep DEF Safe, Inv
  <2>6. OneLockPerSlot' /\ LocksMatchBooking'
    <3>1. "CANCELLED" \notin Live
      BY DEF Live, Modifiable
    <3>2. \A q \in Guests \ missed' : IF q \in worker THEN status'[q] \notin Live ELSE status'[q] \in Live <=> status[q] \in Live
      <4>1. found \subseteq worker
        BY DEF found
      <4> QED
        BY <2>1, <2>3, <3>1, <4>1
    <3>3. missed \subseteq missed' /\ \A q \in Guests \ worker : assigned'[q] = assigned[q]
      BY <2>1
    <3> QED
      BY <2>1, <2>3, <3>2, <3>3, LocksReleased
  <2>7. NotBooked' /\ WalkInsSat'
    <3>1. NotBooked'
      BY <2>1, <2>2, <2>3 DEF Inv, BookingInv, NotBooked
    <3>2. "PENDING" \in Modifiable
      BY DEF Modifiable
    <3>3. WalkInsSat'
      BY <2>1, <2>3, <3>2, WalkInsStay
    <3> QED
      BY <3>1, <3>3
  <2>8. TableOpenedForSeated'
    BY <2>1, <2>3, TablesStay
  <2>9. DepositInv'
    BY <2>1, <2>2, <2>3 DEF Inv, DepositInv, DepositSettled, DepositSpentOnce
  <2>10. missed' \subseteq Guests
    BY <1>0, <2>1 DEF ReservationsType
  <2> QED
    BY <1>0, <2>1, <2>2, <2>3, <2>4, <2>5, <2>6, <2>7, <2>8, <2>9, <2>10 DEF Inv, ReservationsType, BookingInv
<1> QED
  BY <1>1, <1>2

-----------------------------------------------------------------------------
LEMMA InvInit == Init => Inv
<1> SUFFICES ASSUME Init PROVE Inv OBVIOUS
<1>1. ReservationsType
  <2>1. "none" \in Statuses /\ "none" \in Funds
    BY DEF Statuses, Funds
  <2> QED
    BY <2>1, Empty DEF Init, ReservationsType
<1>2. \A h \in Handlers : GoodRequest(h)
  BY Empty DEF Init, GoodRequest, GoodChange, GoodTransition, GoodFund
<1>3. BookingInv
  <2>1. "none" \notin Live
    BY DEF Live, Modifiable
  <2> QED
    BY <2>1 DEF Init, BookingInv, OneLockPerSlot, NotBooked, WalkInsSat, LocksMatchBooking, Owned
<1>4. TableOpenedForSeated
  BY ReservationsAssumption DEF Init, TableOpenedForSeated, NoBody
<1>5. DepositInv
  BY DEF Init, DepositInv, DepositSettled, DepositSpentOnce
<1> QED
  BY <1>1, <1>2, <1>3, <1>4, <1>5 DEF Inv

LEMMA InvNext == Inv /\ [Next]_vars => Inv'
<1> SUFFICES ASSUME Inv, [Next]_vars PROVE Inv' OBVIOUS
<1>1. CASE UNCHANGED vars
  <2>1. UNCHANGED <<status, slots, assigned, locks, session, deposit, intent, credit, handler, worker, walkIn, missed>>
    BY <1>1 DEF vars
  <2>2. \A q \in Guests : Safe(q)
    BY <2>1 DEF Safe
  <2>3. \A g \in Handlers : GoodRequest(g)'
    BY <2>1, <2>2, NobodyMoves
  <2>4. BookingInv'
    BY <2>1, LocksStay, WalkInsStay DEF Inv, BookingInv, NotBooked
  <2>5. TableOpenedForSeated' /\ DepositInv'
    BY <2>1, TablesStay, DepositsStay
  <2> QED
    BY <2>1, <2>3, <2>4, <2>5 DEF Inv, ReservationsType
<1> QED
  BY <1>1, BeginSteps, FailStep, SettleStep, ChangeReads, OtherReads, BookStep, RebookStep, CancelStep, MoveStep, TableSteps,
     RefreshStep, PaymentSteps, WorkerSteps DEF Next

\* The locks of a reservation that no missed batch has touched are those of its tables and
\* its time, and none once it has ended, in every reachable state.
THEOREM CapacityIsKept == Spec => []LocksMatchBooking
<1>1. Inv => LocksMatchBooking
  BY DEF Inv, BookingInv
<1> QED
  BY <1>1, InvInit, InvNext, PTL DEF Spec

\* No two booked reservations that stand have one table at one time: createReservation and
\* modifyReservation rely on the key of reservation_capacity_locks alone. Walk-ins, which
\* are seated without a look at the locks, and what a missed batch has touched, are not
\* spoken of.
THEOREM BookedTablesAreNotShared == Spec => []NoDoubleBooking
<1>1. Inv => NoDoubleBooking
  <2> SUFFICES ASSUME Inv, NEW r \in Guests \ (missed \cup walkIn), NEW q \in Guests \ (missed \cup walkIn), r # q,
                      status[r] \in Live, status[q] \in Live,
                      NEW t \in assigned[r] \cap assigned[q], NEW s \in slots[r] \cap slots[q]
               PROVE  FALSE
    BY DEF NoDoubleBooking
  <2> DEFINE l == [table |-> t, slot |-> s, owner |-> r]
             k == [table |-> t, slot |-> s, owner |-> q]
  <2>1. l \in Owned(r) /\ k \in Owned(q)
    BY DEF Inv, BookingInv, LocksMatchBooking, Booking, Held
  <2>2. l \in locks /\ k \in locks
    BY <2>1 DEF Owned
  <2> QED
    BY <2>2 DEF Inv, BookingInv, OneLockPerSlot
<1> QED
  BY <1>1, InvInit, InvNext, PTL DEF Spec

\* A table session belongs to a party that was seated, at one table.
THEOREM SessionsAreOfSeated == Spec => []TableOpenedForSeated
<1>1. Inv => TableOpenedForSeated
  BY DEF Inv
<1> QED
  BY <1>1, InvInit, InvNext, PTL DEF Spec

\* A deposit that counts as paid is paid, and confirms its reservation.
THEOREM PaidIsSettled == Spec => []DepositSettled
<1>1. Inv => DepositSettled
  BY DEF Inv, DepositInv
<1> QED
  BY <1>1, InvInit, InvNext, PTL DEF Spec

\* A deposit is used up exactly when it was applied to a bill, however the refreshes, links,
\* expiries and applications that were prepared before are interleaved.
THEOREM DepositIsSpentOnce == Spec => []DepositSpentOnce
<1>1. Inv => DepositSpentOnce
  BY DEF Inv, DepositInv
<1> QED
  BY <1>1, InvInit, InvNext, PTL DEF Spec
=============================================================================
