------------------------ MODULE ProviderEventsProofs ------------------------
(* Proofs about ProviderEvents, for any orders, payment intents, handlers at a    *)
(* time and failures.                                                             *)
EXTENDS ProviderEvents, FiniteSetTheorems, TLAPS

OrderType  == [ext : Orders, status : {"SENT", "HELD", "PAID", "CANCELLED"}, paidAfter : BOOLEAN]
IntentType == [status : {"none", "PENDING", "AWAITING", "CONFIRMED", "FAILED"},
               ref : {"none", "prompt", "receipt"}]
StateType  == [orders : Seq(OrderType), txs : SUBSET [of : Intents, via : BOOLEAN],
               intent : [Intents -> IntentType]]
Before     == {"claimed", "look", "tombstone", "load", "save"}
Places     == Before \cup {"idle", "create", "call", "query", "map", "done", "failed"}
HandlerType == [job : Jobs \cup {<<>>}, at : Places, replay : BOOLEAN,
                next : StateType \cup {NoState}, stale : BOOLEAN]
EventType  == {"none", "PROCESSING", "PROCESSED", "FAILED"}

EventsType ==
  /\ db \in StateType
  /\ mapping \in [Orders \cup Intents -> Int]
  /\ claim \in [Keys -> {"none", "PROCESSING", "COMPLETED"}]
  /\ event \in [Keys -> EventType]
  /\ handler \in [Handlers -> HandlerType]
  /\ saves \in [Keys -> Nat]

Importing == {"created", "recovery"}
Paying    == {"result", "till"}

\* A receipt is in a state once.
Single(s) == \A t, u \in s.txs : t.of = u.of => t = u

\* Which handler is where, and what it holds.
Placed(i) ==
  /\ handler[i] = Idle \/ (handler[i].job \in Jobs /\ handler[i].at # "idle")
  /\ handler[i].at = "claimed" => handler[i].job \in Keys /\ ~handler[i].replay
  /\ handler[i].at \in {"look", "tombstone"} => handler[i].job \in OrderKeys
  /\ handler[i].at = "tombstone" => Job(i) = "cancelled"
  /\ handler[i].at \in {"create", "call"} => Job(i) = "prompt"
  /\ handler[i].at = "query" => Job(i) = "check"
  /\ handler[i].at = "map" => Job(i) \in Importing \cup Paying
  /\ handler[i].at \in Holding => handler[i].next \in StateType /\ Single(handler[i].next)
  /\ handler[i].at \in {"save", "map"} /\ Job(i) \in Importing =>
       handler[i].next \in StateType /\ Len(handler[i].next.orders) > 0

\* What a handler that is done, or about to be, has achieved.
Achieved(i) ==
  /\ handler[i].at = "done" /\ Job(i) \in Importing => mapping[Of(i)] # 0
  /\ handler[i].at = "save" /\ Job(i) \in Paying => Recorded(handler[i].next, Of(i))
  /\ "overwritten" \notin mishaps =>
       /\ handler[i].at \in {"map", "done"} /\ Job(i) \in Paying => Recorded(db, Of(i))
       /\ handler[i].at \in Holding /\ ~handler[i].stale => db.txs \subseteq handler[i].next.txs

Claims(i, k) == handler[i].job = k /\ ~handler[i].replay

\* An event is claimed by one handler, which saves once.
ClaimGood(k) ==
  /\ saves[k] <= 1
  /\ claim[k] = "none" => saves[k] = 0 /\ event[k] = "none" /\ \A i \in Handlers : ~Claims(i, k)
  /\ \A i, j \in Handlers : Claims(i, k) /\ Claims(j, k) => i = j
  /\ \A i \in Handlers : Claims(i, k) /\ handler[i].at \in Before => saves[k] = 0
  /\ \A i \in Handlers : Claims(i, k) /\ handler[i].at # "claimed" => event[k] # "none"
  /\ (claim[k] # "none" /\ "unlogged" \notin mishaps /\ \A i \in Handlers : ~Claims(i, k)) => event[k] # "none"
ClaimInv == \A k \in Keys : ClaimGood(k)

\* A processed event has had its effect.
EffectInv == \A k \in Keys : event[k] = "PROCESSED" =>
  /\ k[1] \in Importing => mapping[k[2]] # 0
  /\ k[1] \in Paying /\ "overwritten" \notin mishaps => Recorded(db, k[2])

ReceiptInv == Single(db)

Calm == mishaps \subseteq {"unlogged"}
Imports(o) == {n \in DOMAIN db.orders : db.orders[n].ext = o}
Cancelled(o) == mapping[o] # 0 /\ Live(o) = {}

\* What a handler has loaded and changed, while nobody else has saved.
Extends(i, q) ==
  /\ Len(q) = Len(db.orders) + (IF Job(i) \in Importing THEN 1 ELSE 0)
  /\ \A n \in DOMAIN db.orders : /\ q[n].ext = db.orders[n].ext
                                 /\ Dead(db.orders[n]) => Dead(q[n])
  /\ Job(i) \in Importing => q[Len(q)].ext = Of(i)
  /\ Job(i) = "cancelled" => mapping[Of(i)] \in DOMAIN db.orders /\ Dead(q[mapping[Of(i)]])
Follows(i) == Extends(i, handler[i].next.orders)

\* One handler works on an order at a time, and the mapping names the order that it saved.
OrderGood(o) ==
  /\ \A i, j \in Working(o) : i = j
  /\ \A n, m \in Imports(o) : n = m
  /\ mapping[o] = 0 \/ mapping[o] = -1 \/ mapping[o] \in Imports(o)
  /\ mapping[o] = -1 => Imports(o) = {}
  /\ mapping[o] = 0 /\ (\A i \in Working(o) : handler[i].at # "map") => Imports(o) = {}
  /\ event[<<"cancelled", o>>] = "PROCESSED" => Cancelled(o)

WorkGood(i) ==
  /\ handler[i].at \in {"load", "save", "map"} /\ Job(i) \in Importing => mapping[Of(i)] = 0
  /\ handler[i].at \in {"load", "save"} /\ Job(i) = "cancelled" => mapping[Of(i)] # 0
  /\ handler[i].at = "map" /\ Job(i) \in Importing => Len(handler[i].next.orders) \in Imports(Of(i))
  /\ handler[i].at = "done" /\ Job(i) = "cancelled" => Cancelled(Of(i))
  /\ handler[i].at \in Holding /\ ~handler[i].stale => Follows(i)

OrderInv == Calm => (\A o \in Orders : OrderGood(o)) /\ (\A i \in Handlers : WorkGood(i))

Inv == /\ EventsType /\ \A i \in Handlers : Placed(i) /\ Achieved(i)
       /\ ClaimInv /\ EffectInv /\ ReceiptInv /\ OrderInv

-----------------------------------------------------------------------------
(* Keys, handlers and states                                                 *)

LEMMA KeyTypes == ASSUME NEW k \in Keys
  PROVE  /\ k \in OrderKeys <=> k[1] \in {"created", "cancelled", "recovery"}
         /\ k[1] \in {"created", "cancelled", "recovery"} => k[2] \in Orders
         /\ k[1] \in {"result", "till", "refused"} <=> k \notin OrderKeys
         /\ k[1] \in {"result", "till", "refused"} => k[2] \in Intents
         /\ k = <<k[1], k[2]>>
  BY DEF Keys, OrderKeys

LEMMA JobTypes == ASSUME NEW k \in Jobs
  PROVE  /\ k \in Keys <=> k[1] \in {"created", "cancelled", "recovery", "result", "till", "refused"}
         /\ k[1] \in {"prompt", "check"} => k[2] \in Intents
         /\ k[1] \in {"created", "cancelled", "recovery", "result", "till", "refused", "prompt", "check", "release"}
  BY DEF Jobs, Keys, OrderKeys

LEMMA NoJob == <<>> \notin Jobs /\ <<>> \notin Keys /\ Keys \subseteq Jobs
  BY DEF Jobs, Keys, OrderKeys

LEMMA IdleType == Idle \in HandlerType /\ Idle.at = "idle" /\ Idle.job = <<>> /\ ~Idle.replay
<1>1. Idle \in HandlerType /\ Idle.at = "idle" /\ Idle.job = <<>>
  BY DEF Idle, HandlerType, Places
<1>2. ~Idle.replay
  BY DEF Idle
<1> QED BY <1>1, <1>2

\* A handler goes to another place, with another state.
LEMMA Edits ==
  ASSUME NEW h \in HandlerType, NEW pc \in Places
  PROVE  /\ [h EXCEPT !.at = pc] \in HandlerType /\ [h EXCEPT !.at = pc].at = pc
         /\ [h EXCEPT !.at = pc].job = h.job /\ [h EXCEPT !.at = pc].replay = h.replay
         /\ [h EXCEPT !.at = pc].next = h.next /\ [h EXCEPT !.at = pc].stale = h.stale
  BY DEF HandlerType

LEMMA WithOrders ==
  ASSUME NEW s \in StateType, NEW q \in Seq(OrderType)
  PROVE  /\ [s EXCEPT !.orders = q] \in StateType /\ [s EXCEPT !.orders = q].orders = q
         /\ [s EXCEPT !.orders = q].txs = s.txs
  BY DEF StateType

LEMMA WithIntent ==
  ASSUME NEW s \in StateType, NEW p \in Intents, NEW x \in IntentType
  PROVE  /\ [s EXCEPT !.intent[p] = x] \in StateType /\ [s EXCEPT !.intent[p] = x].orders = s.orders
         /\ [s EXCEPT !.intent[p] = x].txs = s.txs
  BY DEF StateType

\* A state with the same orders and receipts.
Same(s, t) == t \in StateType /\ t.orders = s.orders /\ t.txs = s.txs

LEMMA FailIntentSame ==
  ASSUME NEW s \in StateType, NEW p \in Intents PROVE Same(s, FailIntent(s, p))
<1>1. s.intent[p] \in IntentType
  BY DEF StateType
<1>2. [s.intent[p] EXCEPT !.status = "FAILED"] \in IntentType
  BY <1>1 DEF IntentType
<1>3. [s EXCEPT !.intent[p].status = "FAILED"] = [s EXCEPT !.intent[p] = [s.intent[p] EXCEPT !.status = "FAILED"]]
  BY DEF StateType
<1>4. Same(s, [s EXCEPT !.intent[p].status = "FAILED"])
  BY <1>2, <1>3, WithIntent DEF Same
<1>5. Same(s, s)
  BY DEF Same
<1> QED BY <1>4, <1>5 DEF FailIntent

LEMMA MarkInitiatedSame ==
  ASSUME NEW s \in StateType, NEW p \in Intents PROVE Same(s, MarkIntentInitiated(s, p))
<1>1. [status |-> "AWAITING", ref |-> "prompt"] \in IntentType
  BY DEF IntentType
<1>2. Same(s, [s EXCEPT !.intent[p] = [status |-> "AWAITING", ref |-> "prompt"]])
  BY <1>1, WithIntent DEF Same
<1>3. Same(s, s)
  BY DEF Same
<1> QED BY <1>2, <1>3 DEF MarkIntentInitiated

LEMMA ConfirmRecords ==
  ASSUME NEW s \in StateType, NEW p \in Intents, NEW via \in BOOLEAN, Single(s), ~Recorded(s, p)
  PROVE  /\ Confirm(s, p, via) \in StateType /\ Confirm(s, p, via).orders = s.orders
         /\ s.txs \subseteq Confirm(s, p, via).txs /\ Single(Confirm(s, p, via)) /\ Recorded(Confirm(s, p, via), p)
<1> DEFINE t == [of |-> p, via |-> via]
           paid == [s EXCEPT !.txs = @ \cup {t}]
<1>1. t \in [of : Intents, via : BOOLEAN] /\ t.of = p
  OBVIOUS
<1> HIDE DEF t
<1>2. paid \in StateType /\ paid.orders = s.orders /\ paid.txs = s.txs \cup {t}
  BY <1>1 DEF StateType
<1>3. Confirm(s, p, via) = IF via THEN [paid EXCEPT !.intent[p] = [status |-> "CONFIRMED", ref |-> "receipt"]] ELSE paid
  BY DEF Confirm, t
<1>4. [status |-> "CONFIRMED", ref |-> "receipt"] \in IntentType
  BY DEF IntentType
<1> HIDE DEF paid
<1>5. /\ Confirm(s, p, via) \in StateType /\ Confirm(s, p, via).orders = s.orders
      /\ Confirm(s, p, via).txs = s.txs \cup {t}
  <2>1. CASE via
    <3>1. Confirm(s, p, via) = [paid EXCEPT !.intent[p] = [status |-> "CONFIRMED", ref |-> "receipt"]]
      BY <1>3, <2>1
    <3> QED BY <1>2, <1>4, <3>1, WithIntent
  <2>2. CASE ~via
    BY <1>2, <1>3, <2>2
  <2> QED BY <2>1, <2>2
<1>6. \A u \in s.txs : u.of # p
  BY DEF Recorded
<1>7. Single(Confirm(s, p, via))
  BY <1>1, <1>5, <1>6 DEF Single
<1> QED BY <1>1, <1>5, <1>7 DEF Recorded

-----------------------------------------------------------------------------
(* A step of one handler                                                     *)

LEMMA OfTypes ==
  ASSUME Inv, NEW i \in Handlers, handler[i].at # "idle"
  PROVE  /\ handler[i] \in HandlerType /\ handler[i].job \in Jobs
         /\ Job(i) \in {"created", "cancelled", "recovery"} =>
              Of(i) \in Orders /\ handler[i].job \in OrderKeys /\ handler[i].job = <<Job(i), Of(i)>>
         /\ Job(i) \in {"result", "till", "refused", "prompt", "check"} => Of(i) \in Intents
         /\ handler[i].job \in Keys <=> Job(i) \in {"created", "cancelled", "recovery", "result", "till", "refused"}
         /\ Job(i) \in {"created", "cancelled", "recovery", "result", "till", "refused", "prompt", "check", "release"}
<1>1. handler[i] \in HandlerType /\ handler[i].job \in Jobs
  BY IdleType DEF Inv, EventsType, Placed
<1>2. /\ handler[i].job \in Keys <=> handler[i].job[1] \in {"created", "cancelled", "recovery", "result", "till", "refused"}
      /\ handler[i].job[1] \in {"prompt", "check"} => handler[i].job[2] \in Intents
      /\ handler[i].job[1] \in {"created", "cancelled", "recovery", "result", "till", "refused", "prompt", "check", "release"}
  BY <1>1, JobTypes
<1>3. handler[i].job \in Keys =>
         /\ handler[i].job \in OrderKeys <=> handler[i].job[1] \in {"created", "cancelled", "recovery"}
         /\ handler[i].job[1] \in {"created", "cancelled", "recovery"} => handler[i].job[2] \in Orders
         /\ handler[i].job[1] \in {"result", "till", "refused"} => handler[i].job[2] \in Intents
         /\ handler[i].job = <<handler[i].job[1], handler[i].job[2]>>
  BY KeyTypes
<1> QED BY <1>1, <1>2, <1>3 DEF Job, Of

LEMMA Steps ==
  ASSUME Inv, NEW i \in Handlers, NEW x \in HandlerType, handler' = [handler EXCEPT ![i] = x], UNCHANGED db,
         EventsType', mishaps \subseteq mishaps',
         \A y \in Orders \cup Intents : mapping[y] # 0 => mapping'[y] # 0,
         Placed(i)', Achieved(i)', ClaimInv', EffectInv', OrderInv'
  PROVE  Inv'
<1>1. \A j \in Handlers : j # i => handler'[j] = handler[j]
  BY DEF Inv, EventsType
<1>2. ASSUME NEW j \in Handlers, j # i PROVE Placed(j)' /\ Achieved(j)'
  <2>1. handler'[j] = handler[j] /\ Job(j)' = Job(j) /\ Of(j)' = Of(j)
    BY <1>1, <1>2 DEF Job, Of
  <2>2. Placed(j)'
    BY <2>1 DEF Inv, Placed, Single
  <2>3. handler[j].at = "done" /\ Job(j) \in Importing => mapping'[Of(j)] # 0
    BY OfTypes DEF Inv, Achieved, Importing
  <2>4. Achieved(j)'
    BY <2>1, <2>3 DEF Inv, Achieved, Recorded
  <2> QED BY <2>2, <2>4
<1> QED BY <1>2 DEF Inv, ReceiptInv, Single

\* The claims, when no claim is made or given up.
LEMMA ClaimsKept ==
  ASSUME Inv, NEW i \in Handlers, NEW x \in HandlerType, handler' = [handler EXCEPT ![i] = x],
         UNCHANGED <<claim, event, saves>>, mishaps \subseteq mishaps',
         (x.job \in Keys /\ ~x.replay) =>
            /\ x.job = handler[i].job /\ ~handler[i].replay /\ handler[i].at # "claimed"
            /\ x.at \in Before => handler[i].at \in Before,
         (x.job # handler[i].job \/ x.replay) /\ handler[i].at = "claimed" => "unlogged" \in mishaps'
  PROVE  ClaimInv'
<1>1. handler'[i] = x /\ \A j \in Handlers : j # i => handler'[j] = handler[j]
  BY DEF Inv, EventsType
<1> SUFFICES ASSUME NEW k \in Keys PROVE ClaimGood(k)'
  BY DEF ClaimInv
<1>2. ClaimGood(k)
  BY DEF Inv, ClaimInv
<1>3. \A j \in Handlers : Claims(j, k)' => /\ Claims(j, k) /\ (handler'[j].at \in Before => handler[j].at \in Before)
                                            /\ (handler'[j].at # "claimed" => handler[j].at # "claimed")
  BY <1>1 DEF Claims
<1>4. \A j \in Handlers : Claims(j, k) /\ ~Claims(j, k)' => handler[j].at # "claimed" \/ "unlogged" \in mishaps'
  BY <1>1 DEF Claims
<1>5. (claim[k] # "none" /\ "unlogged" \notin mishaps' /\ \A j \in Handlers : ~Claims(j, k)') => event[k] # "none"
  BY <1>2, <1>4 DEF ClaimGood
<1> QED BY <1>2, <1>3, <1>5 DEF ClaimGood

LEMMA EffectsKept ==
  ASSUME Inv, UNCHANGED <<db, event>>, mishaps \subseteq mishaps',
         \A y \in Orders \cup Intents : mapping[y] # 0 => mapping'[y] # 0
  PROVE  EffectInv'
<1> SUFFICES ASSUME NEW k \in Keys, event[k] = "PROCESSED"
             PROVE  /\ k[1] \in Importing => mapping'[k[2]] # 0
                    /\ k[1] \in Paying /\ "overwritten" \notin mishaps' => Recorded(db, k[2])
  BY DEF EffectInv, Recorded
<1>1. k[1] \in Importing => k[2] \in Orders
  BY KeyTypes DEF Importing
<1> QED BY <1>1 DEF Inv, EffectInv

LEMMA OrdersKept ==
  ASSUME Inv, NEW i \in Handlers, NEW x \in HandlerType, handler' = [handler EXCEPT ![i] = x],
         UNCHANGED <<db, mapping>>, mishaps \subseteq mishaps',
         Calm' => /\ \A o \in Orders : event'[<<"cancelled", o>>] = "PROCESSED" => Cancelled(o)
                  /\ WorkGood(i)'
                  /\ \A o \in Orders : i \in Working(o)' => Working(o) \subseteq {i}
                  /\ ~(handler[i].at = "map" /\ Job(i) \in Importing)
  PROVE  OrderInv'
<1> SUFFICES ASSUME Calm' PROVE (\A o \in Orders : OrderGood(o)') /\ (\A j \in Handlers : WorkGood(j)')
  BY DEF OrderInv
<1>0. Calm /\ (\A o \in Orders : OrderGood(o)) /\ (\A j \in Handlers : WorkGood(j))
  BY DEF Calm, Inv, OrderInv
<1>1. handler'[i] = x /\ \A j \in Handlers : j # i => handler'[j] = handler[j]
  BY DEF Inv, EventsType
<1>2. \A o : Imports(o)' = Imports(o) /\ (Cancelled(o)' <=> Cancelled(o))
  BY DEF Imports, Cancelled, Live
<1>3. ASSUME NEW j \in Handlers PROVE WorkGood(j)'
  <2>1. CASE j # i
    <3>1. handler'[j] = handler[j] /\ Job(j)' = Job(j) /\ Of(j)' = Of(j)
      BY <1>1, <2>1 DEF Job, Of
    <3>2. Follows(j)' <=> Follows(j)
      BY <3>1 DEF Follows, Extends
    <3> QED BY <1>0, <1>2, <3>1, <3>2 DEF WorkGood
  <2> QED BY <2>1
<1>4. ASSUME NEW o \in Orders PROVE OrderGood(o)'
  <2>0. OrderGood(o)
    BY <1>0
  <2>1. \A j \in Handlers : j # i => (j \in Working(o)' <=> j \in Working(o))
    BY <1>1 DEF Working, Job, Of
  <2>2. \A j, m \in Working(o)' : j = m
    <3>1. Working(o)' \subseteq Handlers
      BY DEF Working
    <3>2. i \in Working(o)' => Working(o)' \subseteq {i}
      BY <2>1, <3>1
    <3>3. i \notin Working(o)' => Working(o)' \subseteq Working(o)
      BY <2>1, <3>1
    <3> QED BY <2>0, <3>2, <3>3 DEF OrderGood
  <2>3. mapping[o] = 0 /\ (\A j \in Working(o)' : handler'[j].at # "map") => Imports(o) = {}
    <3> SUFFICES ASSUME mapping[o] = 0, \A j \in Working(o)' : handler'[j].at # "map" PROVE Imports(o) = {}
      OBVIOUS
    <3>1. ASSUME NEW j \in Working(o) PROVE handler[j].at # "map"
      <4>0. j \in Handlers
        BY DEF Working
      <4>1. CASE j # i
        BY <1>1, <2>1, <4>0, <4>1
      <4>2. CASE j = i
        <5>1. Job(i) \in {"created", "cancelled", "recovery"}
          BY <3>1, <4>2 DEF Working
        <5>2. handler[i].at = "map" => Job(i) \in Importing
          BY <5>1 DEF Importing, Paying, Inv, Placed
        <5> QED BY <4>2, <5>2
      <4> QED BY <4>1, <4>2
    <3> QED BY <2>0, <3>1 DEF OrderGood
  <2> QED BY <1>2, <2>0, <2>2, <2>3 DEF OrderGood
<1> QED BY <1>3, <1>4

\* A handler goes on with its job, and writes nothing.
LEMMA Goes ==
  ASSUME Inv, NEW i \in Handlers, handler[i].at # "claimed",
         NEW x \in HandlerType, handler' = [handler EXCEPT ![i] = x],
         UNCHANGED <<db, mapping, claim, event, saves>>, mishaps \subseteq mishaps',
         x.job = handler[i].job, x.replay = handler[i].replay,
         x.job \in Keys /\ x.at \in Before => handler[i].at \in Before,
         Placed(i)', Achieved(i)',
         Calm' => /\ WorkGood(i)'
                  /\ \A o \in Orders : i \in Working(o)' => Working(o) \subseteq {i}
                  /\ ~(handler[i].at = "map" /\ Job(i) \in Importing)
  PROVE  Inv'
<1>1. EventsType'
  BY DEF Inv, EventsType
<1>2. ClaimInv'
  BY ClaimsKept
<1>3. EffectInv'
  BY EffectsKept
<1>4. Calm' => \A o \in Orders : event'[<<"cancelled", o>>] = "PROCESSED" => Cancelled(o)
  BY DEF Calm, Inv, OrderInv, OrderGood
<1>5. OrderInv'
  BY <1>4, OrdersKept
<1> QED BY <1>1, <1>2, <1>3, <1>5, Steps

\* A handler that works on an order is alone with it.
LEMMA AlreadyWorks ==
  ASSUME Inv, Calm, NEW i \in Handlers, handler[i].at \in {"load", "save", "map", "tombstone"},
         handler'[i].job = handler[i].job
  PROVE  \A o \in Orders : i \in Working(o)' => Working(o) \subseteq {i}
<1> SUFFICES ASSUME NEW o \in Orders, i \in Working(o)' PROVE Working(o) \subseteq {i}
  OBVIOUS
<1>1. i \in Working(o)
  BY DEF Working, Job, Of
<1> QED BY <1>1 DEF Inv, OrderInv, OrderGood

\* A handler ends without writing.
LEMMA Stops ==
  ASSUME Inv, NEW i \in Handlers, handler' = [handler EXCEPT ![i] = Idle],
         UNCHANGED <<db, mapping, claim, event, saves>>, mishaps \subseteq mishaps',
         handler[i].at = "claimed" => "unlogged" \in mishaps',
         Calm' => ~(handler[i].at = "map" /\ Job(i) \in Importing)
  PROVE  Inv'
<1>1. EventsType' /\ handler'[i] = Idle
  BY IdleType DEF Inv, EventsType
<1>2. ClaimInv'
  BY IdleType, NoJob, ClaimsKept
<1>3. EffectInv'
  BY EffectsKept
<1>4. Placed(i)' /\ Achieved(i)' /\ WorkGood(i)'
  BY <1>1, IdleType DEF Placed, Achieved, WorkGood, Holding
<1>5. \A o \in Orders : i \notin Working(o)'
  BY <1>1, IdleType DEF Working
<1>6. Calm' => \A o \in Orders : event'[<<"cancelled", o>>] = "PROCESSED" => Cancelled(o)
  BY DEF Calm, Inv, OrderInv, OrderGood
<1>7. OrderInv'
  BY <1>4, <1>5, <1>6, IdleType, OrdersKept
<1> QED BY <1>1, <1>2, <1>3, <1>4, <1>7, IdleType, Steps

LEMMA LookInv == ASSUME Inv, NEW i \in Handlers, Look(i) PROVE Inv'
<1> DEFINE o == Of(i)
           pc == IF Job(i) = "cancelled" THEN IF mapping[o] = 0 THEN "tombstone" ELSE "load"
                 ELSE IF Existing(o) THEN "done" ELSE "load"
           x == [handler[i] EXCEPT !.at = pc]
<1>1. /\ handler[i].at = "look" /\ Job(i) \in {"created", "cancelled", "recovery"}
      /\ handler' = [handler EXCEPT ![i].at = pc]
      /\ mishaps' = mishaps \cup (IF Working(o) # {} THEN {"overlap"} ELSE {})
      /\ UNCHANGED <<db, mapping, claim, event, saves>>
  BY DEF Look, At, Go, Logged, Quiet
<1>2. handler[i] \in HandlerType /\ handler[i].job \in Jobs /\ handler[i].job \in OrderKeys /\ o \in Orders
  BY <1>1, OfTypes
<1>3. pc \in {"tombstone", "load", "done"} /\ pc \in Places
  BY DEF Places, Before
<1>4. /\ pc = "tombstone" => Job(i) = "cancelled"
      /\ pc = "done" => Job(i) \in Importing /\ mapping[o] # 0
      /\ pc = "load" /\ Job(i) \in Importing => mapping[o] = 0
      /\ pc = "load" /\ Job(i) = "cancelled" => mapping[o] # 0
  BY <1>1 DEF Existing, Importing
<1> HIDE DEF pc
<1>5. /\ x \in HandlerType /\ x.at = pc /\ x.job = handler[i].job /\ x.replay = handler[i].replay
  BY <1>2, <1>3, Edits
<1>6. handler' = [handler EXCEPT ![i] = x] /\ handler'[i] = x
  BY <1>1 DEF Inv, EventsType
<1> HIDE DEF x
<1>7. Job(i)' = Job(i) /\ Of(i)' = Of(i) /\ handler'[i].at = pc
  BY <1>5, <1>6 DEF Job, Of
<1>8. Placed(i)' /\ Achieved(i)'
  <2>1. Placed(i)'
    BY <1>2, <1>3, <1>4, <1>5, <1>6, <1>7 DEF Placed, Holding
  <2>2. Achieved(i)'
    BY <1>1, <1>3, <1>4, <1>7 DEF Achieved, Holding, Importing, Paying
  <2> QED BY <2>1, <2>2
<1>9. WorkGood(i)'
  BY <1>1, <1>3, <1>4, <1>7 DEF WorkGood, Holding, Importing
<1>10. ASSUME Calm' PROVE \A q \in Orders : i \in Working(q)' => Working(q) \subseteq {i}
  <2>1. Working(o) = {}
    BY <1>1, <1>10 DEF Calm
  <2>2. \A q \in Orders : i \in Working(q)' => q = o
    BY <1>7 DEF Working
  <2> QED BY <2>1, <2>2
<1>11. handler[i].at \in Before /\ handler[i].at # "claimed" /\ handler[i].at # "map" /\ mishaps \subseteq mishaps'
  BY <1>1 DEF Before
<1> QED BY <1>1, <1>5, <1>6, <1>8, <1>9, <1>10, <1>11, Goes

\* A handler gives up: the catch follows.
LEMMA Fails ==
  ASSUME Inv, NEW i \in Handlers, handler[i].at \notin {"idle", "claimed"},
         NEW x \in HandlerType, handler' = [handler EXCEPT ![i] = x], x.at = "failed",
         x.job = handler[i].job, x.replay = handler[i].replay,
         UNCHANGED <<db, mapping, claim, event, saves>>, mishaps \subseteq mishaps',
         Calm' => ~(handler[i].at = "map" /\ Job(i) \in Importing)
  PROVE  Inv'
<1>1. handler'[i] = x /\ handler[i].job \in Jobs
  BY OfTypes DEF Inv, EventsType
<1>2. Placed(i)' /\ Achieved(i)' /\ WorkGood(i)'
  BY <1>1 DEF Placed, Achieved, WorkGood, Holding
<1>3. \A o \in Orders : i \notin Working(o)'
  BY <1>1 DEF Working
<1>4. "failed" \notin Before
  BY DEF Before
<1> QED BY <1>2, <1>3, <1>4, Goes

LEMMA GoesToFailed ==
  ASSUME Inv, NEW i \in Handlers, handler[i].at \notin {"idle", "claimed"}, Go(i, "failed"),
         UNCHANGED <<db, mapping, claim, event, saves, mishaps>>,
         Calm => ~(handler[i].at = "map" /\ Job(i) \in Importing)
  PROVE  Inv'
<1> DEFINE x == [handler[i] EXCEPT !.at = "failed"]
<1>1. handler[i] \in HandlerType /\ "failed" \in Places
  BY OfTypes DEF Places
<1>2. x \in HandlerType /\ x.at = "failed" /\ x.job = handler[i].job /\ x.replay = handler[i].replay
  BY <1>1, Edits
<1>3. handler' = [handler EXCEPT ![i] = x]
  BY DEF Go, Inv, EventsType
<1> HIDE DEF x
<1>4. Calm' => Calm
  BY DEF Calm
<1> QED BY <1>2, <1>3, <1>4, Fails

\* A handler has loaded the state and made its change, to save it later.
LEMMA Loads ==
  ASSUME Inv, NEW i \in Handlers, handler[i].at = "load",
         NEW pc \in {"create", "query", "save"}, NEW s \in StateType,
         handler' = [handler EXCEPT ![i].at = pc, ![i].next = s],
         UNCHANGED <<db, mapping, claim, event, saves, mishaps>>,
         pc = "create" => Job(i) = "prompt", pc = "query" => Job(i) = "check",
         Single(s), db.txs \subseteq s.txs, Job(i) \in Importing => Len(s.orders) > 0,
         Job(i) \in Paying => Recorded(s, Of(i)), Calm => Extends(i, s.orders)
  PROVE  Inv'
<1> DEFINE x == [handler[i] EXCEPT !.at = pc, !.next = s]
<1>1. /\ x \in HandlerType /\ x.at = pc /\ x.job = handler[i].job /\ x.replay = handler[i].replay
      /\ x.next = s /\ handler[i].job \in Jobs
  <2>1. handler[i] \in HandlerType /\ handler[i].job \in Jobs
    BY OfTypes
  <2>2. pc \in Places /\ s \in StateType \cup {NoState}
    BY DEF Places, Before
  <2>3. PICK h : h = handler[i]
    OBVIOUS
  <2>4. x = [h EXCEPT !.at = pc, !.next = s] /\ h \in HandlerType
    BY <2>1, <2>3
  <2> HIDE DEF x
  <2>5. x \in HandlerType /\ x.at = pc /\ x.job = h.job /\ x.replay = h.replay /\ x.next = s
    BY ONLY <2>2, <2>4 DEF HandlerType
  <2> QED BY <2>1, <2>3, <2>5
<1>2. handler' = [handler EXCEPT ![i] = x] /\ handler'[i] = x
  BY DEF Inv, EventsType
<1> HIDE DEF x
<1>3. Job(i)' = Job(i) /\ Of(i)' = Of(i) /\ handler'[i].at = pc /\ handler'[i].next = s
  BY <1>1, <1>2 DEF Job, Of
<1>4. Placed(i)'
  BY <1>1, <1>2, <1>3 DEF Placed, Single
<1>5. Achieved(i)'
  BY <1>3 DEF Achieved, Recorded
<1>6. Calm' => WorkGood(i)'
  <2> SUFFICES ASSUME Calm PROVE WorkGood(i)'
    BY DEF Calm
  <2>1. WorkGood(i)
    BY DEF Inv, OrderInv
  <2>2. Follows(i)'
    BY <1>3 DEF Follows, Extends
  <2> QED BY <1>3, <2>1, <2>2 DEF WorkGood
<1>7. Calm' => \A o \in Orders : i \in Working(o)' => Working(o) \subseteq {i}
  BY <1>1, <1>2, AlreadyWorks DEF Calm
<1>8. handler[i].at \in Before /\ handler[i].at # "claimed" /\ handler[i].at # "map"
  BY DEF Before
<1> QED BY <1>1, <1>2, <1>4, <1>5, <1>6, <1>7, <1>8, Goes

LEMMA DbType ==
  ASSUME Inv
  PROVE  /\ db \in StateType /\ db.orders \in Seq(OrderType) /\ Single(db)
         /\ Len(db.orders) \in Nat /\ DOMAIN db.orders = 1..Len(db.orders)
         /\ \A n \in DOMAIN db.orders : db.orders[n] \in OrderType
<1>1. db \in StateType /\ Single(db)
  BY DEF Inv, EventsType, ReceiptInv
<1>2. db.orders \in Seq(OrderType)
  BY <1>1 DEF StateType
<1> QED BY <1>1, <1>2

\* Statuses of orders may change, but none comes back to life.
LEMMA SameOrders ==
  ASSUME Inv, NEW i \in Handlers, Job(i) \notin Importing, Job(i) # "cancelled",
         NEW q, Len(q) = Len(db.orders),
         \A n \in DOMAIN db.orders : /\ q[n].ext = db.orders[n].ext
                                     /\ Dead(db.orders[n]) => Dead(q[n])
  PROVE  Extends(i, q)
<1>1. Len(db.orders) \in Nat
  BY DbType
<1> QED BY <1>1 DEF Extends

LEMMA LoadCreatedInv == ASSUME Inv, NEW i \in Handlers, LoadCreated(i) PROVE Inv'
<1>1. /\ handler[i].at = "load" /\ Job(i) \in Importing /\ UNCHANGED <<db, mapping, claim, event, saves, mishaps>>
  BY DEF LoadCreated, At, Logged, Quiet, Importing
<1>2. PICK st \in {"SENT", "HELD"} :
        handler' = [handler EXCEPT ![i].at = "save",
                      ![i].next = [db EXCEPT !.orders = Append(db.orders, [ext |-> Of(i), status |-> st, paidAfter |-> FALSE])]]
  BY DEF LoadCreated, Going
<1>3. Of(i) \in Orders
  BY <1>1, OfTypes DEF Importing
<1> DEFINE r == [ext |-> Of(i), status |-> st, paidAfter |-> FALSE]
           q == Append(db.orders, r)
           s == [db EXCEPT !.orders = q]
<1>4. r \in OrderType /\ r.ext = Of(i)
  BY <1>3 DEF OrderType
<1> HIDE DEF r
<1>5. /\ q \in Seq(OrderType) /\ Len(q) = Len(db.orders) + 1 /\ q[Len(db.orders) + 1] = r
      /\ \A n \in DOMAIN db.orders : q[n] = db.orders[n]
      /\ Len(q) > 0
  BY <1>4, DbType
<1> HIDE DEF q
<1>6. s \in StateType /\ s.orders = q /\ s.txs = db.txs
  BY <1>5, DbType, WithOrders
<1>7. handler' = [handler EXCEPT ![i].at = "save", ![i].next = s]
  BY <1>2 DEF q, r
<1> HIDE DEF s
<1>8. Extends(i, q)
  BY <1>1, <1>4, <1>5 DEF Extends, Importing
<1>9. Single(s)
  BY <1>6, DbType DEF Single
<1>10. Job(i) \notin Paying
  BY <1>1 DEF Importing, Paying
<1> QED BY <1>1, <1>5, <1>6, <1>7, <1>8, <1>9, <1>10, Loads

LEMMA LoadCancelledInv == ASSUME Inv, NEW i \in Handlers, LoadCancelled(i) PROVE Inv'
<1> DEFINE n == mapping[Of(i)]
<1>1. /\ handler[i].at = "load" /\ Job(i) = "cancelled" /\ UNCHANGED <<db, mapping, claim, event, saves, mishaps>>
      /\ IF n \in DOMAIN db.orders /\ db.orders[n].status \notin {"PAID", "CANCELLED"}
         THEN handler' = [handler EXCEPT ![i].at = "save", ![i].next = [db EXCEPT !.orders[n].status = "CANCELLED"]]
         ELSE handler' = [handler EXCEPT ![i].at = "failed"]
  BY DEF LoadCancelled, At, Logged, Quiet, Going, Go
<1>2. CASE handler' = [handler EXCEPT ![i].at = "failed"]
  BY <1>1, <1>2, GoesToFailed DEF Go
<1>3. CASE n \in DOMAIN db.orders
           /\ handler' = [handler EXCEPT ![i].at = "save", ![i].next = [db EXCEPT !.orders[n].status = "CANCELLED"]]
  <2> DEFINE r == [db.orders[n] EXCEPT !.status = "CANCELLED"]
             q == [db.orders EXCEPT ![n] = r]
             s == [db EXCEPT !.orders = q]
  <2>1. db.orders[n] \in OrderType
    BY <1>3, DbType
  <2>2. r \in OrderType /\ r.ext = db.orders[n].ext /\ Dead(r)
    BY <2>1 DEF OrderType, Dead
  <2> HIDE DEF r
  <2>3. /\ q \in Seq(OrderType) /\ Len(q) = Len(db.orders) /\ q[n] = r
        /\ \A m \in DOMAIN db.orders : m # n => q[m] = db.orders[m]
    BY <1>3, <2>2, DbType
  <2>4. [db EXCEPT !.orders[n].status = "CANCELLED"] = s
    BY DbType DEF StateType, r
  <2> HIDE DEF q
  <2>5. s \in StateType /\ s.orders = q /\ s.txs = db.txs
    BY <2>3, DbType, WithOrders
  <2> HIDE DEF s
  <2>6. Extends(i, q)
    <3>1. Len(db.orders) \in Nat
      BY DbType
    <3> QED BY <1>1, <1>3, <2>2, <2>3, <3>1 DEF Extends, Importing
  <2>7. Single(s)
    BY <2>5, DbType DEF Single
  <2>8. Job(i) \notin Paying /\ Job(i) \notin Importing
    BY <1>1 DEF Importing, Paying
  <2> HIDE DEF n
  <2> QED BY <1>1, <1>3, <2>4, <2>5, <2>6, <2>7, <2>8, Loads
<1> QED BY <1>1, <1>2, <1>3

LEMMA LoadReleaseInv == ASSUME Inv, NEW i \in Handlers, LoadRelease(i) PROVE Inv'
<1> DEFINE q == [n \in DOMAIN db.orders |->
                   IF db.orders[n].status = "HELD" THEN [db.orders[n] EXCEPT !.status = "SENT"] ELSE db.orders[n]]
           s == [db EXCEPT !.orders = q]
<1>1. /\ handler[i].at = "load" /\ Job(i) = "release" /\ UNCHANGED <<db, mapping, claim, event, saves, mishaps>>
      /\ handler' = [handler EXCEPT ![i].at = "save", ![i].next = s]
  BY DEF LoadRelease, At, Logged, Quiet, Going
<1>2. ASSUME NEW n \in DOMAIN db.orders
      PROVE  /\ q[n] \in OrderType /\ q[n].ext = db.orders[n].ext
             /\ Dead(db.orders[n]) => Dead(q[n])
  <2>1. db.orders[n] \in OrderType
    BY DbType
  <2> QED BY <2>1 DEF OrderType, Dead
<1>3. q \in Seq(OrderType) /\ Len(q) = Len(db.orders)
  <2>1. q \in [1..Len(db.orders) -> OrderType] /\ Len(db.orders) \in Nat
    BY <1>2, DbType
  <2> HIDE DEF q
  <2> QED BY <2>1
<1> HIDE DEF q
<1>4. s \in StateType /\ s.orders = q /\ s.txs = db.txs
  BY <1>3, DbType, WithOrders
<1> HIDE DEF s
<1>5. Job(i) \notin Paying /\ Job(i) \notin Importing /\ Job(i) # "cancelled"
  BY <1>1 DEF Importing, Paying
<1>6. Extends(i, q)
  BY <1>2, <1>3, <1>5, SameOrders
<1>7. Single(s)
  BY <1>4, DbType DEF Single
<1> QED BY <1>1, <1>4, <1>5, <1>6, <1>7, Loads

\* A handler of payments has loaded the state, and the orders and receipts stay.
LEMMA LoadsSame ==
  ASSUME Inv, NEW i \in Handlers, handler[i].at = "load", NEW pc \in {"create", "query", "save"}, NEW s,
         Same(db, s), handler' = [handler EXCEPT ![i].at = pc, ![i].next = s],
         UNCHANGED <<db, mapping, claim, event, saves, mishaps>>,
         Job(i) \in {"prompt", "check", "refused"},
         pc = "create" => Job(i) = "prompt", pc = "query" => Job(i) = "check"
  PROVE  Inv'
<1>1. Job(i) \notin Importing /\ Job(i) \notin Paying /\ Job(i) # "cancelled"
  BY DEF Importing, Paying
<1>2. s \in StateType /\ s.orders = db.orders /\ s.txs = db.txs
  BY DEF Same
<1>3. Single(s)
  BY <1>2, DbType DEF Single
<1>4. Extends(i, s.orders)
  BY <1>1, <1>2, SameOrders
<1> QED BY <1>1, <1>2, <1>3, <1>4, Loads

LEMMA LoadPromptInv == ASSUME Inv, NEW i \in Handlers, LoadPrompt(i) PROVE Inv'
<1> DEFINE p == Of(i)
           s == [db EXCEPT !.intent[p].status = IF @ = "none" THEN "PENDING" ELSE @]
<1>1. /\ handler[i].at = "load" /\ Job(i) = "prompt" /\ UNCHANGED <<db, mapping, claim, event, saves, mishaps>>
      /\ handler' = [handler EXCEPT ![i].at = "create", ![i].next = s]
  BY DEF LoadPrompt, At, Logged, Quiet, Going
<1>2. p \in Intents
  BY <1>1, OfTypes
<1> DEFINE v == IF db.intent[p].status = "none" THEN "PENDING" ELSE db.intent[p].status
           x == [db.intent[p] EXCEPT !.status = v]
<1>3. db.intent[p] \in IntentType
  BY <1>2, DbType DEF StateType
<1>4. x \in IntentType
  BY <1>3 DEF IntentType
<1>5. s = [db EXCEPT !.intent[p] = x]
  BY <1>2, DbType DEF StateType
<1> HIDE DEF x
<1>6. Same(db, s)
  BY <1>2, <1>4, <1>5, DbType, WithIntent DEF Same
<1> HIDE DEF s, p
<1> QED BY <1>1, <1>6, LoadsSame

LEMMA LoadRefusedInv == ASSUME Inv, NEW i \in Handlers, LoadRefused(i) PROVE Inv'
<1>1. /\ handler[i].at = "load" /\ Job(i) = "refused" /\ UNCHANGED <<db, mapping, claim, event, saves, mishaps>>
      /\ \/ handler' = [handler EXCEPT ![i].at = "save", ![i].next = FailIntent(db, Of(i))]
         \/ Go(i, "failed")
  BY DEF LoadRefused, At, Logged, Quiet, Going
<1>2. Same(db, FailIntent(db, Of(i)))
  BY <1>1, OfTypes, DbType, FailIntentSame
<1>3. CASE Go(i, "failed")
  BY <1>1, <1>3, GoesToFailed
<1>4. CASE handler' = [handler EXCEPT ![i].at = "save", ![i].next = FailIntent(db, Of(i))]
  BY <1>1, <1>2, <1>4, LoadsSame
<1> QED BY <1>1, <1>3, <1>4

LEMMA LoadCheckInv == ASSUME Inv, NEW i \in Handlers, LoadCheck(i) PROVE Inv'
<1>1. /\ handler[i].at = "load" /\ Job(i) = "check" /\ UNCHANGED <<db, mapping, claim, event, saves, mishaps>>
      /\ handler' = [handler EXCEPT ![i].at = "query", ![i].next = db]
  BY DEF LoadCheck, At, Logged, Quiet, Going
<1>2. Same(db, db)
  BY DbType DEF Same
<1>3. PICK s : s = db
  OBVIOUS
<1>4. Same(db, s) /\ handler' = [handler EXCEPT ![i].at = "query", ![i].next = s]
  BY <1>1, <1>2, <1>3
<1> QED BY <1>1, <1>4, LoadsSame

LEMMA LoadPaidInv == ASSUME Inv, NEW i \in Handlers, LoadPaid(i) PROVE Inv'
<1> DEFINE p == Of(i)
<1>1. /\ handler[i].at = "load" /\ Job(i) \in Paying /\ UNCHANGED <<db, mapping, claim, event, saves, mishaps>>
      /\ \/ Go(i, "failed")
         \/ Recorded(db, p) /\ Go(i, "done")
         \/ ~Recorded(db, p) /\ Going(i, "save", Confirm(db, p, TRUE))
         \/ ~Recorded(db, p) /\ Going(i, "save", Confirm(db, p, FALSE))
  BY DEF LoadPaid, At, Logged, Quiet, Paying
<1>2. p \in Intents /\ handler[i] \in HandlerType /\ handler[i].job \in Jobs /\ Job(i) \notin Importing /\ Job(i) # "cancelled"
  BY <1>1, OfTypes DEF Paying, Importing
<1>3. CASE Go(i, "failed")
  BY <1>1, <1>3, GoesToFailed
<1>4. CASE Recorded(db, p) /\ Go(i, "done")
  <2> DEFINE x == [handler[i] EXCEPT !.at = "done"]
  <2>1. x \in HandlerType /\ x.at = "done" /\ x.job = handler[i].job /\ x.replay = handler[i].replay
    BY <1>2, Edits DEF Places
  <2>2. handler' = [handler EXCEPT ![i] = x] /\ handler'[i] = x
    BY <1>4 DEF Go, Inv, EventsType
  <2> HIDE DEF x
  <2>3. Job(i)' = Job(i) /\ Of(i)' = Of(i) /\ handler'[i].at = "done" /\ handler'[i].job = handler[i].job
    BY <2>1, <2>2 DEF Job, Of
  <2>4. Placed(i)'
    BY <1>2, <2>3 DEF Placed, Holding
  <2>5. Recorded(db, Of(i))'
    BY <1>1, <1>4, <2>3 DEF Recorded
  <2>6. Achieved(i)' /\ WorkGood(i)'
    BY <1>2, <2>3, <2>5 DEF Achieved, WorkGood, Holding
  <2>7. \A o \in Orders : i \notin Working(o)'
    BY <2>3 DEF Working
  <2>8. x.at \notin Before
    BY <2>1 DEF Before
  <2> QED BY <1>1, <2>1, <2>2, <2>4, <2>6, <2>7, <2>8, Goes
<1>5. ASSUME NEW via \in BOOLEAN, ~Recorded(db, p), Going(i, "save", Confirm(db, p, via)) PROVE Inv'
  <2>1. PICK s : s = Confirm(db, p, via)
    OBVIOUS
  <2>2. s \in StateType /\ s.orders = db.orders /\ db.txs \subseteq s.txs /\ Single(s) /\ Recorded(s, p)
    BY <1>2, <1>5, <2>1, DbType, ConfirmRecords
  <2>3. handler' = [handler EXCEPT ![i].at = "save", ![i].next = s]
    BY <1>5, <2>1 DEF Going
  <2>4. Extends(i, s.orders)
    BY <1>2, <2>2, SameOrders
  <2> QED BY <1>1, <1>2, <2>2, <2>3, <2>4, Loads
<1>6. CASE ~Recorded(db, p) /\ Going(i, "save", Confirm(db, p, TRUE))
  BY <1>5, <1>6
<1>7. CASE ~Recorded(db, p) /\ Going(i, "save", Confirm(db, p, FALSE))
  BY <1>5, <1>7
<1> QED BY <1>1, <1>3, <1>4, <1>6, <1>7

\* The provider has answered: the intent changes in the state that is to be saved.
LEMMA Holds ==
  ASSUME Inv, NEW i \in Handlers, handler[i].at \in {"call", "query"}, NEW s, Same(handler[i].next, s),
         handler' = [handler EXCEPT ![i].at = "save", ![i].next = s],
         UNCHANGED <<db, mapping, claim, event, saves, mishaps>>
  PROVE  Inv'
<1> DEFINE x == [handler[i] EXCEPT !.at = "save", !.next = s]
<1>1. Job(i) \in {"prompt", "check"} /\ handler[i].next \in StateType /\ Single(handler[i].next)
  BY DEF Inv, Placed, Holding
<1>2. Job(i) \notin Importing /\ Job(i) \notin Paying /\ Job(i) # "cancelled"
  BY <1>1 DEF Importing, Paying
<1>3. handler[i] \in HandlerType /\ handler[i].job \in Jobs /\ handler[i].job \notin Keys
  BY <1>1, OfTypes
<1>4. s \in StateType /\ s.orders = handler[i].next.orders /\ s.txs = handler[i].next.txs
  BY DEF Same
<1>5. /\ x \in HandlerType /\ x.at = "save" /\ x.job = handler[i].job /\ x.replay = handler[i].replay
      /\ x.next = s /\ x.stale = handler[i].stale
  <2>1. PICK h : h = handler[i]
    OBVIOUS
  <2>2. x = [h EXCEPT !.at = "save", !.next = s] /\ h \in HandlerType /\ "save" \in Places /\ s \in StateType
    BY <1>3, <1>4, <2>1 DEF Places, Before
  <2> HIDE DEF x
  <2>3. x \in HandlerType /\ x.at = "save" /\ x.job = h.job /\ x.replay = h.replay /\ x.next = s /\ x.stale = h.stale
    BY ONLY <2>2 DEF HandlerType
  <2> QED BY <2>1, <2>3
<1>6. handler' = [handler EXCEPT ![i] = x] /\ handler'[i] = x
  BY DEF Inv, EventsType
<1> HIDE DEF x
<1>7. /\ Job(i)' = Job(i) /\ Of(i)' = Of(i) /\ handler'[i].at = "save" /\ handler'[i].next = s
      /\ handler'[i].job = handler[i].job
  BY <1>5, <1>6 DEF Job, Of
<1>8. handler'[i].stale <=> handler[i].stale
  BY <1>5, <1>6
<1>9. Single(s)
  BY <1>1, <1>4 DEF Single
<1>10. Placed(i)'
  BY <1>2, <1>3, <1>4, <1>7, <1>9 DEF Placed, Single
<1>11. Achieved(i)'
  <2>1. Achieved(i)
    BY DEF Inv
  <2>2. "overwritten" \notin mishaps /\ ~handler[i].stale => db.txs \subseteq s.txs
    BY <1>4, <2>1 DEF Achieved, Holding
  <2> QED BY <1>2, <1>7, <1>8, <2>2 DEF Achieved
<1>12. Calm' => WorkGood(i)'
  <2> SUFFICES ASSUME Calm PROVE WorkGood(i)'
    BY DEF Calm
  <2>1. WorkGood(i)
    BY DEF Inv, OrderInv
  <2>2. ~handler[i].stale => Follows(i)
    BY <2>1 DEF WorkGood, Holding
  <2>3. Follows(i) => Follows(i)'
    BY <1>4, <1>7 DEF Follows, Extends
  <2> QED BY <1>2, <1>7, <1>8, <2>2, <2>3 DEF WorkGood
<1>13. \A o \in Orders : i \notin Working(o)'
  BY <1>1, <1>7 DEF Working
<1> QED BY <1>3, <1>5, <1>6, <1>10, <1>11, <1>12, <1>13, Goes

LEMMA CallInv == ASSUME Inv, NEW i \in Handlers, Call(i) PROVE Inv'
<1>1. handler[i].at = "call" /\ UNCHANGED <<db, mapping, claim, event, saves, mishaps>>
  BY DEF Call, Logged
<1>2. PICK ok \in BOOLEAN : handler' = [handler EXCEPT ![i].at = "save", ![i].next =
                              IF ok THEN MarkIntentInitiated(@, Of(i)) ELSE FailIntent(@, Of(i))]
  BY DEF Call
<1>3. handler[i].next \in StateType /\ Of(i) \in Intents
  BY <1>1, OfTypes DEF Inv, Placed, Holding
<1>4. PICK s : s = IF ok THEN MarkIntentInitiated(handler[i].next, Of(i)) ELSE FailIntent(handler[i].next, Of(i))
  OBVIOUS
<1>5. Same(handler[i].next, s)
  BY <1>3, <1>4, MarkInitiatedSame, FailIntentSame
<1>6. handler' = [handler EXCEPT ![i].at = "save", ![i].next = s]
  BY <1>2, <1>4 DEF Inv, EventsType, HandlerType
<1> QED BY <1>1, <1>5, <1>6, Holds

LEMMA QueryInv == ASSUME Inv, NEW i \in Handlers, Query(i) PROVE Inv'
<1>1. handler[i].at = "query" /\ UNCHANGED <<db, mapping, claim, event, saves, mishaps>>
  BY DEF Query, Logged, Quiet
<1>2. \/ handler' = [handler EXCEPT ![i].at = "save", ![i].next = FailIntent(@, Of(i))]
      \/ Go(i, "save")
      \/ Stop(i)
  BY DEF Query
<1>3. handler[i].next \in StateType /\ Of(i) \in Intents /\ handler[i] \in HandlerType
  BY <1>1, OfTypes DEF Inv, Placed, Holding
<1>4. CASE handler' = [handler EXCEPT ![i].at = "save", ![i].next = FailIntent(@, Of(i))]
  <2>1. PICK s : s = FailIntent(handler[i].next, Of(i))
    OBVIOUS
  <2>2. Same(handler[i].next, s)
    BY <1>3, <2>1, FailIntentSame
  <2>3. handler' = [handler EXCEPT ![i].at = "save", ![i].next = s]
    BY <1>4, <2>1 DEF Inv, EventsType, HandlerType
  <2> QED BY <1>1, <2>2, <2>3, Holds
<1>5. CASE Go(i, "save")
  <2>1. PICK s : s = handler[i].next
    OBVIOUS
  <2>2. Same(handler[i].next, s)
    BY <1>3, <2>1 DEF Same
  <2>3. handler' = [handler EXCEPT ![i].at = "save", ![i].next = s]
    BY <1>3, <1>5, <2>1 DEF Go, Inv, EventsType, HandlerType
  <2> QED BY <1>1, <2>2, <2>3, Holds
<1>6. CASE Stop(i)
  BY <1>1, <1>6, Stops DEF Stop
<1> QED BY <1>2, <1>4, <1>5, <1>6

LEMMA ThrowInv == ASSUME Inv, NEW i \in Handlers, Throw(i) PROVE Inv'
<1> DEFINE x == [handler[i] EXCEPT !.at = "failed", !.next = NoState, !.stale = FALSE]
<1>1. /\ handler[i].job \in Keys /\ handler[i].at # "claimed" /\ UNCHANGED <<db, mapping, claim, event, saves>>
      /\ handler' = [handler EXCEPT ![i].at = "failed", ![i].next = NoState, ![i].stale = FALSE]
      /\ mishaps' = mishaps \cup Unmapped(i)
  BY DEF Throw, Logged
<1>2. handler[i].at # "idle"
  BY <1>1, NoJob, IdleType DEF Inv, Placed
<1>3. x \in HandlerType /\ x.at = "failed" /\ x.job = handler[i].job /\ x.replay = handler[i].replay
  <2>1. handler[i] \in HandlerType
    BY <1>2, OfTypes
  <2>2. PICK h : h = handler[i]
    OBVIOUS
  <2>3. x = [h EXCEPT !.at = "failed", !.next = NoState, !.stale = FALSE] /\ h \in HandlerType /\ "failed" \in Places
    BY <2>1, <2>2 DEF Places
  <2> HIDE DEF x
  <2>4. x \in HandlerType /\ x.at = "failed" /\ x.job = h.job /\ x.replay = h.replay
    BY ONLY <2>3 DEF HandlerType
  <2> QED BY <2>2, <2>4
<1>4. handler' = [handler EXCEPT ![i] = x]
  BY <1>1 DEF Inv, EventsType
<1> HIDE DEF x
<1>5. Calm' => handler[i].at # "map"
  BY <1>1 DEF Calm, Unmapped
<1> QED BY <1>1, <1>2, <1>3, <1>4, <1>5, Fails

LEMMA CrashInv == ASSUME Inv, NEW i \in Handlers, Crash(i) PROVE Inv'
<1>1. /\ UNCHANGED <<db, mapping, claim, event, saves>> /\ handler' = [handler EXCEPT ![i] = Idle]
      /\ mishaps' = mishaps \cup Unmapped(i) \cup (IF handler[i].at = "claimed" THEN {"unlogged"} ELSE {})
  BY DEF Crash, Logged, Stop
<1>2. Calm' => handler[i].at # "map"
  BY <1>1 DEF Calm, Unmapped
<1>3. mishaps \subseteq mishaps' /\ (handler[i].at = "claimed" => "unlogged" \in mishaps')
  BY <1>1
<1> QED BY <1>1, <1>2, <1>3, Stops

LEMMA NothingInv == ASSUME Inv, NEW i \in Handlers, Nothing(i) PROVE Inv'
<1>1. /\ UNCHANGED <<db, mapping, claim, event, saves, mishaps>> /\ handler' = [handler EXCEPT ![i] = Idle]
      /\ handler[i].at = "load"
  BY DEF Nothing, Logged, Quiet, Stop, At
<1> QED BY <1>1, Stops

-----------------------------------------------------------------------------
(* Where a handler begins                                                    *)

\* A new handler, with the facts that hold wherever it begins.
LEMMA Begun ==
  ASSUME Inv, NEW i \in Handlers, NEW job \in Jobs, NEW pc \in {"claimed", "look", "load"}, NEW replay \in BOOLEAN,
         Begin(i, job, pc, replay), UNCHANGED <<db, mapping, saves, mishaps>>,
         pc = "claimed" => job \in Keys /\ ~replay, pc = "look" => job \in OrderKeys, pc = "load" => job \notin OrderKeys,
         event' = event,
         claim' \in [Keys -> {"none", "PROCESSING", "COMPLETED"}], ClaimInv'
  PROVE  Inv'
<1> DEFINE x == [Idle EXCEPT !.job = job, !.at = pc, !.replay = replay]
<1>1. handler[i] = Idle /\ handler' = [handler EXCEPT ![i] = x]
  BY DEF Begin
<1>2. x \in HandlerType /\ x.job = job /\ x.at = pc /\ x.replay = replay
  <2>1. PICK h : h = Idle
    OBVIOUS
  <2>2. x = [h EXCEPT !.job = job, !.at = pc, !.replay = replay] /\ h \in HandlerType /\ pc \in Places
    BY <2>1, IdleType DEF Places, Before
  <2> HIDE DEF x
  <2> QED BY ONLY <2>2, job \in Jobs, replay \in BOOLEAN DEF HandlerType
<1> HIDE DEF x
<1>3. handler'[i] = x /\ EventsType'
  BY <1>1, <1>2 DEF Inv, EventsType
<1>4. Job(i)' = job[1] /\ Of(i)' = job[2] /\ handler'[i].at = pc /\ handler'[i].job = job
  BY <1>2, <1>3 DEF Job, Of
<1>5. handler'[i].replay <=> replay
  BY <1>2, <1>3
<1>6. pc = "load" => job[1] \notin {"created", "cancelled", "recovery"}
  BY JobTypes, KeyTypes
<1>7. Placed(i)'
  BY <1>4, <1>5 DEF Placed, Holding
<1>8. Achieved(i)'
  BY <1>4 DEF Achieved, Holding
<1>9. WorkGood(i)'
  BY <1>4, <1>6 DEF WorkGood, Holding, Importing
<1>10. \A o \in Orders : i \notin Working(o)'
  BY <1>4, <1>6 DEF Working
<1>11. EffectInv'
  BY EffectsKept
<1>12. Calm' => \A o \in Orders : event'[<<"cancelled", o>>] = "PROCESSED" => Cancelled(o)
  BY DEF Calm, Inv, OrderInv, OrderGood
<1>13. handler[i].at = "idle"
  BY <1>1, IdleType
<1>14. OrderInv'
  BY <1>1, <1>2, <1>9, <1>10, <1>12, <1>13, OrdersKept
<1> QED BY <1>1, <1>2, <1>3, <1>7, <1>8, <1>11, <1>14, Steps

\* A new handler that has claimed nothing.
LEMMA BegunUnclaimed ==
  ASSUME Inv, NEW i \in Handlers, NEW job \in Jobs, NEW pc \in {"look", "load"}, NEW replay \in BOOLEAN,
         Begin(i, job, pc, replay), UNCHANGED <<db, mapping, claim, event, saves, mishaps>>, job \in Keys => replay,
         pc = "look" => job \in OrderKeys, pc = "load" => job \notin OrderKeys
  PROVE  Inv'
<1> DEFINE x == [Idle EXCEPT !.job = job, !.at = pc, !.replay = replay]
<1>1. handler[i] = Idle /\ handler' = [handler EXCEPT ![i] = x]
  BY DEF Begin
<1>2. x \in HandlerType /\ x.job = job /\ x.at = pc /\ x.replay = replay
  <2>1. PICK h : h = Idle
    OBVIOUS
  <2>2. x = [h EXCEPT !.job = job, !.at = pc, !.replay = replay] /\ h \in HandlerType /\ pc \in Places
    BY <2>1, IdleType DEF Places, Before
  <2> HIDE DEF x
  <2> QED BY ONLY <2>2, job \in Jobs, replay \in BOOLEAN DEF HandlerType
<1> HIDE DEF x
<1>3. handler[i].at # "claimed" /\ ~(x.job \in Keys /\ ~x.replay)
  BY <1>1, <1>2, IdleType
<1>4. ClaimInv'
  BY <1>1, <1>2, <1>3, ClaimsKept
<1>5. claim' \in [Keys -> {"none", "PROCESSING", "COMPLETED"}]
  BY DEF Inv, EventsType
<1> QED BY <1>4, <1>5, Begun

LEMMA StartJobInv == ASSUME Inv, NEW i \in Handlers, NEW job \in Jobs, StartJob(i, job) PROVE Inv'
<1>1. /\ job[1] \in {"prompt", "check", "release"} /\ Begin(i, job, "load", FALSE)
      /\ UNCHANGED <<db, mapping, claim, event, saves, mishaps>>
  BY DEF StartJob, Logged
<1>2. job \notin Keys /\ job \notin OrderKeys
  BY <1>1, JobTypes DEF Keys
<1> QED BY <1>1, <1>2, BegunUnclaimed

LEMMA ReplayEventInv == ASSUME Inv, NEW i \in Handlers, NEW k \in Keys, ReplayEvent(i, k) PROVE Inv'
<1>1. /\ Begin(i, k, IF k \in OrderKeys THEN "look" ELSE "load", TRUE)
      /\ UNCHANGED <<db, mapping, claim, event, saves, mishaps>>
  BY DEF ReplayEvent, Logged
<1>2. k \in Jobs
  BY NoJob
<1>3. CASE k \in OrderKeys
  BY <1>1, <1>2, <1>3, BegunUnclaimed
<1>4. CASE k \notin OrderKeys
  BY <1>1, <1>2, <1>4, BegunUnclaimed
<1> QED BY <1>3, <1>4

LEMMA ReceiveInv == ASSUME Inv, NEW i \in Handlers, NEW k \in Keys, Receive(i, k) PROVE Inv'
<1>1. /\ claim[k] = "none" /\ Begin(i, k, "claimed", FALSE) /\ claim' = [claim EXCEPT ![k] = "PROCESSING"]
      /\ UNCHANGED <<db, mapping, event, saves, mishaps>>
  BY DEF Receive, Claimable
<1>2. k \in Jobs
  BY NoJob
<1>3. claim' \in [Keys -> {"none", "PROCESSING", "COMPLETED"}] /\ claim'[k] = "PROCESSING"
  BY <1>1 DEF Inv, EventsType
<1>4. /\ handler[i] = Idle /\ handler'[i] = [Idle EXCEPT !.job = k, !.at = "claimed", !.replay = FALSE]
      /\ \A j \in Handlers : j # i => handler'[j] = handler[j]
  BY <1>1 DEF Begin, Inv, EventsType
<1>5. handler'[i].job = k /\ handler'[i].at = "claimed" /\ ~handler'[i].replay
  BY <1>4 DEF Idle
<1>6. saves[k] = 0 /\ event[k] = "none" /\ \A j \in Handlers : ~Claims(j, k)
  BY <1>1 DEF Inv, ClaimInv, ClaimGood
<1>7. Claims(i, k)' /\ \A j \in Handlers : j # i => ~Claims(j, k)'
  BY <1>4, <1>5, <1>6 DEF Claims
<1>8. ASSUME NEW m \in Keys, m # k
      PROVE  claim'[m] = claim[m] /\ \A j \in Handlers : /\ Claims(j, m)' <=> Claims(j, m)
                                                         /\ Claims(j, m) => handler'[j] = handler[j]
  <2>1. ~Claims(i, m) /\ ~Claims(i, m)'
    BY <1>4, <1>5, <1>8, IdleType, NoJob DEF Claims
  <2> QED BY <1>1, <1>4, <1>8, <2>1 DEF Claims, Inv, EventsType
<1>9. ClaimInv'
  <2>1. ASSUME NEW m \in Keys, m # k PROVE ClaimGood(m)'
    BY <1>1, <1>8, <2>1 DEF Inv, ClaimInv, ClaimGood
  <2>2. ClaimGood(k)'
    BY <1>1, <1>3, <1>5, <1>6, <1>7 DEF ClaimGood
  <2> QED BY <2>1, <2>2 DEF ClaimInv
<1> QED BY <1>1, <1>2, <1>3, <1>9, Begun

\* The claims of the other events, when a handler writes the row of the one it has claimed.
LEMMA ClaimWritten ==
  ASSUME Inv, NEW i \in Handlers, NEW k \in Keys, Claims(i, k), NEW x \in HandlerType,
         handler' = [handler EXCEPT ![i] = x],
         event' \in [Keys -> EventType], claim' \in [Keys -> {"none", "PROCESSING", "COMPLETED"}],
         event'[k] # "none", claim'[k] # "none",
         \A m \in Keys : m # k => event'[m] = event[m] /\ claim'[m] = claim[m],
         UNCHANGED <<saves, mishaps>>,
         x = Idle \/ (x.job = k /\ ~x.replay /\ (x.at \in Before => handler[i].at \in Before))
  PROVE  ClaimInv'
<1>1. handler'[i] = x /\ \A j \in Handlers : j # i => handler'[j] = handler[j]
  BY DEF Inv, EventsType
<1>2. ASSUME NEW m \in Keys PROVE ClaimGood(m)'
  <2>0. ClaimGood(m)
    BY DEF Inv, ClaimInv
  <2>1. CASE m = k
    <3>1. \A j \in Handlers : Claims(j, k) => j = i
      BY <2>0, <2>1 DEF ClaimGood
    <3>2. \A j \in Handlers : Claims(j, k)' => j = i
      BY <1>1, <3>1 DEF Claims
    <3>3. Claims(i, k)' => (handler'[i].at \in Before => handler[i].at \in Before)
      BY <1>1, IdleType, NoJob DEF Claims
    <3> QED BY <2>0, <2>1, <3>2, <3>3 DEF ClaimGood
  <2>2. CASE m # k
    <3>1. ~Claims(i, m) /\ ~Claims(i, m)'
      BY <1>1, <2>2, IdleType, NoJob DEF Claims
    <3>2. \A j \in Handlers : /\ Claims(j, m)' <=> Claims(j, m)
                              /\ Claims(j, m) => handler'[j] = handler[j]
      BY <1>1, <3>1 DEF Claims
    <3> QED BY <2>0, <2>2, <3>2 DEF ClaimGood
  <2> QED BY <2>1, <2>2
<1> QED BY <1>2 DEF ClaimInv

LEMMA AppendEventInv == ASSUME Inv, NEW i \in Handlers, AppendEvent(i) PROVE Inv'
<1> DEFINE k == handler[i].job
           pc == IF k \in OrderKeys THEN "look" ELSE "load"
           x == [handler[i] EXCEPT !.at = pc]
<1>1. /\ handler[i].at = "claimed" /\ event' = [event EXCEPT ![k] = "PROCESSING"]
      /\ handler' = [handler EXCEPT ![i].at = pc] /\ UNCHANGED <<db, mapping, claim, saves, mishaps>>
  BY DEF AppendEvent, Go, Quiet
<1>2. k \in Keys /\ ~handler[i].replay /\ handler[i] \in HandlerType /\ k \in Jobs
  BY <1>1, OfTypes DEF Inv, Placed
<1>3. pc \in Places /\ pc \in {"look", "load"} /\ (pc = "look" => k \in OrderKeys) /\ (pc = "load" => k \notin OrderKeys)
  BY DEF Places, Before
<1> HIDE DEF pc
<1>4. x \in HandlerType /\ x.at = pc /\ x.job = k
  BY <1>2, <1>3, Edits
<1>5. x.replay <=> handler[i].replay
  BY <1>2, <1>3, Edits
<1>6. handler' = [handler EXCEPT ![i] = x] /\ handler'[i] = x
  BY <1>1 DEF Inv, EventsType
<1> HIDE DEF x
<1>7. Job(i)' = Job(i) /\ Of(i)' = Of(i) /\ handler'[i].at = pc /\ handler'[i].job = k
  BY <1>4, <1>6 DEF Job, Of
<1>8. /\ event' \in [Keys -> EventType] /\ event'[k] = "PROCESSING" /\ \A m \in Keys : m # k => event'[m] = event[m]
  BY <1>1, <1>2 DEF Inv, EventsType, EventType
<1>9. EventsType'
  BY <1>1, <1>4, <1>6, <1>8 DEF Inv, EventsType
<1>10. pc = "load" => Job(i) \notin {"created", "cancelled", "recovery"}
  BY <1>2, <1>3, KeyTypes DEF Job
<1>11. Placed(i)'
  BY <1>2, <1>3, <1>7 DEF Placed, Holding
<1>12. Achieved(i)'
  BY <1>3, <1>7 DEF Achieved, Holding
<1>13. WorkGood(i)'
  BY <1>3, <1>7, <1>10 DEF WorkGood, Holding, Importing
<1>14. \A o \in Orders : i \notin Working(o)'
  BY <1>3, <1>7, <1>10 DEF Working
<1>15. Claims(i, k)
  BY <1>2 DEF Claims
<1>16. claim[k] # "none"
  BY <1>2, <1>15 DEF Inv, ClaimInv, ClaimGood
<1>17. PICK key : key = k
  OBVIOUS
<1>18. ClaimInv'
  <2>1. x.job = key /\ ~x.replay /\ key \in Keys /\ Claims(i, key)
    BY <1>2, <1>4, <1>5, <1>15, <1>17
  <2>2. event'[key] # "none" /\ claim'[key] # "none" /\ \A m \in Keys : m # key => event'[m] = event[m] /\ claim'[m] = claim[m]
    BY <1>1, <1>8, <1>16, <1>17
  <2>3. handler[i].at \in Before /\ claim' \in [Keys -> {"none", "PROCESSING", "COMPLETED"}]
    BY <1>1 DEF Before, Inv, EventsType
  <2>4. /\ Inv /\ i \in Handlers /\ x \in HandlerType /\ handler' = [handler EXCEPT ![i] = x]
        /\ event' \in [Keys -> EventType] /\ UNCHANGED <<saves, mishaps>>
    BY <1>1, <1>4, <1>6, <1>8
  <2> QED BY ONLY <2>1, <2>2, <2>3, <2>4, ClaimWritten
<1>19. \A m \in Keys : event'[m] = "PROCESSED" => event[m] = "PROCESSED"
  BY <1>8
<1>20. EffectInv'
  BY <1>1, <1>19 DEF Inv, EffectInv, Recorded
<1>21. Calm' => \A o \in Orders : event'[<<"cancelled", o>>] = "PROCESSED" => Cancelled(o)
  <2>1. \A o \in Orders : <<"cancelled", o>> \in Keys
    BY DEF Keys, OrderKeys
  <2> QED BY <1>1, <1>19, <2>1 DEF Calm, Inv, OrderInv, OrderGood
<1>22. OrderInv'
  BY <1>1, <1>4, <1>6, <1>13, <1>14, <1>21, OrdersKept
<1> QED BY <1>1, <1>4, <1>6, <1>9, <1>11, <1>12, <1>18, <1>20, <1>22, Steps

-----------------------------------------------------------------------------
(* Where a handler ends                                                      *)

\* The row of the event is written, and the handler is gone.
LEMMA Ends ==
  ASSUME Inv, NEW i \in Handlers, NEW k \in Keys, Claims(i, k), handler[i].at \in {"done", "failed"},
         handler' = [handler EXCEPT ![i] = Idle], NEW v \in {"PROCESSED", "FAILED"},
         event' = [event EXCEPT ![k] = v], v = "PROCESSED" => handler[i].at = "done",
         claim' = claim \/ claim' = [claim EXCEPT ![k] = "COMPLETED"],
         UNCHANGED <<db, mapping, saves, mishaps>>
  PROVE  Inv'
<1>1. handler'[i] = Idle /\ handler[i].job = k /\ Job(i) = k[1] /\ Of(i) = k[2]
  BY DEF Inv, EventsType, Claims, Job, Of
<1>2. event' \in [Keys -> EventType] /\ event'[k] = v /\ \A m \in Keys : m # k => event'[m] = event[m]
  BY DEF Inv, EventsType, EventType
<1>3. claim[k] # "none"
  BY DEF Inv, ClaimInv, ClaimGood
<1>4. /\ claim' \in [Keys -> {"none", "PROCESSING", "COMPLETED"}] /\ claim'[k] # "none"
      /\ \A m \in Keys : m # k => claim'[m] = claim[m]
  BY <1>3 DEF Inv, EventsType
<1>5. EventsType'
  BY <1>2, <1>4, IdleType DEF Inv, EventsType
<1>6. ClaimInv'
  BY <1>2, <1>4, IdleType, ClaimWritten
<1>7. EffectInv'
  <2> SUFFICES ASSUME NEW m \in Keys, event'[m] = "PROCESSED"
               PROVE  /\ m[1] \in Importing => mapping[m[2]] # 0
                      /\ m[1] \in Paying /\ "overwritten" \notin mishaps => Recorded(db, m[2])
    BY DEF EffectInv, Recorded
  <2>1. CASE m # k
    BY <1>2, <2>1 DEF Inv, EffectInv
  <2>2. CASE m = k
    <3>1. handler[i].at = "done"
      BY <1>2, <2>2
    <3>2. Achieved(i)
      BY DEF Inv
    <3> QED BY <1>1, <2>2, <3>1, <3>2 DEF Achieved
  <2> QED BY <2>1, <2>2
<1>8. Placed(i)' /\ Achieved(i)' /\ WorkGood(i)'
  BY <1>1, IdleType DEF Placed, Achieved, WorkGood, Holding
<1>9. \A o \in Orders : i \notin Working(o)'
  BY <1>1, IdleType DEF Working
<1>10. ASSUME Calm', NEW o \in Orders, event'[<<"cancelled", o>>] = "PROCESSED" PROVE Cancelled(o)
  <2>0. Calm /\ <<"cancelled", o>> \in Keys
    BY <1>10 DEF Calm, Keys, OrderKeys
  <2>1. CASE k # <<"cancelled", o>>
    BY <1>2, <1>10, <2>0, <2>1 DEF Inv, OrderInv, OrderGood
  <2>2. CASE k = <<"cancelled", o>>
    <3>1. handler[i].at = "done" /\ Job(i) = "cancelled" /\ Of(i) = o
      BY <1>1, <1>2, <1>10, <2>2
    <3> QED BY <2>0, <3>1 DEF Inv, OrderInv, WorkGood
  <2> QED BY <2>1, <2>2
<1>11. OrderInv'
  BY <1>8, <1>9, <1>10, IdleType, OrdersKept
<1> QED BY <1>5, <1>6, <1>7, <1>8, <1>11, IdleType, Steps

LEMMA DoneInv == ASSUME Inv, NEW i \in Handlers, Done(i) PROVE Inv'
<1>1. handler[i].at = "done" /\ handler' = [handler EXCEPT ![i] = Idle] /\ UNCHANGED <<db, mapping, saves, mishaps>>
  BY DEF Done, Stop, Quiet
<1>2. CASE handler[i].job \in Keys /\ ~handler[i].replay
  <2>1. PICK k : k = handler[i].job
    OBVIOUS
  <2>2. event' = [event EXCEPT ![k] = "PROCESSED"] /\ claim' = [claim EXCEPT ![k] = "COMPLETED"]
    BY <1>2, <2>1 DEF Done
  <2>3. k \in Keys /\ Claims(i, k)
    BY <1>2, <2>1 DEF Claims
  <2> QED BY <1>1, <2>2, <2>3, Ends
<1>3. CASE ~(handler[i].job \in Keys /\ ~handler[i].replay)
  <2>1. UNCHANGED <<claim, event>>
    BY <1>3 DEF Done, Logged
  <2> QED BY <1>1, <2>1, Stops
<1> QED BY <1>2, <1>3

LEMMA CatchInv == ASSUME Inv, NEW i \in Handlers, Catch(i) PROVE Inv'
<1>1. handler[i].at = "failed" /\ handler' = [handler EXCEPT ![i] = Idle] /\ UNCHANGED <<db, mapping, claim, saves, mishaps>>
  BY DEF Catch, Stop, Quiet
<1>2. CASE handler[i].job \in Keys /\ ~handler[i].replay
  <2>1. PICK k : k = handler[i].job
    OBVIOUS
  <2>2. event' = [event EXCEPT ![k] = "FAILED"]
    BY <1>2, <2>1 DEF Catch
  <2>3. k \in Keys /\ Claims(i, k)
    BY <1>2, <2>1 DEF Claims
  <2> QED BY <1>1, <2>2, <2>3, Ends
<1>3. CASE ~(handler[i].job \in Keys /\ ~handler[i].replay)
  <2>1. event' = event
    BY <1>3 DEF Catch
  <2> QED BY <1>1, <2>1, Stops
<1> QED BY <1>2, <1>3

-----------------------------------------------------------------------------
(* Where a mapping is inserted                                               *)

LEMMA Mapped ==
  ASSUME Inv, NEW i \in Handlers, handler[i].at \in {"map", "tombstone"}, Go(i, "done"),
         NEW y, y = Of(i), mapping[y] = 0, NEW v \in Int, v # 0, mapping' = [mapping EXCEPT ![y] = v],
         UNCHANGED <<db, claim, event, saves, mishaps>>,
         Calm /\ y \in Orders => v \in Imports(y) \/ (v = -1 /\ Imports(y) = {}),
         Calm /\ Job(i) = "cancelled" => Imports(y) = {}
  PROVE  Inv'
<1> DEFINE x == [handler[i] EXCEPT !.at = "done"]
<1>1. /\ handler[i] \in HandlerType /\ handler[i].job \in Jobs
      /\ Job(i) \in {"created", "cancelled", "recovery"} => y \in Orders
      /\ Job(i) \in Paying => y \in Intents
      /\ Job(i) \in {"created", "cancelled", "recovery"} \cup Paying
  BY OfTypes DEF Inv, Placed, Importing, Paying
<1>2. x \in HandlerType /\ x.at = "done" /\ x.job = handler[i].job /\ x.replay = handler[i].replay
  BY <1>1, Edits DEF Places
<1>3. handler' = [handler EXCEPT ![i] = x] /\ handler'[i] = x /\ \A j \in Handlers : j # i => handler'[j] = handler[j]
  BY DEF Go, Inv, EventsType
<1> HIDE DEF x
<1>4. Job(i)' = Job(i) /\ Of(i)' = y /\ handler'[i].at = "done" /\ handler'[i].job = handler[i].job
  BY <1>2, <1>3 DEF Job, Of
<1>5. /\ mapping' \in [Orders \cup Intents -> Int] /\ mapping'[y] = v
      /\ \A z \in Orders \cup Intents : z # y => mapping'[z] = mapping[z]
  BY <1>1 DEF Inv, EventsType
<1>6. EventsType'
  BY <1>2, <1>3, <1>5 DEF Inv, EventsType
<1>7. \A z \in Orders \cup Intents : mapping[z] # 0 => mapping'[z] # 0
  BY <1>5
<1>8. Placed(i)'
  BY <1>1, <1>4 DEF Placed, Holding
<1>9. Achieved(i)'
  <2>1. Achieved(i)
    BY DEF Inv
  <2>2. handler[i].at = "tombstone" => Job(i) \notin Paying
    BY DEF Inv, Placed, Paying
  <2>3. Job(i) \in Paying /\ "overwritten" \notin mishaps => Recorded(db, y)
    BY <2>1, <2>2 DEF Achieved
  <2> QED BY <1>4, <1>5, <2>3 DEF Achieved, Holding, Recorded
<1>10. ClaimInv'
  <2>1. x.at \notin Before /\ handler[i].at # "claimed"
    BY <1>2 DEF Before
  <2> QED BY <1>2, <1>3, <2>1, ClaimsKept
<1>11. EffectInv'
  BY <1>7, EffectsKept
<1>12. OrderInv'
  <2> SUFFICES ASSUME Calm PROVE (\A o \in Orders : OrderGood(o)') /\ (\A j \in Handlers : WorkGood(j)')
    BY DEF OrderInv, Calm
  <2>0. (\A o \in Orders : OrderGood(o)) /\ (\A j \in Handlers : WorkGood(j))
    BY DEF Inv, OrderInv
  <2>1. \A o : Imports(o)' = Imports(o) /\ Live(o)' = Live(o)
    BY DEF Imports, Live
  <2>2. \A o : i \notin Working(o)' /\ Working(o)' \subseteq Working(o) /\ Working(o) \subseteq Working(o)' \cup {i}
    BY <1>3, <1>4 DEF Working, Job, Of
  <2>3. y \in Orders => Working(y) = {i}
    <3> SUFFICES ASSUME y \in Orders PROVE Working(y) = {i}
      OBVIOUS
    <3>1. Job(i) \in {"created", "cancelled", "recovery"}
      BY <1>1, ProviderEventsAssumption
    <3>2. i \in Working(y)
      BY <3>1 DEF Working
    <3>3. \A j, m \in Working(y) : j = m
      BY <2>0 DEF OrderGood
    <3> QED BY <3>2, <3>3
  <2>4. ASSUME NEW o \in Orders, Cancelled(o) PROVE Cancelled(o)'
    BY <1>7, <2>1, <2>4 DEF Cancelled
  <2>5. ASSUME NEW o \in Orders PROVE OrderGood(o)'
    <3>0. OrderGood(o)
      BY <2>0
    <3>1. CASE o = y
      <4>1. event[<<"cancelled", o>>] # "PROCESSED"
        BY <3>0, <3>1 DEF OrderGood, Cancelled
      <4>2. Working(o)' = {}
        BY <2>2, <2>3, <3>1
      <4>3. mapping'[o] = v
        BY <1>5, <3>1
      <4>4. v \in Imports(o) => v # -1
        BY DbType DEF Imports
      <4>5. v \in Imports(o) \/ (v = -1 /\ Imports(o) = {})
        BY <3>1
      <4> QED BY <2>1, <3>0, <4>1, <4>2, <4>3, <4>4, <4>5 DEF OrderGood
    <3>2. CASE o # y
      <4>1. mapping'[o] = mapping[o]
        BY <1>5, <3>2
      <4>2. i \notin Working(o)
        BY <3>2 DEF Working
      <4>3. Working(o)' = Working(o) /\ \A j \in Working(o) : handler'[j] = handler[j]
        BY <1>3, <2>2, <4>2 DEF Working
      <4> QED BY <2>1, <2>4, <3>0, <4>1, <4>3 DEF OrderGood
    <3> QED BY <3>1, <3>2
  <2>6. ASSUME NEW j \in Handlers, j # i PROVE WorkGood(j)'
    <3>0. WorkGood(j) /\ handler'[j] = handler[j] /\ Job(j)' = Job(j) /\ Of(j)' = Of(j)
      BY <1>3, <2>0, <2>6 DEF Job, Of
    <3>1. Job(j) \in {"created", "cancelled", "recovery"} /\ handler[j].at # "idle" => Of(j) \in Orders
      BY OfTypes
    <3>2. Job(j) \in {"created", "cancelled", "recovery"} /\ handler[j].at \in {"load", "save", "map"} =>
            mapping'[Of(j)] = mapping[Of(j)]
      <4> SUFFICES ASSUME Job(j) \in {"created", "cancelled", "recovery"}, handler[j].at \in {"load", "save", "map"}
                   PROVE  Of(j) # y
        BY <1>5, <3>1
      <4>1. j \in Working(Of(j))
        BY DEF Working
      <4> QED BY <2>3, <2>6, <3>1, <4>1
    <3>3. handler[j].at = "done" /\ Job(j) = "cancelled" => Cancelled(Of(j))'
      BY <2>4, <3>0, <3>1 DEF WorkGood
    <3>4. ASSUME handler[j].at \in Holding, Follows(j) PROVE Follows(j)'
      <4>1. Job(j) = "cancelled" => handler[j].at = "save"
        BY <3>4 DEF Holding, Inv, Placed
      <4>2. Job(j) = "cancelled" => mapping'[Of(j)] = mapping[Of(j)]
        BY <3>2, <4>1
      <4> QED BY <3>0, <3>4, <4>2 DEF Follows, Extends
    <3> QED BY <2>1, <3>0, <3>2, <3>3, <3>4 DEF WorkGood, Importing
  <2>7. WorkGood(i)'
    <3>1. Job(i) = "cancelled" => Live(y) = {}
      BY DEF Imports, Live
    <3> QED BY <1>4, <1>5, <2>1, <3>1 DEF WorkGood, Holding, Cancelled
  <2> QED BY <2>5, <2>6, <2>7
<1> QED BY <1>2, <1>3, <1>6, <1>7, <1>8, <1>9, <1>10, <1>11, <1>12, Steps

LEMMA TombstoneInv == ASSUME Inv, NEW i \in Handlers, Tombstone(i) PROVE Inv'
<1>1. handler[i].at = "tombstone" /\ UNCHANGED <<db, claim, event, saves, mishaps>>
  BY DEF Tombstone, Logged, Quiet
<1>2. CASE mapping[Of(i)] = 0 /\ mapping' = [mapping EXCEPT ![Of(i)] = -1] /\ Go(i, "done")
  <2>1. PICK y : y = Of(i)
    OBVIOUS
  <2>2. Job(i) = "cancelled" /\ y \in Orders
    BY <1>1, <2>1, OfTypes DEF Inv, Placed
  <2>3. ASSUME Calm PROVE Imports(y) = {}
    <3>1. OrderGood(y)
      BY <2>2, <2>3 DEF Inv, OrderInv
    <3>2. i \in Working(y)
      BY <1>1, <2>1, <2>2 DEF Working
    <3>3. \A j \in Working(y) : handler[j].at # "map"
      BY <1>1, <3>1, <3>2 DEF OrderGood
    <3> QED BY <1>2, <2>1, <3>1, <3>3 DEF OrderGood
  <2>4. PICK v : v = -1
    OBVIOUS
  <2>5. /\ v \in Int /\ v # 0 /\ mapping[y] = 0 /\ mapping' = [mapping EXCEPT ![y] = v] /\ Go(i, "done")
        /\ Calm => v = -1 /\ Imports(y) = {}
    BY <1>2, <2>1, <2>3, <2>4
  <2> QED BY <1>1, <2>1, <2>5, Mapped
<1>3. CASE Go(i, "failed") /\ UNCHANGED mapping
  BY <1>1, <1>3, GoesToFailed
<1> QED BY <1>2, <1>3 DEF Tombstone

LEMMA MapInv == ASSUME Inv, NEW i \in Handlers, Map(i) PROVE Inv'
<1>1. handler[i].at = "map" /\ UNCHANGED <<db, claim, event, saves, mishaps>> /\ Job(i) \in Importing \cup Paying
  BY DEF Map, Logged, Quiet, Inv, Placed
<1>2. PICK y : y = Of(i)
  OBVIOUS
<1>3. PICK v : v = IF y \in Orders THEN Len(handler[i].next.orders) ELSE 1
  OBVIOUS
<1>4. y \in Orders => Job(i) \in Importing
  BY <1>1, <1>2, OfTypes, ProviderEventsAssumption DEF Paying
<1>5. Job(i) # "cancelled" /\ (Job(i) \in Importing => y \in Orders)
  BY <1>1, <1>2, OfTypes DEF Importing, Paying
<1>6. v \in Int /\ v # 0
  <2>1. y \in Orders => handler[i].next \in StateType /\ Len(handler[i].next.orders) > 0
    BY <1>1, <1>4 DEF Inv, Placed
  <2>2. y \in Orders => Len(handler[i].next.orders) \in Nat
    BY <2>1 DEF StateType
  <2> QED BY <1>3, <2>1, <2>2
<1>7. Calm /\ y \in Orders => v \in Imports(y)
  BY <1>1, <1>2, <1>3, <1>4 DEF Inv, OrderInv, WorkGood
<1>8. CASE mapping[y] = 0 /\ Go(i, "done") /\ mapping' = [mapping EXCEPT ![y] = v]
  BY <1>1, <1>2, <1>5, <1>6, <1>7, <1>8, Mapped
<1>9. CASE mapping[y] # 0 /\ Go(i, "failed") /\ UNCHANGED mapping
  <2>1. Calm /\ Job(i) \in Importing => mapping[y] = 0
    BY <1>1, <1>2 DEF Inv, OrderInv, WorkGood
  <2> QED BY <1>1, <1>9, <2>1, GoesToFailed
<1> QED BY <1>2, <1>3, <1>8, <1>9 DEF Map

-----------------------------------------------------------------------------
(* Where the state is saved                                                  *)

\* What a save leaves of the other handlers.
LEMMA OutdatedType ==
  ASSUME Inv, NEW j \in Handlers
  PROVE  /\ Outdated(handler)[j] \in HandlerType
         /\ Outdated(handler)[j].job = handler[j].job /\ Outdated(handler)[j].at = handler[j].at
         /\ Outdated(handler)[j].replay = handler[j].replay /\ Outdated(handler)[j].next = handler[j].next
         /\ Outdated(handler)[j].at \in Holding => Outdated(handler)[j].stale
         /\ handler[j] = Idle => Outdated(handler)[j] = Idle
<1>1. handler[j] \in HandlerType
  BY DEF Inv, EventsType
<1>2. PICK h : h = handler[j]
  OBVIOUS
<1>3. PICK x : x = Outdated(handler)[j]
  OBVIOUS
<1>4. x = IF h.at \in Holding THEN [h EXCEPT !.stale = TRUE] ELSE h
  BY <1>2, <1>3 DEF Outdated
<1>5. x \in HandlerType /\ x.job = h.job /\ x.at = h.at /\ x.replay = h.replay /\ x.next = h.next
  BY ONLY <1>1, <1>2, <1>4 DEF HandlerType
<1>6. h.at \in Holding => x.stale
  BY ONLY <1>1, <1>2, <1>4 DEF HandlerType
<1>7. h = Idle => x = Idle
  BY <1>4, IdleType DEF Holding
<1> QED BY <1>2, <1>3, <1>5, <1>6, <1>7

LEMMA Elsewhere ==
  ASSUME Inv, NEW j \in Handlers, handler'[j] = Outdated(handler)[j], UNCHANGED mapping, mishaps \subseteq mishaps',
         "overwritten" \notin mishaps' => db.txs \subseteq db'.txs
  PROVE  Placed(j)' /\ Achieved(j)'
<1>1. /\ handler'[j].job = handler[j].job /\ handler'[j].at = handler[j].at
      /\ handler'[j].next = handler[j].next /\ Job(j)' = Job(j) /\ Of(j)' = Of(j)
      /\ handler[j] = Idle => handler'[j] = Idle
  BY OutdatedType DEF Job, Of
<1>2. handler'[j].at \in Holding => handler'[j].stale
  BY OutdatedType
<1>3. handler'[j].replay <=> handler[j].replay
  BY OutdatedType
<1>4. Placed(j) /\ Achieved(j)
  BY DEF Inv
<1>5. Placed(j)'
  BY <1>1, <1>3, <1>4 DEF Placed, Single
<1>6. "overwritten" \notin mishaps' /\ Recorded(db, Of(j)) => Recorded(db, Of(j))'
  BY <1>1 DEF Recorded
<1>7. Achieved(j)'
  BY <1>1, <1>2, <1>4, <1>6 DEF Achieved, Recorded
<1> QED BY <1>5, <1>7

LEMMA ElsewhereWorks ==
  ASSUME Inv, NEW j \in Handlers, handler'[j] = Outdated(handler)[j], UNCHANGED mapping, Calm,
         \A o \in Orders : Imports(o) \subseteq Imports(o)' /\ (Cancelled(o) => Cancelled(o)')
  PROVE  WorkGood(j)'
<1>1. /\ handler'[j].at = handler[j].at
      /\ handler'[j].next = handler[j].next /\ Job(j)' = Job(j) /\ Of(j)' = Of(j)
  BY OutdatedType DEF Job, Of
<1>2. handler'[j].at \in Holding => handler'[j].stale
  BY OutdatedType
<1>3. WorkGood(j)
  BY DEF Inv, OrderInv
<1>4. Job(j) \in {"created", "cancelled", "recovery"} /\ handler[j].at # "idle" => Of(j) \in Orders
  BY OfTypes
<1>5. Job(j) \in Importing => Job(j) \in {"created", "cancelled", "recovery"}
  BY DEF Importing
<1>6. PICK o : o = Of(j)
  OBVIOUS
<1>7. handler[j].at = "done" /\ Job(j) = "cancelled" => Cancelled(o)'
  BY <1>3, <1>4, <1>6 DEF WorkGood
<1>8. handler[j].at = "map" /\ Job(j) \in Importing => Len(handler[j].next.orders) \in Imports(o)'
  BY <1>3, <1>4, <1>5, <1>6 DEF WorkGood
<1>9. Of(j)' = o
  BY <1>1, <1>6
<1> QED BY <1>1, <1>2, <1>3, <1>6, <1>7, <1>8, <1>9 DEF WorkGood, Imports, Cancelled, Live

LEMMA StaffInv ==
  ASSUME Inv, NEW n \in DOMAIN db.orders, NEW st \in {"SENT", "PAID", "CANCELLED"}, Staff(n, st) PROVE Inv'
<1> DEFINE was == db.orders[n].status = "CANCELLED"
           r == [db.orders[n] EXCEPT !.status = st, !.paidAfter = @ \/ was]
           q == [db.orders EXCEPT ![n] = r]
<1>1. /\ db' = [db EXCEPT !.orders[n].status = st, !.orders[n].paidAfter = @ \/ was]
      /\ handler' = Outdated(handler) /\ UNCHANGED <<mapping, claim, event, saves, mishaps>>
  BY DEF Staff, Logged
<1>2. r \in OrderType /\ r.ext = db.orders[n].ext /\ (Dead(db.orders[n]) => Dead(r))
  <2>1. db.orders[n] \in OrderType /\ was \in BOOLEAN
    BY DbType
  <2>2. r \in OrderType /\ r.ext = db.orders[n].ext
    BY <2>1 DEF OrderType
  <2>3. Dead(db.orders[n]) => Dead(r)
    BY <2>1 DEF OrderType, Dead
  <2> QED BY <2>2, <2>3
<1>3. db' = [db EXCEPT !.orders = q]
  BY <1>1, DbType DEF StateType
<1> HIDE DEF r
<1>4. /\ q \in Seq(OrderType) /\ DOMAIN q = DOMAIN db.orders /\ q[n] = r
      /\ \A m \in DOMAIN db.orders : m # n => q[m] = db.orders[m]
  BY <1>2, DbType
<1> HIDE DEF q
<1>5. db' \in StateType /\ db'.orders = q /\ db'.txs = db.txs
  BY <1>3, <1>4, DbType, WithOrders
<1>6. \A j \in Handlers : /\ handler'[j] = Outdated(handler)[j] /\ handler'[j].job = handler[j].job
                          /\ handler'[j].at = handler[j].at /\ (handler'[j].replay <=> handler[j].replay)
  BY <1>1, OutdatedType
<1>7. EventsType'
  <2>1. handler' \in [Handlers -> HandlerType]
    BY <1>1, OutdatedType DEF Outdated
  <2> QED BY <1>1, <1>5, <2>1 DEF Inv, EventsType
<1>8. \A j \in Handlers : Placed(j)' /\ Achieved(j)'
  BY <1>1, <1>5, <1>6, Elsewhere
<1>9. ClaimInv'
  <2>1. \A j \in Handlers, k \in Keys : Claims(j, k)' <=> Claims(j, k)
    BY <1>6 DEF Claims
  <2> QED BY <1>1, <1>6, <2>1 DEF Inv, ClaimInv, ClaimGood
<1>10. EffectInv'
  BY <1>1, <1>5 DEF Inv, EffectInv, Recorded
<1>11. ReceiptInv'
  BY <1>5 DEF Inv, ReceiptInv, Single
<1>12. OrderInv'
  <2> SUFFICES ASSUME Calm PROVE (\A o \in Orders : OrderGood(o)') /\ (\A j \in Handlers : WorkGood(j)')
    BY <1>1 DEF OrderInv, Calm
  <2>1. ASSUME NEW o \in Orders PROVE Imports(o)' = Imports(o) /\ Live(o)' \subseteq Live(o)
    <3>1. \A m \in DOMAIN db.orders : q[m].ext = db.orders[m].ext
      BY <1>2, <1>4
    <3>2. \A m \in DOMAIN db.orders : ~ Dead(q[m]) => ~ Dead(db.orders[m])
      BY <1>2, <1>4
    <3> QED BY <1>4, <1>5, <3>1, <3>2 DEF Imports, Live
  <2>2. \A o \in Orders : Cancelled(o) => Cancelled(o)'
    BY <1>1, <2>1 DEF Cancelled
  <2>3. ASSUME NEW j \in Handlers PROVE WorkGood(j)'
    BY <1>1, <1>6, <2>1, <2>2, ElsewhereWorks
  <2>4. ASSUME NEW o \in Orders PROVE OrderGood(o)'
    <3>0. OrderGood(o)
      BY DEF Inv, OrderInv
    <3>1. Working(o)' = Working(o) /\ \A j \in Working(o) : handler'[j].at = handler[j].at
      BY <1>6 DEF Working, Job, Of
    <3> QED BY <1>1, <2>1, <2>2, <3>0, <3>1 DEF OrderGood
  <2> QED BY <2>3, <2>4
<1> QED BY <1>7, <1>8, <1>9, <1>10, <1>11, <1>12 DEF Inv

LEMMA SaveInv == ASSUME Inv, NEW i \in Handlers, Save(i) PROVE Inv'
<1> DEFINE s == handler[i].next
           to == CASE handler[i].at = "create" -> IF s.intent[Of(i)].ref = "none" THEN "call" ELSE "done"
                   [] Job(i) \in {"created", "recovery"} -> "map"
                   [] Job(i) \in {"result", "till"} /\ [of |-> Of(i), via |-> TRUE] \in s.txs -> "map"
                   [] OTHER -> "done"
           x == [Outdated(handler)[i] EXCEPT !.at = to, !.stale = FALSE,
                   !.next = IF to = "call" \/ Job(i) \in {"created", "recovery"} THEN @ ELSE NoState]
<1>1. /\ handler[i].at \in {"create", "save"} /\ db' = s /\ UNCHANGED <<mapping, claim, event>>
      /\ mishaps' = mishaps \cup (IF handler[i].stale THEN {"overwritten"} ELSE {})
      /\ handler' = [Outdated(handler) EXCEPT ![i].at = to, ![i].stale = FALSE,
                       ![i].next = IF to = "call" \/ Job(i) \in {"created", "recovery"} THEN @ ELSE NoState]
      /\ saves' = IF handler[i].job \in Keys /\ ~handler[i].replay THEN [saves EXCEPT ![handler[i].job] = @ + 1] ELSE saves
  BY DEF Save, Logged
<1>2. /\ s \in StateType /\ Single(s) /\ handler[i] \in HandlerType /\ handler[i].job \in Jobs
      /\ handler[i].at = "create" => Job(i) = "prompt"
  BY <1>1, OfTypes DEF Inv, Placed, Holding
<1>3. /\ to \in {"call", "map", "done"} /\ (to = "call" => Job(i) = "prompt") /\ (to = "map" => Job(i) \in Importing \cup Paying)
      /\ Job(i) \in Importing => to = "map"
  <2>1. CASE handler[i].at = "create"
    <3>1. to = IF s.intent[Of(i)].ref = "none" THEN "call" ELSE "done"
      BY <1>2, <2>1
    <3> QED BY <1>2, <2>1, <3>1 DEF Importing
  <2>2. CASE handler[i].at # "create" /\ Job(i) \in Importing
    <3>1. to = "map"
      BY <2>2 DEF Importing
    <3> QED BY <2>2, <3>1
  <2>3. CASE handler[i].at # "create" /\ Job(i) \notin Importing
    BY <2>3 DEF Importing, Paying
  <2> QED BY <2>1, <2>2, <2>3
<1> HIDE DEF to
<1>4. /\ x \in HandlerType /\ x.at = to /\ x.job = handler[i].job /\ x.replay = handler[i].replay
      /\ to = "call" \/ Job(i) \in Importing => x.next = s
  <2>1. PICK h : h = Outdated(handler)[i]
    OBVIOUS
  <2>2. h \in HandlerType /\ h.job = handler[i].job /\ h.replay = handler[i].replay /\ h.next = s /\ to \in Places
    BY <1>3, <2>1, OutdatedType DEF Places
  <2>3. PICK nx : nx = IF to = "call" \/ Job(i) \in {"created", "recovery"} THEN s ELSE NoState
    OBVIOUS
  <2>4. x = [h EXCEPT !.at = to, !.stale = FALSE, !.next = nx] /\ nx \in StateType \cup {NoState}
    BY <1>2, <2>1, <2>2, <2>3
  <2> HIDE DEF x
  <2>5. x \in HandlerType /\ x.at = to /\ x.job = h.job /\ x.replay = h.replay /\ x.next = nx
    BY ONLY <2>2, <2>4 DEF HandlerType
  <2>6. to = "call" \/ Job(i) \in Importing => nx = s
    BY <2>3 DEF Importing
  <2> QED BY <2>2, <2>5, <2>6
<1>5. handler' = [Outdated(handler) EXCEPT ![i] = x]
  BY <1>1 DEF Outdated
<1> HIDE DEF x
<1>6. /\ handler'[i] = x /\ \A j \in Handlers : j # i => handler'[j] = Outdated(handler)[j]
  BY <1>5 DEF Outdated
<1>7. handler' \in [Handlers -> HandlerType]
  <2>1. Outdated(handler) \in [Handlers -> HandlerType]
    BY OutdatedType DEF Outdated
  <2> QED BY <1>4, <1>5, <2>1
<1>8. /\ Job(i)' = Job(i) /\ Of(i)' = Of(i) /\ handler'[i].at = to /\ handler'[i].job = handler[i].job
      /\ to = "call" \/ Job(i) \in Importing => handler'[i].next = s
  BY <1>4, <1>6 DEF Job, Of
<1>9. /\ \A j \in Handlers : j # i => handler'[j].job = handler[j].job /\ handler'[j].at = handler[j].at
      /\ \A j \in Handlers : handler'[j].replay <=> handler[j].replay
  BY <1>4, <1>6, OutdatedType
<1>10. handler[i].at \in Holding /\ mishaps \subseteq mishaps'
  BY <1>1 DEF Holding
<1>11. EventsType'
  <2>1. saves' \in [Keys -> Nat]
    BY <1>1 DEF Inv, EventsType
  <2> QED BY <1>1, <1>2, <1>7, <2>1 DEF Inv, EventsType
<1>12. Job(i) \in Paying => Recorded(s, Of(i))
  <2>1. Job(i) \in Paying => handler[i].at = "save"
    BY <1>1, <1>2 DEF Paying
  <2> QED BY <2>1 DEF Inv, Achieved
<1>13. "overwritten" \notin mishaps' => "overwritten" \notin mishaps /\ ~handler[i].stale /\ db.txs \subseteq s.txs
  <2>1. "overwritten" \notin mishaps' => "overwritten" \notin mishaps /\ ~handler[i].stale
    BY <1>1
  <2> QED BY <1>10, <2>1 DEF Inv, Achieved
<1>14. Placed(i)'
  <2>1. Job(i) \in Importing => Len(s.orders) > 0
    <3>1. Job(i) \in Importing => handler[i].at = "save"
      BY <1>1, <1>2 DEF Importing
    <3> QED BY <3>1 DEF Inv, Placed
  <2> QED BY <1>2, <1>3, <1>8, <2>1 DEF Placed, Holding, Single
<1>15. Achieved(i)'
  <2>1. PICK p : p = Of(i)
    OBVIOUS
  <2>2. Job(i) \in Paying => Recorded(db, p)'
    BY <1>1, <1>12, <2>1 DEF Recorded
  <2>3. Of(i)' = p
    BY <1>8, <2>1
  <2>4. to \in Holding => to = "call"
    BY <1>3 DEF Holding
  <2> QED BY <1>1, <1>3, <1>8, <2>2, <2>3, <2>4 DEF Achieved, Recorded
<1>16. ASSUME NEW j \in Handlers, j # i PROVE Placed(j)' /\ Achieved(j)'
  BY <1>1, <1>6, <1>10, <1>13, <1>16, Elsewhere
<1>17. ClaimInv'
  <2>1. to \notin Before /\ to # "claimed"
    BY <1>3 DEF Before
  <2>2. \A j \in Handlers, k \in Keys : Claims(j, k)' <=> Claims(j, k)
    BY <1>8, <1>9 DEF Claims
  <2>3. \A j \in Handlers : /\ handler'[j].at \in Before => j # i /\ handler[j].at \in Before
                            /\ handler'[j].at # "claimed" => handler[j].at # "claimed"
    BY <1>1, <1>8, <1>9, <2>1
  <2>4. ASSUME NEW k \in Keys PROVE ClaimGood(k)'
    <3>0. ClaimGood(k)
      BY DEF Inv, ClaimInv
    <3>1. CASE Claims(i, k)
      <4>1. handler[i].at = "save"
        BY <1>1, <1>2, <3>1, JobTypes DEF Claims, Job
      <4>2. saves[k] = 0
        BY <3>0, <3>1, <4>1 DEF ClaimGood, Before
      <4>3. saves' = [saves EXCEPT ![k] = @ + 1]
        BY <1>1, <3>1 DEF Claims
      <4>4. saves'[k] = 1
        BY <4>2, <4>3 DEF Inv, EventsType
      <4>5. \A j \in Handlers : Claims(j, k) => j = i
        BY <3>0, <3>1 DEF ClaimGood
      <4>6. claim[k] # "none"
        BY <3>0, <3>1 DEF ClaimGood
      <4>7. event[k] # "none"
        BY <3>0, <3>1, <4>1 DEF ClaimGood
      <4>8. \A j \in Handlers : Claims(j, k)' => j = i
        BY <2>2, <4>5
      <4>9. claim'[k] = claim[k] /\ event'[k] = event[k]
        BY <1>1
      <4> QED BY <2>3, <4>4, <4>6, <4>7, <4>8, <4>9 DEF ClaimGood
    <3>2. CASE ~Claims(i, k)
      <4>1. saves'[k] = saves[k]
        BY <1>1, <3>2 DEF Claims, Inv, EventsType
      <4>2. "unlogged" \notin mishaps' => "unlogged" \notin mishaps
        BY <1>10
      <4> QED BY <1>1, <2>2, <2>3, <3>0, <4>1, <4>2 DEF ClaimGood
    <3> QED BY <3>1, <3>2
  <2> QED BY <2>4 DEF ClaimInv
<1>18. EffectInv'
  <2>1. \A p : "overwritten" \notin mishaps' /\ Recorded(db, p) => Recorded(s, p)
    BY <1>13 DEF Recorded
  <2>2. \A p : Recorded(db, p)' <=> Recorded(s, p)
    BY <1>1 DEF Recorded
  <2> QED BY <1>1, <1>10, <2>1, <2>2 DEF Inv, EffectInv
<1>19. ReceiptInv'
  BY <1>1, <1>2 DEF ReceiptInv, Single
<1>20. OrderInv'
  <2> SUFFICES ASSUME Calm' PROVE (\A o \in Orders : OrderGood(o)') /\ (\A j \in Handlers : WorkGood(j)')
    BY DEF OrderInv
  <2>0. Calm /\ ~handler[i].stale
    BY <1>1 DEF Calm
  <2>1. WorkGood(i) /\ Follows(i) /\ \A o \in Orders : OrderGood(o)
    BY <1>10, <2>0 DEF Inv, OrderInv, WorkGood
  <2>2. db'.orders = s.orders /\ s.orders \in Seq(OrderType) /\ Extends(i, s.orders)
    BY <1>1, <1>2, <2>1 DEF StateType, Follows
  <2>3. /\ DOMAIN s.orders = 1..Len(s.orders) /\ DOMAIN db.orders = 1..Len(db.orders) /\ Len(db.orders) \in Nat
        /\ Job(i) \in Importing => Len(s.orders) = Len(db.orders) + 1
        /\ Job(i) \notin Importing => Len(s.orders) = Len(db.orders)
    <3>1. DOMAIN s.orders = 1..Len(s.orders)
      BY <2>2
    <3>2. DOMAIN db.orders = 1..Len(db.orders) /\ Len(db.orders) \in Nat
      BY DbType
    <3>3. Len(s.orders) = Len(db.orders) + (IF Job(i) \in Importing THEN 1 ELSE 0)
      BY <2>2 DEF Extends
    <3>4. Job(i) \in Importing => Len(s.orders) = Len(db.orders) + 1
      BY <3>3
    <3>5. Job(i) \notin Importing => Len(s.orders) = Len(db.orders)
      <4>1. Job(i) \notin Importing => Len(s.orders) = Len(db.orders) + 0
        BY <3>3
      <4> QED BY <3>2, <4>1
    <3> QED BY <3>1, <3>2, <3>4, <3>5
  <2>4. ASSUME NEW o \in Orders, ~(Job(i) \in Importing /\ Of(i) = o)
        PROVE  Imports(o)' = Imports(o) /\ Live(o)' \subseteq Live(o)
    <3>1. \A n \in DOMAIN s.orders : s.orders[n].ext = o => n \in DOMAIN db.orders
      <4> SUFFICES ASSUME NEW n \in DOMAIN s.orders, s.orders[n].ext = o, n \notin DOMAIN db.orders PROVE FALSE
        OBVIOUS
      <4>1. Job(i) \in Importing /\ n = Len(s.orders)
        BY <2>3
      <4>2. s.orders[Len(s.orders)].ext = Of(i)
        BY <2>2, <4>1 DEF Extends
      <4> QED BY <2>4, <4>1, <4>2
    <3>2. \A n \in DOMAIN db.orders : n \in DOMAIN s.orders
      BY <2>3
    <3>3. \A n \in DOMAIN db.orders : /\ s.orders[n].ext = db.orders[n].ext
                                      /\ Dead(db.orders[n]) => Dead(s.orders[n])
      BY <2>2 DEF Extends
    <3>4. Imports(o)' = {n \in DOMAIN s.orders : s.orders[n].ext = o}
      BY <2>2 DEF Imports
    <3>5. Live(o)' = {n \in DOMAIN s.orders : s.orders[n].ext = o /\ ~ Dead(s.orders[n])}
      BY <2>2 DEF Live
    <3>6. {n \in DOMAIN s.orders : s.orders[n].ext = o} = Imports(o)
      BY <3>1, <3>2, <3>3 DEF Imports
    <3>7. {n \in DOMAIN s.orders : s.orders[n].ext = o /\ ~ Dead(s.orders[n])} \subseteq Live(o)
      BY <3>1, <3>3 DEF Live
    <3> QED BY <3>4, <3>5, <3>6, <3>7
  <2>5. Job(i) \in Importing => /\ Of(i) \in Orders /\ i \in Working(Of(i)) /\ mapping[Of(i)] = 0 /\ handler[i].at = "save"
                                /\ Imports(Of(i)) = {} /\ to = "map"
    <3> SUFFICES ASSUME Job(i) \in Importing
                 PROVE  /\ Of(i) \in Orders /\ i \in Working(Of(i)) /\ mapping[Of(i)] = 0 /\ handler[i].at = "save"
                        /\ Imports(Of(i)) = {} /\ to = "map"
      OBVIOUS
    <3>1. Of(i) \in Orders /\ handler[i].at = "save" /\ to = "map"
      BY <1>1, <1>2, <1>3, OfTypes DEF Importing
    <3>2. i \in Working(Of(i)) /\ mapping[Of(i)] = 0
      BY <2>1, <3>1 DEF Working, Importing, WorkGood
    <3>3. \A j \in Working(Of(i)) : handler[j].at # "map"
      BY <2>1, <3>1, <3>2 DEF OrderGood
    <3> QED BY <2>1, <3>1, <3>2, <3>3 DEF OrderGood
  <2>6. ASSUME NEW o \in Orders, Job(i) \in Importing, Of(i) = o PROVE Imports(o)' = {Len(s.orders)}
    <3>1. \A n \in DOMAIN db.orders : s.orders[n].ext # o
      BY <2>2, <2>5, <2>6 DEF Imports, Extends
    <3>2. DOMAIN s.orders = 1..(Len(db.orders) + 1) /\ Len(s.orders) = Len(db.orders) + 1
      BY <2>2, <2>6, DbType DEF Extends
    <3>3. s.orders[Len(s.orders)].ext = o
      BY <2>2, <2>6 DEF Extends
    <3>4. Len(db.orders) \in Nat /\ DOMAIN db.orders = 1..Len(db.orders)
      BY DbType
    <3>5. \A n \in DOMAIN s.orders : s.orders[n].ext = o <=> n = Len(s.orders)
      BY <3>1, <3>2, <3>3, <3>4
    <3>6. Len(s.orders) \in DOMAIN s.orders
      BY <3>2, <3>4
    <3>7. Imports(o)' = {n \in DOMAIN s.orders : s.orders[n].ext = o}
      BY <2>2 DEF Imports
    <3> QED BY <3>5, <3>6, <3>7
  <2>7. \A o \in Orders : Cancelled(o) => Cancelled(o)' /\ ~(Job(i) \in Importing /\ Of(i) = o)
    BY <1>1, <2>4, <2>5 DEF Cancelled
  <2>8. \A o \in Orders : Imports(o) \subseteq Imports(o)'
    BY <2>4, <2>5
  <2>9. ASSUME NEW j \in Handlers, j # i PROVE WorkGood(j)'
    BY <1>1, <1>6, <2>0, <2>7, <2>8, <2>9, ElsewhereWorks
  <2>10. ASSUME NEW o \in Orders PROVE OrderGood(o)'
    <3>0. OrderGood(o)
      BY <2>1
    <3>1. \A j \in Handlers : j # i => (j \in Working(o)' <=> j \in Working(o))
      BY <1>9 DEF Working, Job, Of
    <3>2. i \in Working(o)' => i \in Working(o)
      <4>1. i \in Working(o)' => to = "map" /\ Job(i) \in {"created", "cancelled", "recovery"} /\ Of(i) = o
        BY <1>3, <1>8 DEF Working
      <4>2. i \in Working(o)' => Job(i) \in Importing
        BY <1>3, <4>1 DEF Importing, Paying
      <4> QED BY <2>5, <4>1, <4>2
    <3>3. Working(o)' \subseteq Working(o)
      BY <3>1, <3>2 DEF Working
    <3>4. CASE Job(i) \in Importing /\ Of(i) = o
      <4>1. i \in Working(o)' /\ handler'[i].at = "map"
        BY <1>8, <2>5, <3>4 DEF Working, Importing
      <4>2. event[<<"cancelled", o>>] # "PROCESSED" /\ mapping[o] = 0
        BY <2>5, <3>0, <3>4 DEF OrderGood, Cancelled
      <4>3. Imports(o)' = {Len(s.orders)}
        BY <2>6, <3>4
      <4>4. mapping'[o] = 0 /\ event'[<<"cancelled", o>>] # "PROCESSED"
        BY <1>1, <4>2
      <4>5. \A n, m \in Imports(o)' : n = m
        BY <4>3
      <4>6. \A j, m \in Working(o)' : j = m
        BY <3>0, <3>3 DEF OrderGood
      <4> QED BY <4>1, <4>4, <4>5, <4>6 DEF OrderGood
    <3>5. CASE ~(Job(i) \in Importing /\ Of(i) = o)
      <4>1. Imports(o)' = Imports(o)
        BY <2>4, <3>5
      <4>2. (\A j \in Working(o)' : handler'[j].at # "map") => \A j \in Working(o) : handler[j].at # "map"
        BY <1>1, <1>9, <3>1 DEF Working
      <4> QED BY <1>1, <2>7, <3>0, <3>3, <4>1, <4>2 DEF OrderGood
    <3> QED BY <3>4, <3>5
  <2>11. WorkGood(i)'
    <3>1. PICK o : o = Of(i)
      OBVIOUS
    <3>2. Job(i) \in Importing => mapping[o] = 0 /\ Len(s.orders) \in Imports(o)'
      BY <2>5, <2>6, <3>1
    <3>3. to = "done" /\ Job(i) = "cancelled" => Cancelled(o)'
      <4> SUFFICES ASSUME Job(i) = "cancelled" PROVE Cancelled(o)'
        OBVIOUS
      <4>1. o \in Orders /\ mapping[o] # 0 /\ Job(i) \notin Importing
        BY <1>1, <1>2, <2>1, <3>1, OfTypes DEF WorkGood, Importing
      <4>2. mapping[o] \in DOMAIN db.orders /\ Dead(s.orders[mapping[o]])
        BY <2>2, <3>1 DEF Extends
      <4>3. mapping[o] \in Imports(o)
        <5>1. mapping[o] # -1
          BY <4>2, DbType
        <5> QED BY <2>1, <4>1, <5>1 DEF OrderGood
      <4>4. Imports(o)' = {mapping[o]}
        <5>1. Imports(o)' = Imports(o)
          BY <2>4, <4>1
        <5>2. \A n, m \in Imports(o) : n = m
          BY <2>1, <4>1 DEF OrderGood
        <5> QED BY <4>3, <5>1, <5>2
      <4>5. Live(o)' = {}
        BY <2>2, <4>2, <4>4 DEF Imports, Live
      <4> QED BY <1>1, <4>1, <4>5 DEF Cancelled
    <3>4. to = "call" => Follows(i)'
      <4> SUFFICES ASSUME to = "call" PROVE Follows(i)'
        OBVIOUS
      <4>1. Job(i)' = "prompt" /\ handler'[i].next.orders = db'.orders
        BY <1>3, <1>8, <2>2
      <4>2. Len(db'.orders) \in Nat
        BY <2>2
      <4> QED BY <4>1, <4>2 DEF Follows, Extends, Importing
    <3>5. to \in Holding => to = "call"
      BY <1>3 DEF Holding
    <3>6. Of(i)' = o
      BY <1>8, <3>1
    <3> QED BY <1>1, <1>3, <1>8, <3>2, <3>3, <3>4, <3>5, <3>6 DEF WorkGood, Imports, Cancelled, Live
  <2> QED BY <2>9, <2>10, <2>11
<1> QED BY <1>11, <1>14, <1>15, <1>16, <1>17, <1>18, <1>19, <1>20 DEF Inv

-----------------------------------------------------------------------------
(* The invariant                                                             *)

\* Nothing that the invariant speaks of changes.
LEMMA UnchangedInv ==
  ASSUME Inv, UNCHANGED <<db, mapping, claim, event, handler, saves, mishaps>> PROVE Inv'
<1>1. \A i \in Handlers : Job(i)' = Job(i) /\ Of(i)' = Of(i)
  BY DEF Job, Of
<1>2. \A o : Imports(o)' = Imports(o) /\ Live(o)' = Live(o) /\ Working(o)' = Working(o)
  BY DEF Imports, Live, Working, Job, Of
<1>3. \A i \in Handlers : Placed(i)' /\ Achieved(i)'
  BY <1>1 DEF Inv, Placed, Achieved, Recorded, Single
<1>4. ClaimInv' /\ EffectInv' /\ ReceiptInv'
  BY DEF Inv, ClaimInv, ClaimGood, Claims, EffectInv, Recorded, ReceiptInv, Single
<1>5. \A o \in Orders : OrderGood(o) => OrderGood(o)'
  BY <1>2 DEF OrderGood, Cancelled
<1>6. ASSUME NEW i \in Handlers, WorkGood(i) PROVE WorkGood(i)'
  <2>1. Follows(i) => Follows(i)'
    BY <1>1 DEF Follows, Extends
  <2>2. (Cancelled(Of(i)) => Cancelled(Of(i))') /\ Imports(Of(i))' = Imports(Of(i))
    BY <1>1 DEF Cancelled, Live, Imports
  <2> QED BY <1>1, <1>6, <2>1, <2>2 DEF WorkGood
<1>7. OrderInv'
  BY <1>5, <1>6 DEF Inv, OrderInv, Calm
<1>8. EventsType'
  BY DEF Inv, EventsType
<1> QED BY <1>3, <1>4, <1>7, <1>8 DEF Inv

LEMMA InvInit == Init => Inv
<1> SUFFICES ASSUME Init PROVE Inv
  OBVIOUS
<1>1. db.orders = <<>> /\ db.txs = {} /\ mishaps = {} /\ \A i \in Handlers : handler[i] = Idle
  BY DEF Init
<1>2. \A i \in Handlers : handler[i].at = "idle" /\ handler[i].job = <<>>
  BY <1>1, IdleType
<1>3. EventsType
  <2>1. [status |-> "none", ref |-> "none"] \in IntentType
    BY DEF IntentType
  <2>2. db \in StateType
    BY <2>1 DEF Init, StateType
  <2>3. handler \in [Handlers -> HandlerType]
    BY IdleType DEF Init
  <2> QED BY <2>2, <2>3 DEF Init, EventsType, EventType
<1>4. \A i \in Handlers : Placed(i) /\ Achieved(i)
  BY <1>1, <1>2 DEF Placed, Achieved, Holding
<1>5. \A i \in Handlers, k \in Keys : ~Claims(i, k)
  BY <1>2, NoJob DEF Claims
<1>6. ClaimInv
  BY <1>5 DEF Init, ClaimInv, ClaimGood
<1>7. EffectInv /\ ReceiptInv
  BY <1>1 DEF Init, EffectInv, ReceiptInv, Single
<1>8. \A o \in Orders : Working(o) = {} /\ Imports(o) = {}
  BY <1>1, <1>2 DEF Working, Imports
<1>9. \A o \in Orders : mapping[o] = 0 /\ event[<<"cancelled", o>>] = "none"
  BY DEF Init, Keys, OrderKeys
<1>10. \A o \in Orders : OrderGood(o)
  BY <1>8, <1>9 DEF OrderGood
<1>11. \A i \in Handlers : WorkGood(i)
  BY <1>2 DEF WorkGood, Holding
<1> QED BY <1>3, <1>4, <1>6, <1>7, <1>10, <1>11 DEF Inv, OrderInv

LEMMA InvNext == Inv /\ [Next]_vars => Inv'
<1> SUFFICES ASSUME Inv, [Next]_vars PROVE Inv'
  OBVIOUS
<1>1. CASE UNCHANGED vars
  BY <1>1, UnchangedInv DEF vars
<1>2. ASSUME NEW i \in Handlers, NEW k \in Keys, Receive(i, k) \/ ReplayEvent(i, k) PROVE Inv'
  BY <1>2, ReceiveInv, ReplayEventInv
<1>3. ASSUME NEW i \in Handlers, NEW job \in Jobs, StartJob(i, job) PROVE Inv'
  BY <1>3, StartJobInv
<1>4. ASSUME NEW i \in Handlers, AppendEvent(i) \/ Look(i) \/ Tombstone(i) PROVE Inv'
  BY <1>4, AppendEventInv, LookInv, TombstoneInv
<1>5. ASSUME NEW i \in Handlers, LoadCreated(i) \/ LoadCancelled(i) \/ LoadRelease(i) PROVE Inv'
  BY <1>5, LoadCreatedInv, LoadCancelledInv, LoadReleaseInv
<1>6. ASSUME NEW i \in Handlers,
             LoadPrompt(i) \/ Call(i) \/ LoadPaid(i) \/ LoadRefused(i) \/ LoadCheck(i) \/ Query(i) PROVE Inv'
  BY <1>6, LoadPromptInv, CallInv, LoadPaidInv, LoadRefusedInv, LoadCheckInv, QueryInv
<1>7. ASSUME NEW i \in Handlers,
             Save(i) \/ Map(i) \/ Done(i) \/ Catch(i) \/ Throw(i) \/ Crash(i) \/ Nothing(i) PROVE Inv'
  BY <1>7, SaveInv, MapInv, DoneInv, CatchInv, ThrowInv, CrashInv, NothingInv
<1>8. ASSUME NEW n \in DOMAIN db.orders, NEW st \in {"SENT", "PAID", "CANCELLED"}, Staff(n, st) PROVE Inv'
  BY <1>8, StaffInv
<1>9. ASSUME NEW p \in Intents, Answer(p) PROVE Inv'
  <2>1. UNCHANGED <<db, mapping, claim, event, handler, saves, mishaps>>
    BY <1>9 DEF Answer, Logged
  <2> QED BY <2>1, UnchangedInv
<1> QED BY <1>1, <1>2, <1>3, <1>4, <1>5, <1>6, <1>7, <1>8, <1>9 DEF Next

LEMMA InvAlways == Spec => []Inv
  BY InvInit, InvNext, PTL DEF Spec

-----------------------------------------------------------------------------
(* The theorems                                                              *)

\* A set whose elements are all the same has at most one.
LEMMA AtMostOne == ASSUME NEW S, \A x, y \in S : x = y PROVE Cardinality(S) <= 1
<1>1. CASE S = {}
  BY <1>1, FS_EmptySet
<1>2. CASE S # {}
  <2>1. PICK x : S = {x}
    BY <1>2
  <2> QED BY <2>1, FS_Singleton
<1> QED BY <1>1, <1>2

\* However often an event is delivered and whichever handlers are cut short, the state is
\* saved at most once for it: the claim belongs to one handler, which saves once.
THEOREM EventsActOnce == Spec => []ProcessedOnce
<1>1. Inv => ProcessedOnce
  BY DEF Inv, ClaimInv, ClaimGood, ProcessedOnce
<1> QED BY <1>1, InvAlways, PTL

\* While no two handlers work on an order at a time, no save overwrites another and none
\* stops between its save and its mapping, an order of a provider is imported once.
THEOREM OrdersComeInOnce == Spec => []ImportedOnce
<1>1. ASSUME Inv PROVE ImportedOnce
  <2> SUFFICES ASSUME Calm, NEW o \in Orders PROVE Cardinality(Imports(o)) <= 1
    BY DEF ImportedOnce, Calm, Imports
  <2>1. \A n, m \in Imports(o) : n = m
    BY <1>1 DEF Inv, OrderInv, OrderGood
  <2> QED BY <2>1, AtMostOne
<1> QED BY <1>1, InvAlways, PTL

\* With the same exceptions, an order whose cancellation has been processed stays out of
\* the kitchen, whichever of the two came first, unless it was paid after it was cancelled.
THEOREM CancellationsStand == Spec => []CancelledStaysCancelled
<1>1. ASSUME Inv PROVE CancelledStaysCancelled
  BY <1>1 DEF Inv, OrderInv, OrderGood, Calm, Cancelled, CancelledStaysCancelled
<1> QED BY <1>1, InvAlways, PTL

\* A receipt is in the transactions once, whatever is lost, repeated or overwritten: it is
\* looked for in the very state that the new transaction is saved with.
THEOREM ReceiptsCountOnce == Spec => []CollectedOnce
<1>1. ASSUME Inv PROVE CollectedOnce
  <2> SUFFICES ASSUME NEW p \in Intents PROVE Cardinality({t \in db.txs : t.of = p}) <= 1
    BY DEF CollectedOnce
  <2>1. \A t, u \in {t \in db.txs : t.of = p} : t = u
    BY <1>1 DEF Inv, ReceiptInv, Single
  <2> QED BY <2>1, AtMostOne
<1> QED BY <1>1, InvAlways, PTL

\* A claimed event that nobody works on has had its effect or has a row that asks for an
\* operator, while no save overwrites another and no handler stops before it has a row.
THEOREM EventsLeaveATrace == Spec => []NothingVanishes
<1>1. ASSUME Inv PROVE NothingVanishes
  <2> SUFFICES ASSUME mishaps \subseteq {"overlap", "unmapped"}, NEW k \in Keys, claim[k] # "none",
                      \A i \in Handlers : handler[i].job # k
               PROVE  \/ event[k] \in {"PROCESSING", "FAILED"}
                      \/ k[1] \in {"created", "recovery"} /\ mapping[k[2]] # 0
                      \/ k[1] \in {"result", "till"} /\ \E t \in db.txs : t.of = k[2]
                      \/ k[1] \in {"cancelled", "refused"} /\ event[k] = "PROCESSED"
    BY DEF NothingVanishes
  <2>1. \A i \in Handlers : ~Claims(i, k)
    BY DEF Claims
  <2>2. event[k] # "none"
    BY <1>1, <2>1 DEF Inv, ClaimInv, ClaimGood
  <2>3. event[k] \in EventType
    BY <1>1 DEF Inv, EventsType
  <2>4. event[k] = "PROCESSED" => /\ k[1] \in Importing => mapping[k[2]] # 0
                                  /\ k[1] \in Paying => Recorded(db, k[2])
    BY <1>1 DEF Inv, EffectInv
  <2>5. k[1] \in {"created", "cancelled", "recovery", "result", "till", "refused"}
    BY KeyTypes
  <2> QED BY <2>2, <2>3, <2>4, <2>5 DEF EventType, Importing, Paying, Recorded
<1> QED BY <1>1, InvAlways, PTL
=============================================================================
