--------------------------- MODULE ProviderEvents ---------------------------
(***************************************************************************)
(* What the integration runtime does with what providers tell it: webhooks  *)
(* of marketplace orders and of payments, recovery of active orders, manual *)
(* replay, payment prompts and the check of unanswered ones.  Every handler *)
(* claims, reads and writes in several awaits, and the state it saves is    *)
(* the one it loaded with its own change: a commit in between is lost (see  *)
(* AuthoritativeStore).  The model keeps that behaviour, and records in     *)
(* mishaps what has gone wrong so far, so that each property can say which  *)
(* mishap it excludes.  Amounts, items and typed codes are left to Billing. *)
(* A redelivered event is answered from its claim and changes nothing.      *)
(***************************************************************************)
EXTENDS Integers, FiniteSets, Sequences, TLC

CONSTANTS Orders,      \* external order ids of a marketplace connection
          Intents,     \* payment intents of an M-Pesa connection, one receipt each
          Handlers,    \* requests handled at the same time
          MaxRuns,     \* bound: handlers started
          MaxFailures, \* bound: transient errors and stopped isolates
          MaxCommands  \* bound: commands of the till

ASSUME ProviderEventsAssumption ==
  Orders \cap Intents = {} /\ MaxRuns \in Nat /\ MaxFailures \in Nat /\ MaxCommands \in Nat

OrderKeys == {"created", "cancelled", "recovery"} \X Orders
Keys      == OrderKeys \cup ({"result", "till", "refused"} \X Intents)
Jobs      == Keys \cup ({"prompt", "check"} \X Intents) \cup {<<"release">>}

VARIABLES
  db,        \* the transaction state: orders, payment intents and transactions
  mapping,   \* ExternalResourceMapping: 0 none, -1 cancelled before created, or the id
  claim,     \* idempotency records, by key
  event,     \* status of the event row of a key
  handler,   \* what a handler is at
  outcome,   \* the provider's side of a prompt
  saves,     \* saves made for an event as it was delivered
  mishaps,   \* what has gone wrong
  runs, failures, commands  \* bounds

vars == <<db, mapping, claim, event, handler, outcome, saves, mishaps, runs, failures, commands>>

HandlerSymmetry == Permutations(Handlers)

NoState == <<>>
Idle    == [job |-> <<>>, at |-> "idle", replay |-> FALSE, next |-> NoState, stale |-> FALSE]

Init ==
  /\ db = [orders |-> <<>>, txs |-> {},
           intent |-> [p \in Intents |-> [status |-> "none", ref |-> "none"]]]
  /\ mapping = [x \in Orders \cup Intents |-> 0]
  /\ claim   = [k \in Keys |-> "none"]
  /\ event   = [k \in Keys |-> "none"]
  /\ handler = [i \in Handlers |-> Idle]
  /\ outcome = [p \in Intents |-> "none"]
  /\ saves   = [k \in Keys |-> 0]
  /\ mishaps = {} /\ runs = 0 /\ failures = 0 /\ commands = 0

-----------------------------------------------------------------------------
Job(i)  == handler[i].job[1]
Of(i)   == handler[i].job[2]
At(i, pc, jobs) == handler[i].at = pc /\ Job(i) \in jobs
Go(i, pc) == handler' = [handler EXCEPT ![i].at = pc]
Going(i, pc, next) == handler' = [handler EXCEPT ![i].at = pc, ![i].next = next]
Stop(i) == handler' = [handler EXCEPT ![i] = Idle]

\* The states that handlers have loaded are not the latest any more.
Holding == {"create", "call", "query", "save"}
Outdated(hs) == [j \in Handlers |-> IF hs[j].at \in Holding THEN [hs[j] EXCEPT !.stale = TRUE]
                                    ELSE hs[j]]

Begin(i, job, pc, replay) ==
  /\ handler[i] = Idle /\ runs < MaxRuns /\ runs' = runs + 1 /\ UNCHANGED commands
  /\ handler' = [handler EXCEPT ![i] = [Idle EXCEPT !.job = job, !.at = pc, !.replay = replay]]

Quiet == UNCHANGED <<outcome, saves, runs, failures, commands>>
Logged == UNCHANGED <<claim, event>>

\* What the provider may send: an order's events in any order; of a prompt, how it ended.
Sent(k) == k[1] \in {"result", "till"} => outcome[k[2]] = "paid"
Refused(k) == k[1] = "refused" => outcome[k[2]] = "refused"

\* Mutant: only a completed event counts as claimed.
ClaimableUntilCompleted(k) == claim[k] # "COMPLETED"

\* claimIdempotency: the first insert wins.
Claimable(k) == claim[k] = "none"

\* handleWebhook and ingestRecoveredOrder, up to the claim.
Receive(i, k) ==
  /\ Sent(k) /\ Refused(k) /\ Claimable(k)
  /\ Begin(i, k, "claimed", FALSE)
  /\ claim' = [claim EXCEPT ![k] = "PROCESSING"]
  /\ UNCHANGED <<db, mapping, event, outcome, saves, mishaps, failures>>

\* The event is appended, then PROCESSING.
AppendEvent(i) ==
  /\ handler[i].at = "claimed"
  /\ event' = [event EXCEPT ![handler[i].job] = "PROCESSING"]
  /\ Go(i, IF handler[i].job \in OrderKeys THEN "look" ELSE "load")
  /\ Quiet /\ UNCHANGED <<db, mapping, claim, mishaps>>

\* replayEvent; ignored when the order has a mapping.  A replayed event has no amount
\* and no receipt, so that a replayed confirmation fails without an effect.
ReplayEvent(i, k) ==
  /\ event[k] # "none" /\ k[1] \in {"created", "cancelled", "recovery", "refused"}
  /\ k \in OrderKeys => mapping[k[2]] = 0
  /\ Begin(i, k, IF k \in OrderKeys THEN "look" ELSE "load", TRUE)
  /\ Logged /\ UNCHANGED <<db, mapping, outcome, saves, mishaps, failures>>

-----------------------------------------------------------------------------
(* Marketplace orders.                                                        *)

Working(o) == {i \in Handlers : handler[i].at \in {"load", "save", "map", "tombstone"}
                                  /\ Job(i) \in {"created", "cancelled", "recovery"} /\ Of(i) = o}

\* Mutant: an order that is mapped is imported again.
ExistingNever(o) == FALSE

\* processIncomingOrder: an order, or the tombstone of one, is a duplicate.
Existing(o) == mapping[o] # 0

\* The mapping is looked up; what follows goes by it.
Look(i) ==
  /\ At(i, "look", {"created", "cancelled", "recovery"})
  /\ LET o == Of(i)
     IN /\ Go(i, IF Job(i) = "cancelled"
                 THEN IF mapping[o] = 0 THEN "tombstone" ELSE "load"
                 ELSE IF Existing(o) THEN "done" ELSE "load")
        /\ mishaps' = mishaps \cup (IF Working(o) # {} THEN {"overlap"} ELSE {})
  /\ Logged /\ Quiet /\ UNCHANGED <<db, mapping>>

\* Mutant: a cancellation of an unknown order is acknowledged and forgotten.
TombstoneForgotten(i) ==
  /\ handler[i].at = "tombstone" /\ Go(i, "done")
  /\ Logged /\ Quiet /\ UNCHANGED <<db, mapping, mishaps>>

\* A cancellation of an order that has not been seen.  A mapping is inserted under a
\* new id: refused when the order has one.
Tombstone(i) ==
  /\ handler[i].at = "tombstone"
  /\ \/ mapping[Of(i)] = 0 /\ mapping' = [mapping EXCEPT ![Of(i)] = -1] /\ Go(i, "done")
     \/ mapping[Of(i)] # 0 /\ Go(i, "failed") /\ UNCHANGED mapping
  /\ Logged /\ Quiet /\ UNCHANGED <<db, mishaps>>

\* processIncomingOrder: accepted at once, or held for a person or for its hour.
LoadCreated(i) ==
  /\ At(i, "load", {"created", "recovery"})
  /\ \E status \in {"SENT", "HELD"} :
       Going(i, "save", [db EXCEPT !.orders = Append(@, [ext |-> Of(i), status |-> status, paidAfter |-> FALSE])])
  /\ Logged /\ Quiet /\ UNCHANGED <<db, mapping, mishaps>>

\* cancelOrder throws when there is no such order or it is paid or cancelled.
LoadCancelled(i) ==
  /\ At(i, "load", {"cancelled"})
  /\ LET n == mapping[Of(i)]
     IN IF n \in DOMAIN db.orders /\ db.orders[n].status \notin {"PAID", "CANCELLED"}
        THEN Going(i, "save", [db EXCEPT !.orders[n].status = "CANCELLED"])
        ELSE Go(i, "failed")
  /\ Logged /\ Quiet /\ UNCHANGED <<db, mapping, mishaps>>

\* releaseDueScheduledOrders
LoadRelease(i) ==
  /\ At(i, "load", {"release"})
  /\ Going(i, "save", [db EXCEPT !.orders = [n \in DOMAIN @ |->
       IF @[n].status = "HELD" THEN [@[n] EXCEPT !.status = "SENT"] ELSE @[n]]])
  /\ Logged /\ Quiet /\ UNCHANGED <<db, mapping, mishaps>>

\* The statuses from which sendToKitchen, cancelOrder and applyPayment put an order into
\* one.  applyPayment looks at the bill alone, and a cancelled order keeps an open bill,
\* or may be given one (createOpenBill).  SENT is any status but the other three: an
\* order is also SENT when it is paid in part.
From(status) == CASE status = "SENT"      -> {"HELD", "CANCELLED"}   \* sent, or paid in part
                  [] status = "CANCELLED" -> {"SENT", "HELD"}
                  [] status = "PAID"      -> {"SENT", "HELD", "CANCELLED"}

\* A command of the till: one step, on the state it names (AuthoritativeStore).
\* paidAfter is history: a payment was taken for the order after it was cancelled.
Staff(n, status) ==
  /\ db.orders[n].status \in From(status) /\ commands < MaxCommands
  /\ commands' = commands + 1
  /\ db' = [db EXCEPT !.orders[n].status = status,
                      !.orders[n].paidAfter = @ \/ db.orders[n].status = "CANCELLED"]
  /\ handler' = Outdated(handler)
  /\ Logged /\ UNCHANGED <<mapping, mishaps, outcome, saves, runs, failures>>

-----------------------------------------------------------------------------
(* Payments.                                                                  *)

Open(s) == s \in {"PENDING", "AWAITING"}

\* initiatePayment, with createIntent: a request repeated with its key finds the intent.
LoadPrompt(i) ==
  /\ At(i, "load", {"prompt"})
  /\ Going(i, "create", [db EXCEPT !.intent[Of(i)].status = IF @ = "none" THEN "PENDING" ELSE @])
  /\ Logged /\ Quiet /\ UNCHANGED <<db, mapping, mishaps>>

\* failIntent
FailIntent(s, p) == IF s.intent[p].status = "CONFIRMED" THEN s
                    ELSE [s EXCEPT !.intent[p].status = "FAILED"]

\* markIntentInitiated
MarkIntentInitiated(s, p) ==
  IF s.intent[p].status \in {"CONFIRMED", "FAILED"} THEN s
  ELSE [s EXCEPT !.intent[p] = [status |-> "AWAITING", ref |-> "prompt"]]

\* createPaymentPrompt: an error may hide that the customer was asked.
Call(i) ==
  /\ handler[i].at = "call"
  /\ \E asked, ok \in BOOLEAN :
       /\ ok => asked
       /\ outcome' = [outcome EXCEPT ![Of(i)] = IF asked /\ @ = "none" THEN "open" ELSE @]
       /\ handler' = [handler EXCEPT ![i].at = "save", ![i].next =
            IF ok THEN MarkIntentInitiated(@, Of(i)) ELSE FailIntent(@, Of(i))]
  /\ Logged /\ UNCHANGED <<db, mapping, saves, mishaps, runs, failures, commands>>

\* The customer pays or does not.
Answer(p) ==
  /\ outcome[p] = "open"
  /\ \E how \in {"paid", "refused"} : outcome' = [outcome EXCEPT ![p] = how]
  /\ Logged /\ UNCHANGED <<db, mapping, handler, saves, mishaps, runs, failures, commands>>

\* Mutant: the receipt is not looked for.
RecordedNever(s, p) == FALSE

\* The receipt is a transaction already.
Recorded(s, p) == \E t \in s.txs : t.of = p

\* recordConfirmedCollection for an intent, or, for a receipt nobody asked for, without.
Confirm(s, p, via) ==
  LET paid == [s EXCEPT !.txs = @ \cup {[of |-> p, via |-> via]}]
  IN IF via THEN [paid EXCEPT !.intent[p] = [status |-> "CONFIRMED", ref |-> "receipt"]] ELSE paid

\* processPaymentEvent.  The result of a prompt names it by the provider's reference,
\* a notification of the till may name an intent by its account number.
LoadPaid(i) ==
  /\ At(i, "load", {"result", "till"})
  /\ LET p == Of(i)
     IN \/ /\ Job(i) = "result" /\ db.intent[p].ref # "prompt"
           /\ Go(i, "failed")
        \/ /\ Job(i) = "till" \/ db.intent[p].ref = "prompt"
           /\ Recorded(db, p) /\ Go(i, "done")
        \/ /\ ~Recorded(db, p)
           /\ \/ Job(i) = "result" /\ db.intent[p].ref = "prompt"
              \/ Job(i) = "till" /\ db.intent[p].status # "none"
           /\ Going(i, "save", Confirm(db, p, TRUE))
        \/ /\ ~Recorded(db, p) /\ Job(i) = "till"
           /\ Going(i, "save", Confirm(db, p, FALSE))
  /\ Logged /\ Quiet /\ UNCHANGED <<db, mapping, mishaps>>

LoadRefused(i) ==
  /\ At(i, "load", {"refused"})
  /\ IF db.intent[Of(i)].ref = "prompt"
     THEN Going(i, "save", FailIntent(db, Of(i))) ELSE Go(i, "failed")
  /\ Logged /\ Quiet /\ UNCHANGED <<db, mapping, mishaps>>

\* checkPendingPrompts loads, asks the provider, and saves what it was told.
LoadCheck(i) ==
  /\ At(i, "load", {"check"})
  /\ Open(db.intent[Of(i)].status) /\ db.intent[Of(i)].ref = "prompt"
  /\ Going(i, "query", db)
  /\ Logged /\ Quiet /\ UNCHANGED <<db, mapping, mishaps>>

Query(i) ==
  /\ handler[i].at = "query"
  /\ CASE outcome[Of(i)] = "refused" ->
            handler' = [handler EXCEPT ![i].at = "save", ![i].next = FailIntent(@, Of(i))]
       [] outcome[Of(i)] = "paid" -> Go(i, "save")
       [] OTHER -> Stop(i)
  /\ Logged /\ Quiet /\ UNCHANGED <<db, mapping, mishaps>>

-----------------------------------------------------------------------------
(* The ends of every handler.                                                 *)

\* saveState, over whatever has been committed since the state was loaded.  A prompt
\* follows its intent unless that had a provider reference before.
Save(i) ==
  /\ handler[i].at \in {"create", "save"}
  /\ db' = handler[i].next
  /\ mishaps' = mishaps \cup (IF handler[i].stale THEN {"overwritten"} ELSE {})
  /\ LET to == CASE handler[i].at = "create" ->
                      IF db'.intent[Of(i)].ref = "none" THEN "call" ELSE "done"
                 [] Job(i) \in {"created", "recovery"} -> "map"
                 [] Job(i) \in {"result", "till"} /\ [of |-> Of(i), via |-> TRUE] \in db'.txs -> "map"
                 [] OTHER -> "done"
     IN handler' = [Outdated(handler) EXCEPT
          ![i].at = to, ![i].stale = FALSE, ![i].next = IF to = "call" \/ Job(i) \in {"created", "recovery"} THEN @ ELSE NoState]
  /\ saves' = IF handler[i].job \in Keys /\ ~handler[i].replay
              THEN [saves EXCEPT ![handler[i].job] = @ + 1] ELSE saves
  /\ Logged /\ UNCHANGED <<mapping, outcome, runs, failures, commands>>

\* The mapping of the order or of the receipt, refused when there is one.
Map(i) ==
  /\ handler[i].at = "map"
  /\ \/ /\ mapping[Of(i)] = 0 /\ Go(i, "done")
        /\ mapping' = [mapping EXCEPT ![Of(i)] = IF Of(i) \in Orders THEN Len(handler[i].next.orders) ELSE 1]
     \/ mapping[Of(i)] # 0 /\ Go(i, "failed") /\ UNCHANGED mapping
  /\ Logged /\ Quiet /\ UNCHANGED <<db, mishaps>>

\* The event is PROCESSED and its claim COMPLETED; a replay has rows of its own.
Done(i) ==
  /\ handler[i].at = "done" /\ Stop(i)
  /\ IF handler[i].job \in Keys /\ ~handler[i].replay
     THEN /\ event' = [event EXCEPT ![handler[i].job] = "PROCESSED"]
          /\ claim' = [claim EXCEPT ![handler[i].job] = "COMPLETED"]
     ELSE Logged
  /\ Quiet /\ UNCHANGED <<db, mapping, mishaps>>

\* Mutant: the status is written on the way out, whatever happened.
CatchFinally(i) ==
  /\ handler[i].at = "failed" /\ Stop(i)
  /\ event' = IF handler[i].job \in Keys /\ ~handler[i].replay
              THEN [event EXCEPT ![handler[i].job] = "PROCESSED"] ELSE event
  /\ Quiet /\ UNCHANGED <<db, mapping, claim, mishaps>>

\* The catch: RETRY_PENDING, MAPPING_REQUIRED, FAILED or a dead letter; the claim stays.
Catch(i) ==
  /\ handler[i].at = "failed" /\ Stop(i)
  /\ event' = IF handler[i].job \in Keys /\ ~handler[i].replay
              THEN [event EXCEPT ![handler[i].job] = "FAILED"] ELSE event
  /\ Quiet /\ UNCHANGED <<db, mapping, claim, mishaps>>

Unmapped(i) == IF handler[i].at = "map" THEN {"unmapped"} ELSE {}

\* A provider, the database or a validation fails.
Throw(i) ==
  /\ handler[i].job \in Keys /\ handler[i].at \notin {"claimed", "done", "failed"}
  /\ failures < MaxFailures
  /\ failures' = failures + 1 /\ mishaps' = mishaps \cup Unmapped(i)
  /\ handler' = [handler EXCEPT ![i].at = "failed", ![i].next = NoState, ![i].stale = FALSE]
  /\ Logged /\ UNCHANGED <<db, mapping, outcome, saves, runs, commands>>

\* The isolate stops.
Crash(i) ==
  /\ handler[i] # Idle /\ failures < MaxFailures
  /\ failures' = failures + 1 /\ Stop(i)
  /\ mishaps' = mishaps \cup Unmapped(i) \cup (IF handler[i].at = "claimed" THEN {"unlogged"} ELSE {})
  /\ Logged /\ UNCHANGED <<db, mapping, outcome, saves, runs, commands>>

\* The jobs nobody sends: a prompt at the till, and two of the worker.
StartJob(i, job) ==
  /\ \/ job[1] = "prompt"
     \/ job[1] = "check" /\ Open(db.intent[job[2]].status) /\ db.intent[job[2]].ref = "prompt"
     \/ job[1] = "release" /\ \E n \in DOMAIN db.orders : db.orders[n].status = "HELD"
  /\ Begin(i, job, "load", FALSE)
  /\ Logged /\ UNCHANGED <<db, mapping, outcome, saves, mishaps, failures>>

\* The check finds that the prompt has been answered.
Nothing(i) ==
  /\ At(i, "load", {"check"})
  /\ ~ (Open(db.intent[Of(i)].status) /\ db.intent[Of(i)].ref = "prompt")
  /\ Stop(i)
  /\ Logged /\ Quiet /\ UNCHANGED <<db, mapping, mishaps>>

Next ==
  \/ \E i \in Handlers :
       \/ \E k \in Keys : Receive(i, k) \/ ReplayEvent(i, k)
       \/ \E job \in Jobs : StartJob(i, job)
       \/ AppendEvent(i) \/ Look(i) \/ Tombstone(i)
       \/ LoadCreated(i) \/ LoadCancelled(i) \/ LoadRelease(i)
       \/ LoadPrompt(i) \/ Call(i) \/ LoadPaid(i) \/ LoadRefused(i) \/ LoadCheck(i) \/ Query(i)
       \/ Save(i) \/ Map(i) \/ Done(i) \/ Catch(i) \/ Throw(i) \/ Crash(i) \/ Nothing(i)
  \/ \E n \in DOMAIN db.orders, status \in {"SENT", "PAID", "CANCELLED"} : Staff(n, status)
  \/ \E p \in Intents : Answer(p)

Spec == Init /\ [][Next]_vars

-----------------------------------------------------------------------------
\* An order that is off, whatever its status has become by a payment since.
Dead(order) == order.status = "CANCELLED" \/ order.paidAfter

Live(o) == {n \in DOMAIN db.orders : db.orders[n].ext = o /\ ~ Dead(db.orders[n])}

\* However often an event is delivered, and whatever happens to the handlers: it changes
\* the state at most once, replays by an operator aside.
ProcessedOnce == \A k \in Keys : saves[k] <= 1

\* Created, recovered and replayed in any order, a provider's order is imported once,
\* unless two handlers worked on it at the same time or one stopped between the save
\* and the mapping.
ImportedOnce ==
  mishaps \subseteq {"unlogged"} =>
    \A o \in Orders : Cardinality({n \in DOMAIN db.orders : db.orders[n].ext = o}) <= 1

\* When the cancellation of an order has been processed, before or after the order
\* came in, the kitchen has no such order, and never gets one; with the same exceptions,
\* and but for an order that somebody took a payment for after it was cancelled.
CancelledStaysCancelled ==
  mishaps \subseteq {"unlogged"} =>
    \A o \in Orders : event[<<"cancelled", o>>] = "PROCESSED" => Live(o) = {}

\* A receipt is collected once, whether it comes as the result of a prompt, as a
\* notification of the till or as both.
CollectedOnce == \A p \in Intents : Cardinality({t \in db.txs : t.of = p}) <= 1

\* A claimed event, whose redelivery is answered as accepted, is being worked on, or
\* has had its effect, or has a row that does not say PROCESSED, for an operator to
\* see, unless the handler stopped before it wrote the row.
NothingVanishes ==
  mishaps \subseteq {"overlap", "unmapped"} =>
    \A k \in Keys :
      claim[k] # "none" /\ (\A i \in Handlers : handler[i].job # k) =>
        \/ event[k] \in {"PROCESSING", "FAILED"}
        \/ k[1] \in {"created", "recovery"} /\ mapping[k[2]] # 0
        \/ k[1] \in {"result", "till"} /\ \E t \in db.txs : t.of = k[2]
        \/ k[1] \in {"cancelled", "refused"} /\ event[k] = "PROCESSED"
=============================================================================
