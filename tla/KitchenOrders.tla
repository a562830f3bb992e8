---------------------------- MODULE KitchenOrders ----------------------------
(***************************************************************************)
(* One order between the till, the kitchen stations and the stock: its      *)
(* lines, the batches in which they are sent, the tickets and amendments    *)
(* that tell a station what to make, the progress the stations report and   *)
(* the deduction of the recipes' ingredients.  Every operation is a command *)
(* of applyServerMutation on this order alone; one that throws, or returns  *)
(* the state it was given, is not a step.                                   *)
(*                                                                          *)
(* A draft is the cart of a till: a quantity for every line, 0 when the     *)
(* line is not in it.  Prices, notes, customers and tables are left out (a  *)
(* note is what makes an amended line `reworded'); so are bills beyond      *)
(* their being payable, which Billing is about, and how a ticket gets on    *)
(* paper, which KitchenPrint is about.                                      *)
(***************************************************************************)
EXTENDS Integers, FiniteSets, FiniteSetsExt

CONSTANTS Lines,       \* line identities of the order
          StationOf,   \* the production station of a line, "NONE" for none
          MaxQty,      \* bound: quantity of every line
          MaxAmends    \* bound: amendKitchenOrder commands

ASSUME KitchenAssumption ==
  /\ \A l \in Lines : StationOf[l] \in STRING
  /\ \A l \in Lines : MaxQty[l] \in Nat
  /\ Max(Range(MaxQty)) \in Nat         \* the bounds have a largest
  /\ MaxAmends \in Nat

VARIABLES
  status,     \* order.status, "none" before the order exists
  line,       \* [qty, sent, prod] of every line; qty = 0: not in the order
  invoice,    \* "none", or the status of the order's bill: OPEN, PARTIAL, PAID
  original,   \* stations with an ORIGINAL obligation
  told,       \* quantity of every line on the stations' tickets, less what
              \* CANCEL_ITEM amendments took off
  posted,     \* order.inventoryPostedAt is set
  consumed,   \* quantity of every line deducted from the stock
  amends,     \* amendKitchenOrder commands so far
  strayed,    \* history: lines a command left out of step with the kitchen
  late        \* history: lines changed after the stock was deducted

tickets == <<original, told>>
stock   == <<posted, consumed>>
vars == <<status, line, invoice, tickets, stock, amends, strayed, late>>

InKitchen == {"SENT_TO_KITCHEN", "IN_PROGRESS", "READY", "SERVED"}
Billed    == {"BILL_REQUESTED", "PARTIALLY_PAID"}
Stages    == {"NEW", "PREPARING", "READY", "SERVED"}

NoLine  == [qty |-> 0, sent |-> FALSE, prod |-> "NEW"]
Drafts  == {d \in [Lines -> 0..Max(Range(MaxQty))] : \A l \in Lines : d[l] <= MaxQty[l]}
Routed  == {l \in Lines : StationOf[l] # "NONE"}
Present(ls) == {l \in Lines : ls[l].qty > 0}
Stations == {StationOf[l] : l \in Routed}

Init ==
  /\ status = "none" /\ line = [l \in Lines |-> NoLine] /\ invoice = "none"
  /\ original = {} /\ told = [l \in Lines |-> 0]
  /\ posted = FALSE /\ consumed = [l \in Lines |-> 0]
  /\ amends = 0 /\ strayed = {} /\ late = {}

-----------------------------------------------------------------------------
(* Drafts                                                                   *)

\* The lines of a new order.
Drafted(d) == [l \in Lines |-> [NoLine EXCEPT !.qty = d[l]]]

\* updateOrderDraft: a sent line stays as it is, and a draft that drops or
\* changes one is refused; the others are the draft's.  The till copies a line it
\* already had from the order, its production status included.
KeepsSent(d) == \A l \in Lines : line[l].sent => d[l] = line[l].qty
Redrafted(d) ==
  [l \in Lines |-> IF line[l].sent THEN line[l]
                   ELSE IF d[l] = 0 THEN NoLine ELSE [line[l] EXCEPT !.qty = d[l]]]

Editable == status \in {"HELD", "OPEN"} \union InKitchen

CreateOrder(d, held) ==
  /\ status = "none" /\ \E l \in Lines : d[l] > 0
  /\ status' = (IF held THEN "HELD" ELSE "OPEN") /\ line' = Drafted(d)
  /\ UNCHANGED <<invoice, tickets, stock, amends, strayed, late>>

ReleaseHeldOrder ==
  /\ status = "HELD" /\ status' = "OPEN"
  /\ UNCHANGED <<line, invoice, tickets, stock, amends, strayed, late>>

\* History: the lines that a command changes after the stock was deducted.
Changed(ls) == IF posted THEN late \union {l \in Lines : ls[l].qty # line[l].qty} ELSE late

UpdateOrderDraft(d) ==
  /\ Editable /\ KeepsSent(d) /\ line' = Redrafted(d) /\ late' = Changed(line')
  /\ UNCHANGED <<status, invoice, tickets, stock, amends, strayed>>

-----------------------------------------------------------------------------
(* Sending                                                                  *)

\* Mutant: every batch is sent under the source ORIGINAL.
KindOriginal(before) == "ORIGINAL"

\* queueKitchenPrintObligations: one ticket per station of the batch.  A batch is
\* ORIGINAL, of which a station has one ticket at most, or an ADDITION, which has
\* an amendment of its own and is always ticketed.
Kind(before) == IF before \in InKitchen THEN "ADDITION" ELSE "ORIGINAL"
Printed(batch, kind) ==
  {l \in batch \intersect Routed : kind = "ADDITION" \/ StationOf[l] \notin original}

\* sendToKitchen of an order with status before and lines ls: the lines that were
\* not sent are the batch.
Batch(ls) == {l \in Present(ls) : ~ls[l].sent}
Send(before, ls) ==
  LET batch   == Batch(ls)
      printed == Printed(batch, Kind(before))
  IN  /\ before \in {"OPEN", "HELD"} \/ batch # {}
      /\ status' = "SENT_TO_KITCHEN"
      /\ line' = [l \in Lines |-> [ls[l] EXCEPT !.sent = @ \/ l \in batch]]
      /\ told' = [l \in Lines |-> told[l] + (IF l \in printed THEN ls[l].qty ELSE 0)]
      /\ original' = IF Kind(before) = "ADDITION" THEN original
                     ELSE original \union {StationOf[l] : l \in printed}
      /\ strayed' = IF before \in Billed THEN strayed \union ((batch \intersect Routed) \ printed)
                    ELSE strayed
      /\ late' = Changed(ls)

SendToKitchen ==
  /\ status \in {"HELD", "OPEN"} \union InKitchen \union Billed
  /\ Send(status, line)
  /\ UNCHANGED <<invoice, stock, amends>>

\* The send button of the till: the cart becomes the order's lines, then they go.
UpsertAndSendKitchen(d) ==
  /\ \/ status = "none" /\ (\E l \in Lines : d[l] > 0) /\ Send("OPEN", Drafted(d))
     \/ Editable /\ KeepsSent(d) /\ Send(status, Redrafted(d))
  /\ UNCHANGED <<invoice, stock, amends>>

\* A guest's order has an invoice at once; one that is scheduled or to be reviewed
\* is held, any other is sent.
CreateGuestOrder(d, held) ==
  /\ status = "none" /\ \E l \in Lines : d[l] > 0
  /\ IF held THEN /\ status' = "HELD" /\ line' = Drafted(d)
                  /\ UNCHANGED <<original, told, strayed, late>>
             ELSE Send("OPEN", Drafted(d))
  /\ invoice' = "OPEN"
  /\ UNCHANGED <<stock, amends>>

\* amendKitchenOrder: the draft replaces the lines, sent or not.  What it has more
\* of is an ADDITION, what it has less of a CANCEL_ITEM, a line whose content
\* changed is both; every line counts as sent.  The draft gives a line the
\* production status of the copy it was made from, or none, which is NEW (a
\* cancelled line is not copied: no cart counts it).
Active(l) == IF line[l].prod = "CANCELLED" THEN 0 ELSE line[l].qty
Added(d, reworded) ==
  [l \in Lines |-> IF l \in reworded THEN d[l] ELSE Max({d[l] - Active(l), 0})]
Dropped(d, reworded) ==
  [l \in Lines |-> IF l \in reworded THEN Active(l) ELSE Max({Active(l) - d[l], 0})]

AmendKitchenOrder(d, reworded, unmarked) ==
  LET added   == Added(d, reworded)
      dropped == Dropped(d, reworded)
      more    == {l \in Lines : added[l] > 0}
      stage(l) == IF l \in unmarked \/ Active(l) = 0 THEN "NEW" ELSE line[l].prod
  IN  /\ amends < MaxAmends /\ status \in InKitchen
      /\ \A l \in reworded : d[l] > 0 /\ Active(l) > 0
      /\ more # {} \/ \E l \in Lines : dropped[l] > 0
      /\ line' = [l \in Lines |-> IF d[l] = 0 THEN NoLine
                                  ELSE [qty |-> d[l], sent |-> TRUE, prod |-> stage(l)]]
      /\ status' = IF more # {} THEN "SENT_TO_KITCHEN" ELSE status
      /\ told' = [l \in Lines |-> told[l] + (IF l \in Routed THEN added[l] - dropped[l] ELSE 0)]
      /\ amends' = amends + 1
      /\ strayed' = strayed \union Batch(line)
                    \union {l \in Present(line) : stage(l) # line[l].prod /\ more = {}}
      /\ late' = Changed(line')
      /\ UNCHANGED <<invoice, original, stock>>

-----------------------------------------------------------------------------
(* Production                                                               *)

Rank == [NEW |-> 0, PREPARING |-> 1, READY |-> 2, SERVED |-> 3]

\* Mutant: one ready line makes the order ready.
SummaryOfAny(ls) ==
  LET stages == {ls[l].prod : l \in Present(ls) \intersect Routed} \ {"CANCELLED"}
  IN  IF stages = {} THEN status
      ELSE IF stages = {"SERVED"} THEN "SERVED"
      ELSE IF "READY" \in stages THEN "READY"
      ELSE IF "PREPARING" \in stages THEN "IN_PROGRESS" ELSE "SENT_TO_KITCHEN"

\* deriveProductionOrderStatus; preservesFinancialOrderStatus
Summary(ls) ==
  LET stages == {ls[l].prod : l \in Present(ls) \intersect Routed} \ {"CANCELLED"}
  IN  IF stages = {} THEN status
      ELSE IF stages = {"SERVED"} THEN "SERVED"
      ELSE IF stages \subseteq {"READY", "SERVED"} THEN "READY"
      ELSE IF "PREPARING" \in stages THEN "IN_PROGRESS" ELSE "SENT_TO_KITCHEN"
Summarised(ls) == IF status \in Billed \union {"PAID"} THEN status ELSE Summary(ls)

\* Mutant: inventoryPostedAt is not read.
PostAgain(ls) ==
  /\ posted' = TRUE
  /\ consumed' = [l \in Lines |-> consumed[l] + ls[l].qty]

\* postOrderInventoryConsumption: once for an order, for the lines it has then.
Post(ls) ==
  /\ posted' = TRUE
  /\ consumed' = IF posted THEN consumed
                 ELSE [l \in Lines |-> consumed[l] + ls[l].qty]

Working(station) ==
  {l \in Present(line) : StationOf[l] = station /\ line[l].prod # "CANCELLED"}

SetProductionStationStatus(station, target) ==
  LET behind == {l \in Working(station) : Rank[line[l].prod] < Rank[target]}
      ls == [l \in Lines |-> IF l \in behind THEN [line[l] EXCEPT !.prod = target] ELSE line[l]]
  IN  /\ status \notin {"none", "CANCELLED"} /\ Working(station) # {}
      /\ \A l \in behind : Rank[target] = Rank[line[l].prod] + 1
      /\ line' = ls /\ status' = Summarised(ls)
      /\ IF Summary(ls) = "SERVED" THEN Post(ls) ELSE UNCHANGED stock
      /\ UNCHANGED <<invoice, tickets, amends, strayed, late>>

RecallProductionStation(station) ==
  LET working == Working(station)
      ls == [l \in Lines |-> IF l \in working /\ line[l].prod = "READY"
                             THEN [line[l] EXCEPT !.prod = "PREPARING"] ELSE line[l]]
  IN  /\ status \notin {"none", "CANCELLED"}
      /\ \A l \in working : line[l].prod # "SERVED"
      /\ \E l \in working : line[l].prod = "READY"
      /\ line' = ls /\ status' = Summarised(ls)
      /\ UNCHANGED <<invoice, tickets, stock, amends, strayed, late>>

MarkOrderServed ==
  /\ status \notin {"none", "CANCELLED", "PAID"}
  /\ status' = "SERVED"
  /\ line' = [l \in Lines |-> IF l \in Present(line) \intersect Routed
                                 /\ line[l].prod # "CANCELLED"
                              THEN [line[l] EXCEPT !.prod = "SERVED"] ELSE line[l]]
  /\ Post(line)
  /\ UNCHANGED <<invoice, tickets, amends, strayed, late>>

-----------------------------------------------------------------------------
(* The end of an order                                                      *)

RequestBill(ls) ==
  /\ status \in InKitchen
  /\ status' = "BILL_REQUESTED" /\ line' = ls /\ late' = Changed(ls)
  /\ invoice' = IF invoice = "none" THEN "OPEN" ELSE invoice
  /\ UNCHANGED <<tickets, stock, amends, strayed>>

RequestBillWithDraft(d) == KeepsSent(d) /\ RequestBill(Redrafted(d))

\* applyPayment, to the invoice's order: whatever the status of the order.  Bound:
\* one payment of a part.
ApplyPayment(full) ==
  /\ invoice = "OPEN" \/ (invoice = "PARTIAL" /\ full)
  /\ status' = IF full THEN "PAID" ELSE "PARTIALLY_PAID"
  /\ invoice' = IF full THEN "PAID" ELSE "PARTIAL"
  /\ IF full THEN Post(line) ELSE UNCHANGED stock
  /\ UNCHANGED <<line, tickets, amends, strayed, late>>

\* cancelOrder: only in a kitchen status are the lines withdrawn from the kitchen.
CancelOrder ==
  LET active == {l \in Lines : Active(l) > 0}
      dropped == IF status \in InKitchen THEN active ELSE {}
  IN  /\ status \notin {"none", "PAID", "CANCELLED"}
      /\ status' = "CANCELLED"
      /\ line' = [l \in Lines |-> IF l \in dropped THEN [line[l] EXCEPT !.prod = "CANCELLED"]
                                  ELSE line[l]]
      /\ told' = [l \in Lines |-> told[l] - (IF l \in dropped \intersect Routed
                                              THEN line[l].qty ELSE 0)]
      /\ strayed' = strayed \union {l \in active : line[l].sent # (l \in dropped)}
      /\ UNCHANGED <<invoice, original, stock, amends, late>>

Next ==
  \/ \E d \in Drafts, held \in BOOLEAN : CreateOrder(d, held) \/ CreateGuestOrder(d, held)
  \/ ReleaseHeldOrder \/ SendToKitchen
  \/ \E d \in Drafts : UpdateOrderDraft(d) \/ UpsertAndSendKitchen(d) \/ RequestBillWithDraft(d)
  \/ \E d \in Drafts, reworded \in SUBSET Lines :
       \E unmarked \in SUBSET {l \in Lines : line[l].prod # "NEW"} :
         AmendKitchenOrder(d, reworded, unmarked)
  \/ \E station \in Stations, target \in Stages : SetProductionStationStatus(station, target)
  \/ \E station \in Stations : RecallProductionStation(station)
  \/ MarkOrderServed \/ RequestBill(line) \/ CancelOrder
  \/ \E full \in BOOLEAN : ApplyPayment(full)

Spec == Init /\ [][Next]_vars

-----------------------------------------------------------------------------
(* Properties                                                               *)

\* What the kitchen has to make is what the order has sent: over every batch,
\* amendment and cancellation, the quantity a station was told to make of a line
\* less the quantity it was told to drop is the quantity of the sent line, and
\* nothing once the line or the order is cancelled.  The lines of strayed are the
\* cases in which the code gives that up (README, KitchenOrders).
ToMake(l) ==
  IF line[l].sent /\ line[l].prod # "CANCELLED" /\ status # "CANCELLED" THEN line[l].qty ELSE 0
KitchenKnows ==
  \A l \in Routed \ strayed : told[l] = ToMake(l)

\* The order's status never runs ahead of the stations: an order shown READY has
\* every line it sent ready or served, one shown SERVED has them all served
\* (deriveProductionOrderStatus after every report and recall; a batch sent later
\* brings the order back).
ReadyIsReady ==
  \A l \in Routed \ strayed : line[l].sent /\ line[l].prod # "CANCELLED" =>
    /\ status = "READY" => line[l].prod \in {"READY", "SERVED"}
    /\ status = "SERVED" => line[l].prod = "SERVED"

\* Whichever of the station, the waiter and the payment ends the order first, the
\* ingredients of every line are deducted once: what was deducted of a line of a
\* served or paid order is its quantity, unless the line was changed afterwards.
StockDeductedOnce ==
  status \in {"SERVED", "PAID"} => \A l \in Lines \ late : consumed[l] = line[l].qty
=============================================================================
