------------------------------- MODULE Billing -------------------------------
(***************************************************************************)
(* Order to cash for one branch: orders, the bills made of them, split and  *)
(* merged bills, the collections of the payment orchestrator and what they  *)
(* do to bills (TransactionEngine.applyPayment), receipts and refunds.      *)
(* Every command is one reducer of applyServerMutation, so an action is a   *)
(* whole command; one that throws changes nothing and is not a step.  Money *)
(* is counted in lines of the menu: a line costs one.                       *)
(*                                                                          *)
(* What the lines are and which were sent is the subject of KitchenOrders. *)
(* Here an order that was not sent (HELD, OPEN) is a DRAFT, and one that    *)
(* was (SENT_TO_KITCHEN, IN_PROGRESS, READY, SERVED) is in the KITCHEN; its  *)
(* lines matter when the bill is made, which takes the total they have then *)
(* and is not told of later ones.                                           *)
(***************************************************************************)
EXTENDS Integers, FiniteSets, Sequences, TLC

CONSTANTS Orders,        \* orders of the branch
          Totals,        \* what the lines of an order may add up to
          MaxBills,      \* bound: bills
          MaxAmount,     \* bound: amount of a payment
          MaxPayments,   \* bound: collections and payments of the older commands
          MaxRefunds,    \* bound: refund requests
          MaxDeferrals,  \* bound: markBillPending
          Receipts       \* receipt codes of the mobile-money provider

ASSUME BillingAssumption ==
  /\ Totals \subseteq Nat \ {0}
  /\ MaxBills \in Nat /\ MaxAmount \in Nat /\ MaxPayments \in Nat
  /\ MaxRefunds \in Nat /\ MaxDeferrals \in Nat

BillIds == 1..MaxBills

VARIABLES
  order,      \* status
  bill,       \* [status, unpaid, total, paid, orders, first]
  payments,   \* the PaymentRecords: [bill, ref, method, amount]
  txs,        \* the PaymentTransactions: [method, ref, amount, left, status]
  allocs,     \* their PaymentAllocations: [tx, bill, amount]
  receipt,    \* [cash, paid] of the receipt of a bill; paid = 0: none
  refunds,    \* [bill, amount, status]
  deferrals,  \* history: how often a bill was marked pending
  reopened    \* history: one that was no longer payable was marked pending

vars  == <<order, bill, payments, txs, allocs, receipt, refunds, deferrals, reopened>>
money == <<payments, txs, allocs, receipt, refunds>>
history == <<deferrals, reopened>>

NoBill  == [status |-> "none", unpaid |-> TRUE, total |-> 0, paid |-> 0, orders |-> {}, first |-> 0]
NoReceipt == [cash |-> 0, paid |-> 0]

Init ==
  /\ order = [o \in Orders |-> "none"]
  /\ bill = [b \in BillIds |-> NoBill]
  /\ payments = <<>> /\ txs = <<>> /\ allocs = <<>> /\ refunds = <<>>
  /\ receipt = [b \in BillIds |-> NoReceipt]
  /\ deferrals = 0 /\ reopened = FALSE

Amounts == 1..MaxAmount

\* n numbers added up, one after the other as reduce does.
Total(f, n) == LET upTo[k \in 0..n] == IF k = 0 THEN 0 ELSE upTo[k - 1] + f[k]
               IN  upTo[n]

-----------------------------------------------------------------------------
(* Bills.                                                                     *)

Exists == {b \in BillIds : bill[b].status # "none"}
Payable == {b \in BillIds : bill[b].status \in {"OPEN", "PARTIAL", "PENDING"}}
Due(b) == bill[b].total - bill[b].paid
BillsOf(o) == {b \in Exists : o \in bill[b].orders}
NextBill == Cardinality(Exists) + 1
FreshBills(n) == Cardinality(Exists) + n <= MaxBills
SumOfTotals(S) == Total([b \in BillIds |-> IF b \in S THEN bill[b].total ELSE 0], MaxBills)

NewBill(total, orders, first) ==
  [NoBill EXCEPT !.status = "OPEN", !.total = total, !.orders = orders, !.first = first]

Live(o) == BillsOf(o) \cap {b \in BillIds : bill[b].status \in {"OPEN", "PARTIAL", "PENDING", "PAID"}}

\* createOpenBill: the bill there is, or a new one of the lines the order has;
\* none after a split or a merge.
OpenBill(o) ==
  \/ Live(o) # {} /\ UNCHANGED bill
  \/ /\ Live(o) = {} /\ \A b \in BillsOf(o) : bill[b].status \notin {"SPLIT", "MERGED"}
     /\ FreshBills(1)
     /\ \E total \in Totals : bill' = [bill EXCEPT ![NextBill] = NewBill(total, {o}, o)]

-----------------------------------------------------------------------------
(* Orders.                                                                    *)

\* createOrder and holdOrder.
CreateOrder(o) ==
  /\ order[o] = "none"
  /\ order' = [order EXCEPT ![o] = "DRAFT"]
  /\ UNCHANGED <<bill, money, history>>

\* createGuestOrder: held for review or sent at once, and billed at once.
CreateGuestOrder(o) ==
  /\ order[o] = "none"
  /\ \E status \in {"DRAFT", "KITCHEN"} : order' = [order EXCEPT ![o] = status]
  /\ OpenBill(o)
  /\ UNCHANGED <<money, history>>

\* sendToKitchen, of a draft or when lines were added with the bill.
SendToKitchen(o) ==
  /\ order[o] \in {"DRAFT", "BILL_REQUESTED", "PARTIALLY_PAID"}
  /\ order' = [order EXCEPT ![o] = "KITCHEN"]
  /\ UNCHANGED <<bill, money, history>>

\* markOrderServed does not ask whether the bill was requested.
MarkOrderServed(o) ==
  /\ order[o] \notin {"none", "KITCHEN", "CANCELLED", "PAID"}
  /\ order' = [order EXCEPT ![o] = "KITCHEN"]
  /\ UNCHANGED <<bill, money, history>>

\* requestBill, also with a last draft (requestBillWithDraft).
RequestBill(o) ==
  /\ order[o] \in {"KITCHEN", "BILL_REQUESTED"}
  /\ order' = [order EXCEPT ![o] = "BILL_REQUESTED"]
  /\ OpenBill(o)
  /\ UNCHANGED <<money, history>>

\* prepareInvoiceForPayment: nothing to do when a bill is payable.
PrepareInvoiceForPayment(o) ==
  /\ BillsOf(o) \cap Payable = {}
  /\ \A b \in BillsOf(o) : bill[b].status \notin {"PAID", "SPLIT", "MERGED"}
  /\ RequestBill(o)

CreateOpenBill(o) ==
  /\ order[o] # "none"
  /\ OpenBill(o)
  /\ UNCHANGED <<order, money, history>>

CancelOrder(o) ==
  /\ order[o] \notin {"none", "PAID", "CANCELLED"}
  /\ order' = [order EXCEPT ![o] = "CANCELLED"]
  /\ UNCHANGED <<bill, money, history>>

-----------------------------------------------------------------------------
(* Split, merge and deferral.                                                 *)

\* Mutant: a bill that was split or merged already is taken again.
UntouchedStatusUnread(b) == bill[b].unpaid /\ bill[b].status # "none"

Untouched(b) == bill[b].unpaid /\ bill[b].status = "OPEN"

MergeBills(sources) ==
  /\ Cardinality(sources) >= 2 /\ \A b \in sources : Untouched(b)
  /\ FreshBills(1)
  /\ bill' = [b \in BillIds |->
       IF b \in sources THEN [bill[b] EXCEPT !.status = "MERGED"]
       ELSE IF b = NextBill
       THEN NewBill(SumOfTotals(sources), UNION {bill[s].orders : s \in sources},
                    bill[CHOOSE s \in sources : \A t \in sources : s >= t].first)
       ELSE bill[b]]
  /\ UNCHANGED <<order, money, history>>

\* Two parts that add up to the bill.
SplitBill(b, part) ==
  /\ Untouched(b) /\ part \in 1..(bill[b].total - 1)
  /\ FreshBills(2)
  /\ bill' = [bill EXCEPT
       ![b].status    = "SPLIT",
       ![NextBill]     = NewBill(part, bill[b].orders, bill[b].first),
       ![NextBill + 1] = NewBill(bill[b].total - part, bill[b].orders, bill[b].first)]
  /\ UNCHANGED <<order, money, history>>

\* markBillPending: whatever the bill was.
MarkBillPending(b) ==
  /\ b \in Exists /\ bill[b].status # "PENDING" /\ deferrals < MaxDeferrals
  /\ bill' = [bill EXCEPT ![b].status = "PENDING"]
  /\ deferrals' = deferrals + 1
  /\ reopened' = (reopened \/ b \notin Payable)
  /\ UNCHANGED <<order, money>>

-----------------------------------------------------------------------------
(* Payments: TransactionEngine.applyPayment and the orchestrator around it.   *)

PaidBy(b, method, ps) ==
  Total([i \in 1..Len(ps) |->
           IF ps[i].bill = b /\ ps[i].method = method THEN ps[i].amount ELSE 0], Len(ps))

\* Mutant: the first payment of a bill settles it.
SettledByAny(b, amount) == TRUE

Settled(b, amount) == bill[b].paid + amount >= bill[b].total

\* The bill is credited unless it has a payment with this reference; its first
\* order follows it, and the receipt is issued when nothing is due.
ApplyPayment(b, method, ref, amount) ==
  LET again == \E i \in 1..Len(payments) : payments[i].ref = ref /\ payments[i].bill = b
      after == Append(payments, [bill |-> b, ref |-> ref, method |-> method, amount |-> amount])
      o     == bill[b].first
      whole == Settled(b, amount)
  IN  IF again THEN UNCHANGED <<order, bill, payments, receipt>>
      ELSE /\ payments' = after
           /\ bill' = [bill EXCEPT ![b].paid = @ + amount, ![b].unpaid = FALSE,
                                   ![b].status = IF whole THEN "PAID" ELSE "PARTIAL"]
           /\ order' = [order EXCEPT ![o] = IF whole THEN "PAID" ELSE "PARTIALLY_PAID"]
           /\ receipt' = IF whole /\ receipt[b] = NoReceipt
                         THEN [receipt EXCEPT ![b] =
                                 [cash |-> PaidBy(b, "CASH", after),
                                  paid |-> bill[b].paid + amount]]
                         ELSE receipt

Bounded == Len(txs) + Len(payments) - Len(SelectSeq(payments, LAMBDA p : p.ref[1] # "OLDER"))
             < MaxPayments
Collection(method, ref, amount, left, status) ==
  [method |-> method, ref |-> ref, amount |-> amount, left |-> left, status |-> status]
Allocation(tx, b, amount) == [tx |-> tx, bill |-> b, amount |-> amount]

\* validateAllocations
Allocatable(b, amount) == b \in Payable /\ amount \in 1..Due(b)

\* recordConfirmedCollection for one bill.
ConfirmedCollection(b, method, ref, amount, status) ==
  /\ Allocatable(b, amount) /\ Bounded
  /\ ApplyPayment(b, method, ref, amount)
  /\ txs' = Append(txs, Collection(method, ref, amount, 0, status))
  /\ allocs' = Append(allocs, Allocation(Len(txs) + 1, b, amount))

\* recordCash; that a drawer is open is not modelled.
RecordCash(b, amount) ==
  /\ ConfirmedCollection(b, "CASH", <<"CASH", Len(txs) + 1>>, amount, "CONFIRMED")
  /\ UNCHANGED <<refunds, history>>

\* recordManualTerminalPayment: the reference is that of the terminal.
RecordManualTerminalPayment(b, amount) ==
  /\ ConfirmedCollection(b, "CARD", <<"TERMINAL", 1>>, amount, "MANUALLY_CONFIRMED")
  /\ UNCHANGED <<refunds, history>>

Receipt(r) == <<"RECEIPT", r>>
TxsOf(r) == {i \in 1..Len(txs) : txs[i].ref = Receipt(r)}

\* recordUnverifiedCollection: a receipt code typed by the cashier.
SubmitManualReference(b, amount, r) ==
  /\ TxsOf(r) = {} /\ Allocatable(b, amount) /\ Bounded
  /\ txs' = Append(txs, Collection("WALLET", Receipt(r), amount, 0, "UNVERIFIED"))
  /\ allocs' = Append(allocs, Allocation(Len(txs) + 1, b, amount))
  /\ UNCHANGED <<order, bill, payments, receipt, refunds, history>>

\* recordDirectPayment: the provider tells of money for a receipt nobody typed; it
\* is applied when the payer's reference names a bill with exactly this balance.
RecordDirectPayment(r, amount) ==
  /\ TxsOf(r) = {} /\ Bounded
  /\ \/ /\ txs' = Append(txs, Collection("WALLET", Receipt(r), amount, amount, "CONFIRMED"))
        /\ UNCHANGED <<order, bill, payments, allocs, receipt>>
     \/ \E b \in Payable :
          Due(b) = amount /\ ConfirmedCollection(b, "WALLET", Receipt(r), amount, "CONFIRMED")
  /\ UNCHANGED <<refunds, history>>

AllocatedBy(i) == {k \in 1..Len(allocs) : allocs[k].tx = i}

\* verifyPendingCollection: the typed amount must be the provider's, and the bills
\* must still take it; the pending record is replaced by a confirmed one.
VerifyPendingCollection(i, amount) ==
  /\ txs[i].status = "UNVERIFIED"
  /\ IF amount # txs[i].amount
     THEN /\ txs' = [txs EXCEPT ![i].status = "AMOUNT_MISMATCH"]
          /\ UNCHANGED <<order, bill, payments, receipt>>
     ELSE \E k \in AllocatedBy(i) :
            /\ Allocatable(allocs[k].bill, allocs[k].amount)
            /\ ApplyPayment(allocs[k].bill, "WALLET", txs[i].ref, allocs[k].amount)
            /\ txs' = [txs EXCEPT ![i].status = "CONFIRMED"]
  /\ UNCHANGED <<allocs, refunds, history>>

\* Mutant: what is left of the collection is not written down.
LeftUnchanged(i, amount) == txs[i].left

Left(i, amount) == txs[i].left - amount

Covers(i, amount) == amount <= txs[i].left

\* applyUnallocatedCollection
ApplyUnallocatedCollection(i, b, amount) ==
  /\ txs[i].status = "CONFIRMED" /\ Covers(i, amount)
  /\ Allocatable(b, amount)
  /\ ApplyPayment(b, "WALLET", txs[i].ref, amount)
  /\ txs' = [txs EXCEPT ![i].left = Left(i, amount)]
  /\ allocs' = Append(allocs, Allocation(i, b, amount))
  /\ UNCHANGED <<refunds, history>>

\* recordManualTillPayment, recordCardPayment and recordBankPayment: the amount is
\* not compared with what is due.
RecordOlderPayment(b, amount) ==
  /\ b \in Payable /\ Bounded
  /\ ApplyPayment(b, "CARD", <<"OLDER", Len(payments) + 1>>, amount)
  /\ UNCHANGED <<txs, allocs, refunds, history>>

-----------------------------------------------------------------------------
(* Refunds.                                                                   *)

Least(S) == CHOOSE x \in S : \A y \in S : x <= y

\* Mutant: only approved refunds are taken off.
ReservedApproved(b, except) ==
  Total([i \in 1..Len(refunds) |->
           IF refunds[i].bill = b /\ i # except /\ refunds[i].status = "APPROVED"
           THEN refunds[i].amount ELSE 0], Len(refunds))

Reserved(b, except) ==
  Total([i \in 1..Len(refunds) |->
           IF refunds[i].bill = b /\ i # except /\ refunds[i].status # "REJECTED"
           THEN refunds[i].amount ELSE 0], Len(refunds))

\* refundableReceiptMinor of the cash of a bill.
Refundable(b, except) ==
  Least({PaidBy(b, "CASH", payments), receipt[b].cash, receipt[b].paid}) - Reserved(b, except)

RequestRefund(b, amount) ==
  /\ receipt[b] # NoReceipt /\ amount \in 1..Refundable(b, 0) /\ Len(refunds) < MaxRefunds
  /\ refunds' = Append(refunds, [bill |-> b, amount |-> amount, status |-> "REQUESTED"])
  /\ UNCHANGED <<order, bill, payments, txs, allocs, receipt, history>>

ApproveRefund(i) ==
  /\ refunds[i].status = "REQUESTED" /\ refunds[i].amount <= Refundable(refunds[i].bill, i)
  /\ refunds' = [refunds EXCEPT ![i].status = "APPROVED"]
  /\ UNCHANGED <<order, bill, payments, txs, allocs, receipt, history>>

RejectRefund(i) ==
  /\ refunds[i].status = "REQUESTED"
  /\ refunds' = [refunds EXCEPT ![i].status = "REJECTED"]
  /\ UNCHANGED <<order, bill, payments, txs, allocs, receipt, history>>

Next ==
  \/ \E o \in Orders :
       \/ CreateOrder(o) \/ CreateGuestOrder(o) \/ SendToKitchen(o)
       \/ MarkOrderServed(o) \/ RequestBill(o) \/ PrepareInvoiceForPayment(o)
       \/ CreateOpenBill(o) \/ CancelOrder(o)
  \/ \E sources \in SUBSET BillIds : MergeBills(sources)
  \/ \E b \in BillIds :
       \/ MarkBillPending(b)
       \/ \E n \in Amounts :
            \/ SplitBill(b, n) \/ RecordCash(b, n) \/ RecordManualTerminalPayment(b, n)
            \/ RecordOlderPayment(b, n) \/ RequestRefund(b, n)
            \/ \E r \in Receipts : SubmitManualReference(b, n, r)
            \/ \E i \in 1..Len(txs) : ApplyUnallocatedCollection(i, b, n)
  \/ \E n \in Amounts : \/ \E r \in Receipts : RecordDirectPayment(r, n)
                        \/ \E i \in 1..Len(txs) : VerifyPendingCollection(i, n)
  \/ \E i \in 1..Len(refunds) : ApproveRefund(i) \/ RejectRefund(i)

Spec == Init /\ [][Next]_vars

-----------------------------------------------------------------------------
InForce == {b \in Exists : bill[b].status \notin {"SPLIT", "MERGED"}}

\* The bill an order was first given.
FirstBills == {Least(BillsOf(o)) : o \in {p \in Orders : BillsOf(p) # {}}}

\* However bills are split and merged, and parts merged again, revenue is neither
\* lost nor repeated: the bills in force ask for what the first bills asked for,
\* unless a bill that was out of force was marked pending.
RevenueConserved == ~reopened => SumOfTotals(InForce) = SumOfTotals(FirstBills)

Counts(i) == txs[i].status \in {"CONFIRMED", "MANUALLY_CONFIRMED"}
Collected(b) ==
  Total([k \in 1..Len(allocs) |->
           IF allocs[k].bill = b /\ Counts(allocs[k].tx) THEN allocs[k].amount ELSE 0], Len(allocs))
Credited(b) ==
  Total([i \in 1..Len(payments) |->
           IF payments[i].bill = b /\ payments[i].ref[1] # "OLDER" THEN payments[i].amount ELSE 0],
        Len(payments))
Allocated(i) ==
  Total([k \in 1..Len(allocs) |-> IF k \in AllocatedBy(i) THEN allocs[k].amount ELSE 0], Len(allocs))

\* Money is spent once: what was allocated of a collection, however often it is applied,
\* and what is left of it make up what was received; a bill is credited with no more than
\* was collected and allocated to it, so that a receipt code nobody has confirmed pays
\* nothing, and with no more than it asks for.
NothingIsSpentTwice ==
  /\ \A i \in 1..Len(txs) : /\ txs[i].left >= 0
                            /\ txs[i].amount = txs[i].left + Allocated(i)
  /\ \A b \in BillIds : Credited(b) <= Collected(b) /\ Credited(b) <= bill[b].total

\* A receipt is issued for a bill that is paid in full, by the payments it lists.
ReceiptIsEarned ==
  \A b \in BillIds : receipt[b] # NoReceipt =>
    bill[b].paid >= bill[b].total /\ receipt[b].paid <= bill[b].paid

\* The refunds of a bill, requested or approved, never exceed the cash taken for it.
RefundsAreCovered ==
  \A b \in BillIds :
    Total([i \in 1..Len(refunds) |->
             IF refunds[i].bill = b /\ refunds[i].status # "REJECTED"
             THEN refunds[i].amount ELSE 0], Len(refunds)) <= PaidBy(b, "CASH", payments)

OrderSymmetry == Permutations(Orders)
=============================================================================
