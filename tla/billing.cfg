CONSTANTS
  Orders = {o1, o2}
  Totals = {2}
  MaxBills = 4
  MaxAmount = 2
  MaxPayments = 2
  MaxRefunds = 2
  MaxDeferrals = 1
  Receipts = {1}
SPECIFICATION Spec
SYMMETRY OrderSymmetry
CHECK_DEADLOCK FALSE
INVARIANTS RevenueConserved NothingIsSpentTwice ReceiptIsEarned RefundsAreCovered
