SPECIFICATION Spec
CONSTANTS
  Guests = {g1, g2}
  t1 = t1
  t2 = t2
  s1 = s1
  s2 = s2
  s3 = s3
  Tables = {t1, t2}
  Parties = {2, 4}
  CandidatesOf <- MCCandidatesOf
  Times <- MCTimes
  Verified = {TRUE, FALSE}
  Deposits = TRUE
  Handlers = {h1, h2}
  MaxRequests = 4
INVARIANTS LocksMatchBooking NoDoubleBooking TableOpenedForSeated DepositSettled DepositSpentOnce
SYMMETRY MCSymmetry
CHECK_DEADLOCK FALSE
