------------------------ MODULE BillingAndJobsProofs ------------------------
(* Proofs about Billing, for any set of orders, any totals and any bounds, and,  *)
(* in the last section, about WorkerJobs, which has nothing in common with it.   *)
(* What the code adds up with reduce is Total of Billing: its recursive          *)
(* definition is shown to be well founded here, by induction over the naturals   *)
(* in the form of the library's WFMin (a set of naturals has a least element).   *)
EXTENDS Billing, WorkerJobs, FiniteSetTheorems, TLAPS

-----------------------------------------------------------------------------
(* Sums.                                                                      *)

\* A set of naturals that is not empty has a least element.
LEMMA LeastNatural ==
  ASSUME NEW T, T \subseteq Nat, T # {}
  PROVE  \E n \in T : \A m \in T : n <= m
<1>1. OpToRel(<, Nat) = {ss \in Nat \X Nat : ss[1] < ss[2]}
  BY DEF OpToRel
<1>2. PICK R : R = {ss \in Nat \X Nat : ss[1] < ss[2]}
  OBVIOUS
<1>3. IsWellFoundedOn(R, Nat)
  BY <1>1, <1>2, NatLessThanWellFounded
<1>4. PICK x \in T : \A y \in T : ~ (<<y, x>> \in R)
  BY <1>3, WFMin
<1>5. ASSUME NEW y \in T PROVE ~ (y < x)
  BY <1>4, <1>2
<1> QED
  BY <1>5

\* Induction up to a bound, for a set instead of a predicate.
LEMMA UpTo ==
  ASSUME NEW n \in Nat, NEW S, 0 \in S, \A k \in 1..n : k - 1 \in S => k \in S
  PROVE  \A k \in 0..n : k \in S
<1> DEFINE T == (0..n) \ S
<1>1. CASE T = {}
  BY <1>1
<1>2. CASE T # {}
  <2>1. PICK k \in T : \A m \in T : k <= m
    <3>1. T \subseteq Nat
      OBVIOUS
    <3> HIDE DEF T
    <3> QED
      BY <3>1, <1>2, LeastNatural
  <2>2. k \in 1..n /\ k - 1 \in 0..n /\ k - 1 \notin T
    BY <2>1
  <2> QED
    BY <2>1, <2>2
<1> QED
  BY <1>1, <1>2

\* The partial sums of f are a function that exists ...
LEMMA SumsExist ==
  ASSUME NEW n \in Nat, NEW f, \A i \in 1..n : f[i] \in Int
  PROVE  \E u \in [0..n -> Int] : u[0] = 0 /\ \A i \in 1..n : u[i] = u[i - 1] + f[i]
<1> DEFINE Sums(k) == {u \in [0..n -> Int] : u[0] = 0 /\ \A i \in 1..k : u[i] = u[i - 1] + f[i]}
           S == {k \in 0..n : Sums(k) # {}}
<1>1. 0 \in S
  <2>1. [i \in 0..n |-> 0] \in Sums(0)
    OBVIOUS
  <2> QED
    BY <2>1
<1>2. ASSUME NEW k \in 1..n, k - 1 \in S PROVE k \in S
  <2>1. PICK u : u \in Sums(k - 1)
    BY <1>2
  <2>2. PICK v : v = [i \in 0..n |-> IF i = k THEN u[k - 1] + f[k] ELSE u[i]]
    OBVIOUS
  <2>3. v \in [0..n -> Int] /\ v[0] = 0
    BY <2>1, <2>2
  <2>4. ASSUME NEW i \in 1..k PROVE v[i] = v[i - 1] + f[i]
    BY <2>1, <2>2
  <2>5. v \in Sums(k)
    BY <2>3, <2>4
  <2> QED
    BY <2>5
<1> HIDE DEF S
<1>3. n \in S
  BY <1>1, <1>2, UpTo
<1> QED
  BY <1>3 DEF S

\* ... and Total is its last value.
LEMMA TotalIs ==
  ASSUME NEW n \in Nat, NEW f, NEW u \in [0..n -> Int],
         u[0] = 0, \A i \in 1..n : u[i] = u[i - 1] + f[i]
  PROVE  Total(f, n) = u[n]
<1> DEFINE U == CHOOSE v : v = [k \in 0..n |-> IF k = 0 THEN 0 ELSE v[k - 1] + f[k]]
<1>1. u = [k \in 0..n |-> IF k = 0 THEN 0 ELSE u[k - 1] + f[k]]
  OBVIOUS
<1>2. U = [k \in 0..n |-> IF k = 0 THEN 0 ELSE U[k - 1] + f[k]]
  BY <1>1
<1>3. Total(f, n) = U[n]
  BY DEF Total
<1> HIDE DEF U
<1> DEFINE S == {k \in 0..n : U[k] = u[k]}
<1>4. 0 \in S
  BY <1>2
<1>5. ASSUME NEW k \in 1..n, k - 1 \in S PROVE k \in S
  <2>1. U[k] = U[k - 1] + f[k]
    BY <1>2
  <2> QED
    BY <2>1, <1>5
<1> HIDE DEF S
<1>6. \A k \in 0..n : k \in S
  BY ONLY <1>4, <1>5, n \in Nat, UpTo
<1> QED
  BY <1>3, <1>6 DEF S

\* What the sum of no number is, and one number more.
LEMMA TotalStep ==
  ASSUME NEW n \in Nat, NEW f, \A i \in 1..n : f[i] \in Int
  PROVE  /\ Total(f, 0) = 0
         /\ \A k \in 0..n : Total(f, k) \in Int
         /\ \A k \in 1..n : Total(f, k) = Total(f, k - 1) + f[k]
<1>1. PICK u \in [0..n -> Int] : u[0] = 0 /\ \A i \in 1..n : u[i] = u[i - 1] + f[i]
  BY SumsExist
<1>2. ASSUME NEW k \in 0..n PROVE Total(f, k) = u[k]
  <2>1. PICK v : v = [i \in 0..k |-> u[i]]
    OBVIOUS
  <2>2. k \in Nat /\ v \in [0..k -> Int] /\ v[0] = 0 /\ v[k] = u[k]
    BY <2>1, <1>1
  <2>3. ASSUME NEW i \in 1..k PROVE v[i] = v[i - 1] + f[i]
    <3>1. i \in 1..n /\ v[i] = u[i] /\ v[i - 1] = u[i - 1]
      BY <2>1
    <3> QED
      BY <3>1, <1>1
  <2>4. Total(f, k) = v[k]
    BY ONLY <2>2, <2>3, TotalIs
  <2> QED
    BY <2>2, <2>4
<1> QED
  BY <1>1, <1>2

\* Larger numbers have a larger sum.
LEMMA TotalMonotone ==
  ASSUME NEW n \in Nat, NEW f, NEW g,
         \A i \in 1..n : f[i] \in Int /\ g[i] \in Int /\ f[i] <= g[i]
  PROVE  Total(f, n) \in Int /\ Total(g, n) \in Int /\ Total(f, n) <= Total(g, n)
<1> DEFINE S == {k \in 0..n : Total(f, k) <= Total(g, k)}
<1>1. \A i \in 1..n : f[i] \in Int
  OBVIOUS
<1>2. \A i \in 1..n : g[i] \in Int
  OBVIOUS
<1>3. /\ Total(f, 0) = 0 /\ \A k \in 0..n : Total(f, k) \in Int
      /\ \A k \in 1..n : Total(f, k) = Total(f, k - 1) + f[k]
  BY ONLY <1>1, n \in Nat, TotalStep
<1>4. /\ Total(g, 0) = 0 /\ \A k \in 0..n : Total(g, k) \in Int
      /\ \A k \in 1..n : Total(g, k) = Total(g, k - 1) + g[k]
  BY ONLY <1>2, n \in Nat, TotalStep
<1>5. 0 \in S
  BY <1>3, <1>4
<1>6. ASSUME NEW k \in 1..n, k - 1 \in S PROVE k \in S
  <2>1. f[k] \in Int /\ g[k] \in Int /\ f[k] <= g[k] /\ k - 1 \in 0..n
    OBVIOUS
  <2> QED
    BY <1>3, <1>4, <1>6, <2>1
<1> HIDE DEF S
<1>7. \A k \in 0..n : k \in S
  BY ONLY <1>5, <1>6, n \in Nat, UpTo
<1> QED
  BY <1>3, <1>4, <1>7 DEF S

\* The same numbers have the same sum.
LEMMA TotalSame ==
  ASSUME NEW n \in Nat, NEW f, NEW g, \A i \in 1..n : f[i] \in Int /\ g[i] = f[i]
  PROVE  Total(g, n) = Total(f, n) /\ Total(f, n) \in Int
<1>1. \A i \in 1..n : f[i] \in Int /\ g[i] \in Int /\ f[i] <= g[i]
  OBVIOUS
<1>2. \A i \in 1..n : g[i] \in Int /\ f[i] \in Int /\ g[i] <= f[i]
  OBVIOUS
<1>3. Total(f, n) \in Int /\ Total(g, n) \in Int /\ Total(f, n) <= Total(g, n)
  BY ONLY <1>1, n \in Nat, TotalMonotone
<1>4. Total(g, n) <= Total(f, n)
  BY ONLY <1>2, n \in Nat, TotalMonotone
<1> QED
  BY <1>3, <1>4

\* A sum of naturals is a natural.
LEMMA TotalNat ==
  ASSUME NEW n \in Nat, NEW f, \A i \in 1..n : f[i] \in Nat
  PROVE  Total(f, n) \in Nat
<1> DEFINE S == {k \in 0..n : Total(f, k) \in Nat}
<1>1. \A i \in 1..n : f[i] \in Int
  OBVIOUS
<1>2. Total(f, 0) = 0 /\ \A k \in 1..n : Total(f, k) = Total(f, k - 1) + f[k]
  BY ONLY <1>1, n \in Nat, TotalStep
<1>3. 0 \in S
  BY <1>2
<1>4. ASSUME NEW k \in 1..n, k - 1 \in S PROVE k \in S
  BY <1>2, <1>4
<1> HIDE DEF S
<1>5. \A k \in 0..n : k \in S
  BY ONLY <1>3, <1>4, n \in Nat, UpTo
<1> QED
  BY <1>5 DEF S

\* Sums add up.
LEMMA TotalPlus ==
  ASSUME NEW n \in Nat, NEW f, NEW g, NEW h,
         \A i \in 1..n : f[i] \in Int /\ g[i] \in Int /\ h[i] = f[i] + g[i]
  PROVE  /\ Total(f, n) \in Int /\ Total(g, n) \in Int
         /\ Total(h, n) = Total(f, n) + Total(g, n)
<1> DEFINE S == {k \in 0..n : Total(h, k) = Total(f, k) + Total(g, k)}
<1>1. \A i \in 1..n : f[i] \in Int
  OBVIOUS
<1>2. \A i \in 1..n : g[i] \in Int
  OBVIOUS
<1>3. \A i \in 1..n : h[i] \in Int
  OBVIOUS
<1>4. /\ Total(f, 0) = 0 /\ \A k \in 0..n : Total(f, k) \in Int
      /\ \A k \in 1..n : Total(f, k) = Total(f, k - 1) + f[k]
  BY ONLY <1>1, n \in Nat, TotalStep
<1>5. /\ Total(g, 0) = 0 /\ \A k \in 0..n : Total(g, k) \in Int
      /\ \A k \in 1..n : Total(g, k) = Total(g, k - 1) + g[k]
  BY ONLY <1>2, n \in Nat, TotalStep
<1>6. Total(h, 0) = 0 /\ \A k \in 1..n : Total(h, k) = Total(h, k - 1) + h[k]
  BY ONLY <1>3, n \in Nat, TotalStep
<1>7. 0 \in S
  BY <1>4, <1>5, <1>6
<1>8. ASSUME NEW k \in 1..n, k - 1 \in S PROVE k \in S
  <2>1. f[k] \in Int /\ g[k] \in Int /\ h[k] = f[k] + g[k] /\ k - 1 \in 0..n
    OBVIOUS
  <2>2. Total(f, k - 1) \in Int /\ Total(g, k - 1) \in Int
    BY <1>4, <1>5, <2>1
  <2> QED
    BY <1>4, <1>5, <1>6, <1>8, <2>1, <2>2
<1> HIDE DEF S
<1>9. \A k \in 0..n : k \in S
  BY ONLY <1>7, <1>8, n \in Nat, UpTo
<1> QED
  BY <1>4, <1>5, <1>9 DEF S

\* A sum with one summand is that summand.
LEMMA TotalOne ==
  ASSUME NEW n \in Nat, NEW m \in 1..n, NEW a \in Int, NEW d,
         \A i \in 1..n : d[i] = IF i = m THEN a ELSE 0
  PROVE  Total(d, n) = a
<1> DEFINE S == {k \in 0..n : Total(d, k) = IF k < m THEN 0 ELSE a}
<1>1. \A i \in 1..n : d[i] \in Int
  OBVIOUS
<1>2. Total(d, 0) = 0 /\ \A k \in 1..n : Total(d, k) = Total(d, k - 1) + d[k]
  BY ONLY <1>1, n \in Nat, TotalStep
<1>3. 0 \in S
  BY <1>2
<1>4. ASSUME NEW k \in 1..n, k - 1 \in S PROVE k \in S
  BY <1>2, <1>4
<1> HIDE DEF S
<1>5. \A k \in 0..n : k \in S
  BY ONLY <1>3, <1>4, n \in Nat, UpTo
<1> QED
  BY <1>5 DEF S

\* Exchanging one summand changes the sum by the difference.
LEMMA TotalChange ==
  ASSUME NEW n \in Nat, NEW m \in 1..n, NEW f, NEW g, \A i \in 1..n : f[i] \in Int,
         g[m] \in Int, \A i \in (1..n) \ {m} : g[i] = f[i]
  PROVE  Total(f, n) \in Int /\ Total(g, n) = Total(f, n) + (g[m] - f[m])
<1>1. PICK d : d = [i \in 1..n |-> IF i = m THEN g[m] - f[m] ELSE 0]
  OBVIOUS
<1>2. g[m] - f[m] \in Int
  OBVIOUS
<1>3. \A i \in 1..n : d[i] = IF i = m THEN g[m] - f[m] ELSE 0
  BY <1>1
<1>4. Total(d, n) = g[m] - f[m]
  BY ONLY <1>2, <1>3, n \in Nat, m \in 1..n, TotalOne
<1>5. \A i \in 1..n : f[i] \in Int /\ d[i] \in Int /\ g[i] = f[i] + d[i]
  BY <1>2, <1>3
<1> QED
  BY ONLY <1>4, <1>5, n \in Nat, TotalPlus

\* A sum in which no summand falls and one grows by a grows by a at least.
LEMMA TotalGrows ==
  ASSUME NEW n \in Nat, NEW m \in 1..n, NEW a \in Int, NEW f, NEW g,
         \A i \in 1..n : f[i] \in Int /\ g[i] \in Int /\ f[i] <= g[i],
         g[m] >= f[m] + a
  PROVE  Total(f, n) + a <= Total(g, n)
<1>1. PICK h : h = [i \in 1..n |-> IF i = m THEN f[m] + a ELSE f[i]]
  OBVIOUS
<1>2. /\ \A i \in 1..n : f[i] \in Int
      /\ h[m] = f[m] + a /\ h[m] \in Int
      /\ \A i \in (1..n) \ {m} : h[i] = f[i]
  BY <1>1
<1>3. Total(f, n) \in Int /\ Total(h, n) = Total(f, n) + (h[m] - f[m])
  BY ONLY <1>2, n \in Nat, m \in 1..n, TotalChange
<1>4. \A i \in 1..n : h[i] \in Int /\ g[i] \in Int /\ h[i] <= g[i]
  BY <1>1
<1>5. Total(h, n) \in Int /\ Total(g, n) \in Int /\ Total(h, n) <= Total(g, n)
  BY ONLY <1>4, n \in Nat, TotalMonotone
<1> QED
  BY <1>2, <1>3, <1>5

\* A number appended to a sequence is added to the sum.
LEMMA TotalAppend ==
  ASSUME NEW n \in Nat, NEW f, NEW g,
         \A i \in 1..n : f[i] \in Int /\ g[i] = f[i], g[n + 1] \in Int
  PROVE  Total(f, n) \in Int /\ Total(g, n + 1) = Total(f, n) + g[n + 1]
<1>1. Total(g, n) = Total(f, n) /\ Total(f, n) \in Int
  BY TotalSame
<1>2. n + 1 \in Nat /\ \A i \in 1..(n + 1) : g[i] \in Int
  OBVIOUS
<1>3. \A k \in 1..(n + 1) : Total(g, k) = Total(g, k - 1) + g[k]
  BY ONLY <1>2, TotalStep
<1>4. n + 1 \in 1..(n + 1) /\ (n + 1) - 1 = n
  OBVIOUS
<1> QED
  BY <1>1, <1>3, <1>4

-----------------------------------------------------------------------------
(* Bills, payments and collections are what they seem.                        *)

BillStatus == {"none", "OPEN", "PARTIAL", "PENDING", "PAID", "SPLIT", "MERGED"}
BillType   == [status : BillStatus, unpaid : BOOLEAN, total : Nat, paid : Nat,
               orders : SUBSET Orders, first : Orders \cup {0}]
Refs       == ({"CASH", "TERMINAL", "OLDER"} \X Nat) \cup ({"RECEIPT"} \X Receipts)
Methods    == {"CASH", "CARD", "WALLET"}
TxStatus   == {"CONFIRMED", "MANUALLY_CONFIRMED", "UNVERIFIED", "AMOUNT_MISMATCH"}
PaymentType == [bill : BillIds, ref : Refs, method : Methods, amount : Nat]
TxType      == [method : Methods, ref : Refs, amount : Nat, left : Nat, status : TxStatus]
AllocType   == [tx : Nat \ {0}, bill : BillIds, amount : Nat]
RefundType  == [bill : BillIds, amount : Nat, status : {"REQUESTED", "APPROVED", "REJECTED"}]

MoneyTypeOK ==
  /\ payments \in Seq(PaymentType)
  /\ txs \in Seq(TxType)
  /\ allocs \in Seq(AllocType)
  /\ refunds \in Seq(RefundType)
  /\ receipt \in [BillIds -> [cash : Nat, paid : Nat]]

\* Bills are numbered without gaps, and nothing is known of one that is not there.
BillsOK ==
  /\ bill \in [BillIds -> BillType]
  /\ \E n \in 0..MaxBills : Exists = 1..n
  /\ \A b \in BillIds \ Exists : bill[b] = NoBill /\ receipt[b] = NoReceipt

\* An allocation is one of a collection there is.
AllocsOK == \A k \in 1..Len(allocs) : allocs[k].tx <= Len(txs)

TypeInv == MoneyTypeOK /\ BillsOK /\ AllocsOK

LEMMA Bounds == MaxBills \in Nat /\ MaxAmount \in Nat /\ Totals \subseteq Nat /\ Amounts \subseteq Nat \ {0}
BY BillingAssumption DEF Amounts

LEMMA TypeInit == Init => TypeInv
<1> SUFFICES ASSUME Init PROVE TypeInv OBVIOUS
<1>1. MoneyTypeOK
  BY DEF Init, MoneyTypeOK, NoReceipt
<1>2. NoBill \in BillType
  BY DEF NoBill, BillType, BillStatus
<1>3. bill = [b \in BillIds |-> NoBill] /\ receipt = [b \in BillIds |-> NoReceipt] /\ allocs = <<>>
  BY DEF Init
<1>4. Exists = {}
  BY <1>3 DEF Exists, NoBill
<1>5. BillsOK
  <2>1. 0 \in 0..MaxBills /\ Exists = 1..0
    BY <1>4, Bounds
  <2> QED
    BY <1>2, <1>3, <2>1 DEF BillsOK
<1> QED
  BY <1>1, <1>3, <1>5 DEF TypeInv, AllocsOK

\* The next bill is the first number that is not taken.
LEMMA NextIsFresh ==
  ASSUME BillsOK, NEW k \in 1..2, FreshBills(k)
  PROVE  /\ NextBill \in BillIds /\ NextBill \in Nat /\ NextBill + k - 1 \in BillIds
         /\ Exists = 1..(NextBill - 1)
         /\ NextBill \notin Exists
<1>1. PICK n \in 0..MaxBills : Exists = 1..n
  BY DEF BillsOK
<1>2. Cardinality(1..n) = n
  BY <1>1, FS_Interval, Bounds
<1> QED
  BY <1>1, <1>2, Bounds DEF NextBill, FreshBills, BillIds

LEMMA NewBillType ==
  ASSUME NEW total \in Nat, NEW orders \in SUBSET Orders, NEW first \in Orders \cup {0}
  PROVE  /\ NewBill(total, orders, first) \in BillType
         /\ NewBill(total, orders, first).status = "OPEN"
         /\ NewBill(total, orders, first).total = total
         /\ NewBill(total, orders, first).paid = 0
         /\ NewBill(total, orders, first).orders = orders
BY DEF NewBill, NoBill, BillType, BillStatus

\* A step that adds k bills and only changes what is not money of the others.
Adds(k) ==
  /\ FreshBills(k)
  /\ bill' \in [BillIds -> BillType]
  /\ \A b \in Exists : /\ bill'[b].status # "none" /\ bill'[b].orders = bill[b].orders
                       /\ bill'[b].total = bill[b].total /\ bill'[b].paid = bill[b].paid
  /\ \A b \in NextBill..(NextBill + k - 1) : bill'[b].status = "OPEN" /\ bill'[b].paid = 0
  /\ \A b \in BillIds : b >= NextBill + k => bill'[b] = bill[b]
  /\ UNCHANGED money

LEMMA AddsKeeps ==
  ASSUME TypeInv, NEW k \in 1..2, Adds(k)
  PROVE  TypeInv' /\ Exists' = 1..(NextBill + k - 1)
<1>1. /\ NextBill \in BillIds /\ NextBill \in Nat /\ NextBill + k - 1 \in BillIds
      /\ Exists = 1..(NextBill - 1)
  BY NextIsFresh DEF TypeInv, Adds
<1>2. PICK N : N = NextBill
  OBVIOUS
<1>3. MaxBills \in Nat /\ N \in 1..MaxBills /\ N + k - 1 \in 1..MaxBills /\ Exists = 1..(N - 1)
  BY <1>1, <1>2, Bounds DEF BillIds
<1>4. ASSUME NEW b \in BillIds PROVE bill'[b].status # "none" <=> b \in 1..(N + k - 1)
  <2>1. CASE b \in Exists
    BY <2>1, <1>3 DEF Adds
  <2>2. CASE b \in N..(N + k - 1)
    BY <2>2, <1>2, <1>3 DEF Adds
  <2>3. CASE b \notin 1..(N + k - 1)
    <3>1. b >= NextBill + k /\ b \notin Exists
      BY <2>3, <1>2, <1>3, Bounds DEF BillIds
    <3> QED
      BY <3>1, <2>3 DEF Adds, Exists
  <2> QED
    BY <2>1, <2>2, <2>3, <1>3, Bounds DEF BillIds
<1>5. Exists' = 1..(N + k - 1)
  BY <1>3, <1>4 DEF Exists, BillIds
<1>6. ASSUME NEW b \in BillIds \ Exists' PROVE bill'[b] = NoBill /\ receipt'[b] = NoReceipt
  <2>1. b >= N + k /\ b \notin Exists
    BY <1>3, <1>5 DEF BillIds
  <2> QED
    BY <2>1, <1>2 DEF Adds, TypeInv, BillsOK, money
<1>7. BillsOK'
  <2>1. N + k - 1 \in 0..MaxBills
    BY <1>3
  <2> QED
    BY <1>5, <1>6, <2>1 DEF BillsOK, Adds
<1>8. MoneyTypeOK' /\ AllocsOK'
  BY DEF TypeInv, MoneyTypeOK, AllocsOK, Adds, money
<1> QED
  BY <1>2, <1>5, <1>7, <1>8 DEF TypeInv

\* createOpenBill makes a bill of an order that has none.
LEMMA OpenAdds ==
  ASSUME TypeInv, NEW o \in Orders, OpenBill(o), UNCHANGED money, bill' # bill
  PROVE  /\ Adds(1) /\ BillsOf(o) = {}
         /\ \E total \in Totals : bill' = [bill EXCEPT ![NextBill] = NewBill(total, {o}, o)]
<1>1. /\ Live(o) = {} /\ \A b \in BillsOf(o) : bill[b].status \notin {"SPLIT", "MERGED"}
      /\ FreshBills(1)
      /\ \E total \in Totals : bill' = [bill EXCEPT ![NextBill] = NewBill(total, {o}, o)]
  BY DEF OpenBill
<1>2. BillsOf(o) = {}
  BY <1>1 DEF Live, BillsOf, Exists, TypeInv, BillsOK, BillType, BillStatus
<1>3. PICK total \in Totals : bill' = [bill EXCEPT ![NextBill] = NewBill(total, {o}, o)]
  BY <1>1
<1>4. /\ NextBill \in BillIds /\ NextBill \in Nat /\ NextBill \notin Exists /\ Exists = 1..(NextBill - 1)
  BY <1>1, NextIsFresh DEF TypeInv
<1>5. /\ NewBill(total, {o}, o) \in BillType
      /\ NewBill(total, {o}, o).status = "OPEN" /\ NewBill(total, {o}, o).paid = 0
  BY NewBillType, Bounds
<1>6. PICK N, new : N = NextBill /\ new = NewBill(total, {o}, o)
  OBVIOUS
<1>7. bill \in [BillIds -> BillType] /\ bill' = [bill EXCEPT ![N] = new] /\ N \in BillIds
  BY <1>3, <1>4, <1>6 DEF TypeInv, BillsOK
<1>8. bill' \in [BillIds -> BillType] /\ bill'[N] = new /\ \A b \in BillIds \ {N} : bill'[b] = bill[b]
  BY ONLY <1>5, <1>6, <1>7
<1>9. \A b \in Exists : b \in BillIds \ {N} /\ bill[b].status # "none"
  BY <1>4, <1>6 DEF Exists
<1>10. \A b \in NextBill..(NextBill + 1 - 1) : bill'[b].status = "OPEN" /\ bill'[b].paid = 0
  BY <1>4, <1>5, <1>6, <1>8
<1>11. \A b \in BillIds : b >= NextBill + 1 => bill'[b] = bill[b]
  BY <1>4, <1>6, <1>8
<1> QED
  BY <1>1, <1>2, <1>8, <1>9, <1>10, <1>11 DEF Adds

\* The sum of some totals is a total.
LEMMA SumOfTotalsNat ==
  ASSUME TypeInv, NEW S
  PROVE  SumOfTotals(S) \in Nat
<1>1. \A b \in 1..MaxBills :
        [c \in BillIds |-> IF c \in S THEN bill[c].total ELSE 0][b] \in Nat
  BY DEF TypeInv, BillsOK, BillType, BillIds
<1> QED
  BY <1>1, TotalNat, Bounds DEF SumOfTotals

\* mergeBills makes one bill of several that nothing was paid of.
LEMMA MergeAdds ==
  ASSUME TypeInv, NEW sources \in SUBSET BillIds, MergeBills(sources)
  PROVE  /\ Adds(1) /\ sources \subseteq Exists
         /\ \A b \in sources : bill[b].status = "OPEN"
         /\ bill'[NextBill].total = SumOfTotals(sources)
         /\ bill'[NextBill].orders = UNION {bill[s].orders : s \in sources}
         /\ \A b \in Exists : bill'[b].status = IF b \in sources THEN "MERGED" ELSE bill[b].status
<1>1. sources # {}
  <2>1. sources = {} => Cardinality(sources) = 0
    BY FS_EmptySet
  <2> QED
    BY <2>1 DEF MergeBills
<1>2. PICK last \in sources : \A t \in sources : last >= t
  <2> DEFINE T == {MaxBills - b : b \in sources}
  <2>1. T \subseteq Nat /\ T # {}
    <3>1. PICK b : b \in sources
      BY <1>1
    <3>2. MaxBills - b \in T
      BY <3>1
    <3>3. \A c \in sources : MaxBills - c \in Nat
      BY Bounds DEF BillIds
    <3> QED
      BY <3>2, <3>3
  <2> HIDE DEF T
  <2>2. PICK n \in T : \A m \in T : n <= m
    BY <2>1, LeastNatural
  <2>3. PICK b \in sources : n = MaxBills - b
    BY <2>2 DEF T
  <2>4. ASSUME NEW t \in sources PROVE b >= t
    <3>1. MaxBills - t \in T
      BY DEF T
    <3> QED
      BY <3>1, <2>2, <2>3, Bounds DEF BillIds
  <2> QED
    BY <2>4
<1>3. PICK first : first = bill[CHOOSE s \in sources : \A t \in sources : s >= t].first
  OBVIOUS
<1>4. first \in Orders \cup {0}
  BY <1>2, <1>3 DEF TypeInv, BillsOK, BillType
<1>5. PICK orders : orders = UNION {bill[s].orders : s \in sources}
  OBVIOUS
<1>6. orders \in SUBSET Orders
  BY <1>5 DEF TypeInv, BillsOK, BillType
<1>7. PICK total \in Nat : total = SumOfTotals(sources)
  BY SumOfTotalsNat
<1>8. PICK new : new = NewBill(total, orders, first)
  OBVIOUS
<1>9. /\ new \in BillType /\ new.status = "OPEN" /\ new.paid = 0
      /\ new.total = total /\ new.orders = orders
  BY <1>4, <1>6, <1>8, NewBillType
<1>10. PICK N : N = NextBill
  OBVIOUS
<1>11. FreshBills(1) /\ N \in BillIds /\ N \in Nat /\ N \notin Exists /\ Exists = 1..(N - 1)
  BY <1>10, NextIsFresh DEF MergeBills, TypeInv
<1>12. \A b \in sources : bill[b].status = "OPEN" /\ b \in Exists
  BY DEF MergeBills, Untouched, Exists
<1>13. bill' = [b \in BillIds |-> IF b \in sources THEN [bill[b] EXCEPT !.status = "MERGED"]
                                 ELSE IF b = N THEN new ELSE bill[b]]
  BY <1>3, <1>5, <1>7, <1>8, <1>10 DEF MergeBills
<1>14. ASSUME NEW b \in BillIds
       PROVE  /\ [bill[b] EXCEPT !.status = "MERGED"] \in BillType
              /\ [bill[b] EXCEPT !.status = "MERGED"].status = "MERGED"
              /\ [bill[b] EXCEPT !.status = "MERGED"].total = bill[b].total
              /\ [bill[b] EXCEPT !.status = "MERGED"].paid = bill[b].paid
              /\ [bill[b] EXCEPT !.status = "MERGED"].orders = bill[b].orders
  BY DEF TypeInv, BillsOK, BillType, BillStatus
<1>15. bill \in [BillIds -> BillType]
  BY DEF TypeInv, BillsOK
<1>16. bill' \in [BillIds -> BillType]
  BY ONLY <1>9, <1>13, <1>14, <1>15
<1>17. bill'[N] = new
  BY <1>11, <1>12, <1>13
<1>18. ASSUME NEW b \in Exists
       PROVE  /\ bill'[b].status # "none" /\ bill'[b].orders = bill[b].orders
              /\ bill'[b].total = bill[b].total /\ bill'[b].paid = bill[b].paid
              /\ bill'[b].status = IF b \in sources THEN "MERGED" ELSE bill[b].status
  <2>1. b \in BillIds /\ bill[b].status # "none" /\ b # N
    BY <1>11 DEF Exists
  <2>2. CASE b \in sources
    <3>1. bill'[b] = [bill[b] EXCEPT !.status = "MERGED"]
      BY <1>13, <2>1, <2>2
    <3> QED
      BY <3>1, <2>1, <2>2, <1>14
  <2>3. CASE b \notin sources
    <3>1. bill'[b] = bill[b]
      BY <1>13, <2>1, <2>3
    <3> QED
      BY <3>1, <2>1, <2>3
  <2> QED
    BY <2>2, <2>3
<1>19. \A b \in NextBill..(NextBill + 1 - 1) : bill'[b].status = "OPEN" /\ bill'[b].paid = 0
  BY <1>9, <1>10, <1>11, <1>17
<1>20. \A b \in BillIds : b >= NextBill + 1 => bill'[b] = bill[b]
  BY <1>10, <1>11, <1>12, <1>13
<1>21. Adds(1)
  BY <1>11, <1>16, <1>18, <1>19, <1>20 DEF Adds, MergeBills
<1> QED
  BY <1>5, <1>7, <1>9, <1>10, <1>12, <1>17, <1>18, <1>21

\* splitBill makes two bills of one.
LEMMA SplitAdds ==
  ASSUME TypeInv, NEW b \in BillIds, NEW part \in Amounts, SplitBill(b, part)
  PROVE  /\ Adds(2) /\ b \in Exists /\ bill[b].status = "OPEN"
         /\ bill'[NextBill].total = part /\ bill'[NextBill].orders = bill[b].orders
         /\ bill'[NextBill + 1].total = bill[b].total - part
         /\ bill'[NextBill + 1].orders = bill[b].orders
         /\ \A c \in Exists : bill'[c].status = IF c = b THEN "SPLIT" ELSE bill[c].status
<1>1. PICK N : N = NextBill
  OBVIOUS
<1>2. /\ FreshBills(2) /\ N \in BillIds /\ N \in Nat /\ N + 1 \in BillIds
      /\ N \notin Exists /\ Exists = 1..(N - 1)
  BY <1>1, NextIsFresh DEF SplitBill, TypeInv
<1>3. b \in Exists /\ bill[b].status = "OPEN" /\ b # N /\ b # N + 1 /\ N # N + 1
  BY <1>2 DEF SplitBill, Untouched, Exists
<1>4. PICK old \in BillType : old = bill[b]
  BY DEF TypeInv, BillsOK
<1>5. part \in Nat /\ old.total - part \in Nat /\ old.orders \in SUBSET Orders /\ old.first \in Orders \cup {0}
  BY <1>4, Bounds DEF SplitBill, BillType
<1>6. PICK one : one = NewBill(part, old.orders, old.first)
  OBVIOUS
<1>7. PICK two : two = NewBill(old.total - part, old.orders, old.first)
  OBVIOUS
<1>8. one \in BillType /\ one.status = "OPEN" /\ one.paid = 0 /\ one.total = part /\ one.orders = old.orders
  BY <1>5, <1>6, NewBillType
<1>9. /\ two \in BillType /\ two.status = "OPEN" /\ two.paid = 0
      /\ two.total = old.total - part /\ two.orders = old.orders
  BY <1>5, <1>7, NewBillType
<1>10. PICK gone : gone = [old EXCEPT !.status = "SPLIT"]
  OBVIOUS
<1>11. /\ gone \in BillType /\ gone.status = "SPLIT" /\ gone.total = old.total
       /\ gone.paid = old.paid /\ gone.orders = old.orders
  BY <1>4, <1>10 DEF BillType, BillStatus
<1>12. bill \in [BillIds -> BillType]
  BY DEF TypeInv, BillsOK
<1>13. bill' = [bill EXCEPT ![b] = gone, ![N] = one, ![N + 1] = two]
  <2>1. bill' = [bill EXCEPT ![b].status = "SPLIT", ![N] = one, ![N + 1] = two]
    BY <1>1, <1>4, <1>6, <1>7 DEF SplitBill
  <2>2. bill' = [bill EXCEPT ![b] = [bill[b] EXCEPT !.status = "SPLIT"], ![N] = one, ![N + 1] = two]
    BY <2>1
  <2> QED
    BY ONLY <2>2, <1>4, <1>10
<1>14. /\ bill'[b] = gone /\ bill'[N] = one /\ bill'[N + 1] = two
       /\ \A c \in BillIds \ {b, N, N + 1} : bill'[c] = bill[c]
  BY ONLY <1>13, <1>12, <1>2, <1>3, b \in BillIds
<1>15. bill' \in [BillIds -> BillType]
  BY ONLY <1>13, <1>12, <1>2, <1>8, <1>9, <1>11, b \in BillIds
<1>16. ASSUME NEW c \in Exists
       PROVE  /\ bill'[c].status # "none" /\ bill'[c].orders = bill[c].orders
              /\ bill'[c].total = bill[c].total /\ bill'[c].paid = bill[c].paid
              /\ bill'[c].status = IF c = b THEN "SPLIT" ELSE bill[c].status
  <2>1. c \in BillIds /\ bill[c].status # "none" /\ c # N /\ c # N + 1
    BY <1>2 DEF Exists
  <2> QED
    BY <2>1, <1>4, <1>11, <1>14
<1>17. \A c \in NextBill..(NextBill + 2 - 1) : bill'[c].status = "OPEN" /\ bill'[c].paid = 0
  <2>1. \A c \in NextBill..(NextBill + 2 - 1) : c = N \/ c = N + 1
    BY <1>1, <1>2
  <2> QED
    BY <2>1, <1>8, <1>9, <1>14
<1>18. \A c \in BillIds : c >= NextBill + 2 => bill'[c] = bill[c]
  BY <1>1, <1>2, <1>3, <1>14
<1>19. Adds(2)
  BY <1>2, <1>15, <1>16, <1>17, <1>18 DEF Adds, SplitBill
<1> QED
  BY <1>1, <1>3, <1>4, <1>8, <1>9, <1>14, <1>16, <1>19

\* The elements of a sequence, and of one that is an element longer.
LEMMA Elements ==
  ASSUME NEW S, NEW s \in Seq(S)
  PROVE  /\ Len(s) \in Nat /\ \A i \in 1..Len(s) : s[i] \in S
         /\ \A x \in S : /\ Append(s, x) \in Seq(S) /\ Len(Append(s, x)) = Len(s) + 1
                        /\ \A i \in 1..Len(s) : Append(s, x)[i] = s[i]
                        /\ Append(s, x)[Len(s) + 1] = x
OBVIOUS

\* What was paid of a bill by a method is a natural number.
LEMMA PaidByNat ==
  ASSUME NEW ps \in Seq(PaymentType), NEW b, NEW method
  PROVE  PaidBy(b, method, ps) \in Nat
<1>1. Len(ps) \in Nat /\ \A i \in 1..Len(ps) : ps[i].amount \in Nat
  <2>1. Len(ps) \in Nat /\ \A i \in 1..Len(ps) : ps[i] \in PaymentType
    BY Elements
  <2> QED
    BY <2>1 DEF PaymentType
<1>2. \A j \in 1..Len(ps) :
        [i \in 1..Len(ps) |->
           IF ps[i].bill = b /\ ps[i].method = method THEN ps[i].amount ELSE 0][j] \in Nat
  BY <1>1
<1> QED
  BY <1>1, <1>2, TotalNat DEF PaidBy

\* applyPayment leaves everything alone, or writes one payment, credits one bill with it
\* and issues the receipt of that bill at most, when it is settled.
Credits(b, method, ref, amount) ==
  /\ payments' = Append(payments, [bill |-> b, ref |-> ref, method |-> method, amount |-> amount])
  /\ payments' \in Seq(PaymentType)
  /\ bill' \in [BillIds -> BillType]
  /\ \A c \in BillIds \ {b} : bill'[c] = bill[c] /\ receipt'[c] = receipt[c]
  /\ bill'[b].paid = bill[b].paid + amount
  /\ bill'[b].total = bill[b].total /\ bill'[b].orders = bill[b].orders
  /\ bill'[b].status \in {"PAID", "PARTIAL"}
  /\ receipt' \in [BillIds -> [cash : Nat, paid : Nat]]
  /\ \/ receipt'[b] = receipt[b]
     \/ bill'[b].paid >= bill[b].total /\ receipt'[b].paid = bill'[b].paid

LEMMA PayEffect ==
  ASSUME TypeInv, NEW b \in Payable, NEW method \in Methods, NEW ref \in Refs, NEW amount \in Nat,
         ApplyPayment(b, method, ref, amount)
  PROVE  UNCHANGED <<bill, payments, receipt>> \/ Credits(b, method, ref, amount)
<1>1. CASE UNCHANGED <<bill, payments, receipt>>
  BY <1>1
<1>2. CASE ~ UNCHANGED <<bill, payments, receipt>>
  <2>1. PICK p : p = [bill |-> b, ref |-> ref, method |-> method, amount |-> amount]
    OBVIOUS
  <2>2. PICK after : after = Append(payments, p)
    OBVIOUS
  <2>3. PICK whole \in BOOLEAN : whole <=> Settled(b, amount)
    OBVIOUS
  <2>4. PICK st : st = IF Settled(b, amount) THEN "PAID" ELSE "PARTIAL"
    OBVIOUS
  <2>5. PICK rc : rc = [cash |-> PaidBy(b, "CASH", after), paid |-> bill[b].paid + amount]
    OBVIOUS
  <2>6. /\ payments' = after
        /\ bill' = [bill EXCEPT ![b].paid = @ + amount, ![b].unpaid = FALSE, ![b].status = st]
        /\ receipt' = IF Settled(b, amount) /\ receipt[b] = NoReceipt
                      THEN [receipt EXCEPT ![b] = rc] ELSE receipt
    BY <1>2, <2>1, <2>2, <2>4, <2>5 DEF ApplyPayment
  <2>7. b \in BillIds /\ p \in PaymentType
    BY <2>1 DEF Payable, PaymentType
  <2>8. after \in Seq(PaymentType)
    BY <2>2, <2>7 DEF TypeInv, MoneyTypeOK
  <2>9. PICK old \in BillType : old = bill[b]
    BY <2>7 DEF TypeInv, BillsOK
  <2>10. PICK new : new = [old EXCEPT !.paid = @ + amount, !.unpaid = FALSE, !.status = st]
    OBVIOUS
  <2>11. st \in {"PAID", "PARTIAL"} /\ st \in BillStatus /\ old.paid + amount \in Nat
    BY <2>4, <2>9 DEF BillStatus, BillType
  <2>12. /\ new \in BillType /\ new.paid = old.paid + amount /\ new.total = old.total
         /\ new.orders = old.orders /\ new.status = st
    BY ONLY <2>9, <2>10, <2>11 DEF BillType
  <2>13. bill \in [BillIds -> BillType] /\ receipt \in [BillIds -> [cash : Nat, paid : Nat]]
    BY DEF TypeInv, BillsOK, MoneyTypeOK
  <2>14. bill' = [bill EXCEPT ![b] = new]
    BY ONLY <2>6, <2>9, <2>10, <2>13, <2>7
  <2>15. /\ bill' \in [BillIds -> BillType] /\ bill'[b] = new
         /\ \A c \in BillIds \ {b} : bill'[c] = bill[c]
    BY ONLY <2>14, <2>13, <2>12, <2>7
  <2>16. rc \in [cash : Nat, paid : Nat] /\ rc.paid = new.paid
    BY <2>5, <2>8, <2>9, <2>11, <2>12, PaidByNat
  <2>17. CASE Settled(b, amount) /\ receipt[b] = NoReceipt
    <3>1. receipt' = [receipt EXCEPT ![b] = rc]
      BY <2>6, <2>17
    <3>2. /\ receipt' \in [BillIds -> [cash : Nat, paid : Nat]] /\ receipt'[b] = rc
          /\ \A c \in BillIds \ {b} : receipt'[c] = receipt[c]
      BY ONLY <3>1, <2>13, <2>16, <2>7
    <3>3. bill'[b].paid >= bill[b].total
      BY <2>9, <2>12, <2>15, <2>17 DEF Settled
    <3> QED
      BY <3>2, <3>3, <2>1, <2>2, <2>6, <2>8, <2>9, <2>11, <2>12, <2>15, <2>16 DEF Credits
  <2>18. CASE ~ (Settled(b, amount) /\ receipt[b] = NoReceipt)
    <3>1. receipt' = receipt
      BY <2>6, <2>18
    <3> QED
      BY <3>1, <2>1, <2>2, <2>6, <2>8, <2>9, <2>11, <2>12, <2>13, <2>15 DEF Credits
  <2> QED
    BY <2>17, <2>18
<1> QED
  BY <1>1, <1>2

-----------------------------------------------------------------------------
(* What a step does to bills and money, whichever command it is.              *)

OnlyOrders == UNCHANGED <<bill, money, history>>
Opens(o) == OpenBill(o) /\ UNCHANGED <<money, history>>
Collects(b, method, ref, n, st) ==
  ConfirmedCollection(b, method, ref, n, st) /\ UNCHANGED <<refunds, history>>
LeavesUnallocated(r, n) ==
  /\ txs' = Append(txs, Collection("WALLET", Receipt(r), n, n, "CONFIRMED"))
  /\ UNCHANGED <<bill, payments, allocs, receipt, refunds, history>>

LEMMA Shapes ==
  ASSUME TypeInv, Next
  PROVE  \/ OnlyOrders
         \/ \E o \in Orders : Opens(o)
         \/ \E sources \in SUBSET BillIds : MergeBills(sources)
         \/ \E b \in BillIds, n \in Amounts : SplitBill(b, n)
         \/ \E b \in BillIds : MarkBillPending(b)
         \/ \E b \in BillIds, method \in Methods, ref \in Refs, n \in Amounts,
              st \in {"CONFIRMED", "MANUALLY_CONFIRMED"} : Collects(b, method, ref, n, st)
         \/ \E r \in Receipts, n \in Amounts : LeavesUnallocated(r, n)
         \/ \E b \in BillIds, n \in Amounts, r \in Receipts : SubmitManualReference(b, n, r)
         \/ \E i \in 1..Len(txs), n \in Amounts : VerifyPendingCollection(i, n)
         \/ \E i \in 1..Len(txs), b \in BillIds, n \in Amounts : ApplyUnallocatedCollection(i, b, n)
         \/ \E b \in BillIds, n \in Amounts : RecordOlderPayment(b, n)
         \/ \E b \in BillIds, n \in Amounts : RequestRefund(b, n)
         \/ \E i \in 1..Len(refunds) : ApproveRefund(i)
         \/ \E i \in 1..Len(refunds) : RejectRefund(i)
<1>1. ASSUME NEW o \in Orders,
             \/ CreateOrder(o) \/ CreateGuestOrder(o) \/ SendToKitchen(o)
             \/ MarkOrderServed(o) \/ RequestBill(o) \/ PrepareInvoiceForPayment(o)
             \/ CreateOpenBill(o) \/ CancelOrder(o)
      PROVE  OnlyOrders \/ Opens(o)
  BY <1>1 DEF CreateOrder, CreateGuestOrder, SendToKitchen, MarkOrderServed, RequestBill,
    PrepareInvoiceForPayment, CreateOpenBill, CancelOrder, OnlyOrders, Opens
<1>2. Len(txs) + 1 \in Nat
  BY Elements DEF TypeInv, MoneyTypeOK
<1>3. ASSUME NEW b \in BillIds, NEW n \in Amounts, RecordCash(b, n)
      PROVE  \E method \in Methods, ref \in Refs, st \in {"CONFIRMED", "MANUALLY_CONFIRMED"} :
               Collects(b, method, ref, n, st)
  <2>1. <<"CASH", Len(txs) + 1>> \in Refs /\ "CASH" \in Methods
    BY <1>2 DEF Refs, Methods
  <2> QED
    BY <1>3, <2>1 DEF RecordCash, Collects
<1>4. ASSUME NEW b \in BillIds, NEW n \in Amounts, RecordManualTerminalPayment(b, n)
      PROVE  \E method \in Methods, ref \in Refs, st \in {"CONFIRMED", "MANUALLY_CONFIRMED"} :
               Collects(b, method, ref, n, st)
  <2>1. <<"TERMINAL", 1>> \in Refs /\ "CARD" \in Methods
    BY DEF Refs, Methods
  <2> QED
    BY <1>4, <2>1 DEF RecordManualTerminalPayment, Collects
<1>5. ASSUME NEW r \in Receipts, NEW n \in Amounts, RecordDirectPayment(r, n)
      PROVE  \/ LeavesUnallocated(r, n)
             \/ \E b \in BillIds, method \in Methods, ref \in Refs,
                   st \in {"CONFIRMED", "MANUALLY_CONFIRMED"} : Collects(b, method, ref, n, st)
  <2>1. Receipt(r) \in Refs /\ "WALLET" \in Methods /\ Payable \subseteq BillIds
    BY DEF Refs, Methods, Receipt, Payable
  <2> QED
    BY <1>5, <2>1 DEF RecordDirectPayment, LeavesUnallocated, Collects
<1> QED
  BY <1>1, <1>3, <1>4, <1>5 DEF Next

\* The types after a payment.
LEMMA PayKeeps ==
  ASSUME TypeInv, NEW b \in Payable, NEW method \in Methods, NEW ref \in Refs, NEW n \in Nat,
         ApplyPayment(b, method, ref, n),
         UNCHANGED refunds, txs' \in Seq(TxType), allocs' \in Seq(AllocType), AllocsOK'
  PROVE  TypeInv' /\ Exists' = Exists /\ InForce' = InForce
<1>1. CASE UNCHANGED <<bill, payments, receipt>>
  BY <1>1 DEF TypeInv, BillsOK, MoneyTypeOK, Exists, InForce
<1>2. CASE Credits(b, method, ref, n)
  <2>1. b \in BillIds /\ bill[b].status \in {"OPEN", "PARTIAL", "PENDING"}
    BY DEF Payable
  <2>2. /\ bill' \in [BillIds -> BillType] /\ bill'[b].status \in {"PAID", "PARTIAL"}
        /\ \A c \in BillIds \ {b} : bill'[c] = bill[c] /\ receipt'[c] = receipt[c]
    BY <1>2 DEF Credits
  <2>3. Exists' = Exists /\ b \in Exists
    BY <2>1, <2>2 DEF Exists
  <2>4. InForce' = InForce
    BY <2>1, <2>2, <2>3 DEF InForce, Exists
  <2>5. BillsOK'
    BY <2>2, <2>3 DEF BillsOK, TypeInv
  <2>6. MoneyTypeOK'
    BY <1>2 DEF MoneyTypeOK, Credits, TypeInv
  <2> QED
    BY <2>3, <2>4, <2>5, <2>6 DEF TypeInv
<1> QED
  BY <1>1, <1>2, PayEffect

LEMMA TxRecord ==
  ASSUME NEW method \in Methods, NEW ref \in Refs, NEW amount \in Nat, NEW rest \in Nat,
         NEW st \in TxStatus
  PROVE  /\ Collection(method, ref, amount, rest, st) \in TxType
         /\ Collection(method, ref, amount, rest, st).amount = amount
         /\ Collection(method, ref, amount, rest, st).left = rest
         /\ Collection(method, ref, amount, rest, st).status = st
BY DEF Collection, TxType

LEMMA AllocRecord ==
  ASSUME NEW tx \in Nat \ {0}, NEW b \in BillIds, NEW amount \in Nat
  PROVE  /\ Allocation(tx, b, amount) \in AllocType /\ Allocation(tx, b, amount).tx = tx
         /\ Allocation(tx, b, amount).bill = b /\ Allocation(tx, b, amount).amount = amount
BY DEF Allocation, AllocType

\* The collections and allocations there are.
LEMMA Entries ==
  ASSUME TypeInv
  PROVE  /\ Len(txs) \in Nat /\ Len(allocs) \in Nat /\ Len(payments) \in Nat /\ Len(refunds) \in Nat
         /\ \A i \in 1..Len(txs) : txs[i] \in TxType
         /\ \A k \in 1..Len(allocs) : allocs[k] \in AllocType /\ allocs[k].tx \in 1..Len(txs)
         /\ \A i \in 1..Len(payments) : payments[i] \in PaymentType
         /\ \A i \in 1..Len(refunds) : refunds[i] \in RefundType
<1>1. /\ Len(txs) \in Nat /\ Len(allocs) \in Nat /\ Len(payments) \in Nat /\ Len(refunds) \in Nat
      /\ \A i \in 1..Len(txs) : txs[i] \in TxType
      /\ \A k \in 1..Len(allocs) : allocs[k] \in AllocType
      /\ \A i \in 1..Len(payments) : payments[i] \in PaymentType
      /\ \A i \in 1..Len(refunds) : refunds[i] \in RefundType
  BY Elements DEF TypeInv, MoneyTypeOK
<1>2. \A k \in 1..Len(allocs) : allocs[k].tx \in 1..Len(txs)
  BY <1>1 DEF TypeInv, AllocsOK, AllocType
<1> QED
  BY <1>1, <1>2

\* A collection is appended, and an allocation of one there is.
LEMMA Booked ==
  ASSUME TypeInv, NEW t \in TxType, NEW a \in AllocType, a.tx <= Len(txs'),
         txs' = Append(txs, t) \/ (txs' \in Seq(TxType) /\ Len(txs') = Len(txs)),
         allocs' = Append(allocs, a) \/ allocs' = allocs
  PROVE  /\ txs' \in Seq(TxType) /\ allocs' \in Seq(AllocType) /\ AllocsOK'
         /\ Len(txs') \in Nat /\ Len(txs') >= Len(txs)
<1>1. Len(txs) \in Nat /\ Len(allocs) \in Nat /\ \A k \in 1..Len(allocs) : allocs[k].tx \in 1..Len(txs)
  BY Entries
<1>2. txs' \in Seq(TxType) /\ Len(txs') \in Nat /\ Len(txs') >= Len(txs)
  <2>1. txs \in Seq(TxType)
    BY DEF TypeInv, MoneyTypeOK
  <2> QED
    BY <2>1, <1>1, Elements
<1>3. allocs \in Seq(AllocType)
  BY DEF TypeInv, MoneyTypeOK
<1>4. CASE allocs' = allocs
  <2>1. ASSUME NEW k \in 1..Len(allocs) PROVE allocs[k].tx <= Len(txs')
    BY <1>1, <1>2
  <2>2. AllocsOK'
    BY <2>1, <1>4 DEF AllocsOK
  <2> QED
    BY <2>2, <1>2, <1>3, <1>4
<1>5. CASE allocs' = Append(allocs, a)
  <2>1. /\ allocs' \in Seq(AllocType) /\ Len(allocs') = Len(allocs) + 1
        /\ \A k \in 1..Len(allocs) : allocs'[k] = allocs[k]
        /\ allocs'[Len(allocs) + 1] = a
    BY <1>3, <1>5, Elements
  <2>2. ASSUME NEW k \in 1..Len(allocs') PROVE allocs'[k].tx <= Len(txs')
    <3>1. CASE k = Len(allocs) + 1
      BY <3>1, <2>1
    <3>2. CASE k # Len(allocs) + 1
      <4>1. k \in 1..Len(allocs)
        BY <3>2, <2>1, <1>1
      <4> QED
        BY <4>1, <2>1, <1>1, <1>2
    <3> QED
      BY <3>1, <3>2
  <2> QED
    BY <2>1, <2>2, <1>2 DEF AllocsOK
<1> QED
  BY <1>2, <1>4, <1>5

\* What recordConfirmedCollection does.
LEMMA CollectsEffect ==
  ASSUME TypeInv, NEW b \in BillIds, NEW method \in Methods, NEW ref \in Refs, NEW n \in Amounts,
         NEW st \in {"CONFIRMED", "MANUALLY_CONFIRMED"}, Collects(b, method, ref, n, st)
  PROVE  /\ b \in Payable /\ n \in Nat /\ n <= bill[b].total - bill[b].paid
         /\ ApplyPayment(b, method, ref, n)
         /\ \E t \in TxType, a \in AllocType :
              /\ txs' = Append(txs, t) /\ allocs' = Append(allocs, a)
              /\ t.amount = n /\ t.left = 0 /\ t.status = st
              /\ a.tx = Len(txs) + 1 /\ a.bill = b /\ a.amount = n
         /\ TypeInv' /\ Exists' = Exists /\ InForce' = InForce
<1>1. /\ b \in Payable /\ n \in Nat /\ n <= bill[b].total - bill[b].paid
      /\ ApplyPayment(b, method, ref, n)
      /\ txs' = Append(txs, Collection(method, ref, n, 0, st))
      /\ allocs' = Append(allocs, Allocation(Len(txs) + 1, b, n))
  BY Bounds DEF Collects, ConfirmedCollection, Allocatable, Due
<1>2. PICK t : t = Collection(method, ref, n, 0, st)
  OBVIOUS
<1>3. t \in TxType /\ t.amount = n /\ t.left = 0 /\ t.status = st
  <2>1. st \in TxStatus /\ 0 \in Nat /\ n \in Nat
    BY <1>1 DEF TxStatus
  <2> QED
    BY ONLY <1>2, <2>1, method \in Methods, ref \in Refs, TxRecord
<1>4. Len(txs) \in Nat
  BY Entries
<1>5. PICK a : a = Allocation(Len(txs) + 1, b, n)
  OBVIOUS
<1>6. a \in AllocType /\ a.tx = Len(txs) + 1 /\ a.bill = b /\ a.amount = n
  BY <1>1, <1>4, <1>5, AllocRecord
<1>7. Len(txs') = Len(txs) + 1
  BY <1>1, <1>2, <1>3, Elements DEF TypeInv, MoneyTypeOK
<1>8. txs' \in Seq(TxType) /\ allocs' \in Seq(AllocType) /\ AllocsOK'
  BY <1>1, <1>2, <1>3, <1>4, <1>5, <1>6, <1>7, Booked
<1>9. TypeInv' /\ Exists' = Exists /\ InForce' = InForce
  BY <1>1, <1>8, PayKeeps DEF Collects
<1> QED
  BY <1>1, <1>2, <1>3, <1>5, <1>6, <1>9

\* A collection appended without a payment.
LEMMA SubmitEffect ==
  ASSUME TypeInv, NEW b \in BillIds, NEW n \in Amounts, NEW r \in Receipts,
         SubmitManualReference(b, n, r)
  PROVE  /\ \E t \in TxType, a \in AllocType :
              /\ txs' = Append(txs, t) /\ allocs' = Append(allocs, a)
              /\ t.amount = n /\ t.left = 0 /\ t.status = "UNVERIFIED"
              /\ a.tx = Len(txs) + 1 /\ a.bill = b /\ a.amount = n
         /\ UNCHANGED <<bill, payments, receipt, refunds, history>>
         /\ TypeInv'
<1>1. /\ txs' = Append(txs, Collection("WALLET", Receipt(r), n, 0, "UNVERIFIED"))
      /\ allocs' = Append(allocs, Allocation(Len(txs) + 1, b, n))
      /\ UNCHANGED <<bill, payments, receipt, refunds, history>>
  BY DEF SubmitManualReference
<1>2. PICK t : t = Collection("WALLET", Receipt(r), n, 0, "UNVERIFIED")
  OBVIOUS
<1>3. t \in TxType /\ t.amount = n /\ t.left = 0 /\ t.status = "UNVERIFIED"
  <2>1. Receipt(r) \in Refs /\ "WALLET" \in Methods /\ "UNVERIFIED" \in TxStatus /\ 0 \in Nat /\ n \in Nat
    BY Bounds DEF Refs, Methods, Receipt, TxStatus
  <2> QED
    BY ONLY <1>2, <2>1, TxRecord
<1>4. Len(txs) \in Nat /\ n \in Nat
  BY Entries, Bounds
<1>5. PICK a : a = Allocation(Len(txs) + 1, b, n)
  OBVIOUS
<1>6. a \in AllocType /\ a.tx = Len(txs) + 1 /\ a.bill = b /\ a.amount = n
  BY <1>4, <1>5, AllocRecord
<1>7. Len(txs') = Len(txs) + 1
  BY <1>1, <1>2, <1>3, Elements DEF TypeInv, MoneyTypeOK
<1>8. txs' \in Seq(TxType) /\ allocs' \in Seq(AllocType) /\ AllocsOK'
  BY <1>1, <1>2, <1>3, <1>4, <1>5, <1>6, <1>7, Booked
<1>9. TypeInv'
  BY <1>1, <1>8 DEF TypeInv, MoneyTypeOK, BillsOK, Exists
<1> QED
  BY <1>1, <1>2, <1>3, <1>5, <1>6, <1>9

LEMMA LeavesEffect ==
  ASSUME TypeInv, NEW n \in Amounts, NEW r \in Receipts, LeavesUnallocated(r, n)
  PROVE  /\ \E t \in TxType : txs' = Append(txs, t) /\ t.amount = n /\ t.left = n
         /\ UNCHANGED <<bill, payments, allocs, receipt, refunds, history>>
         /\ TypeInv'
<1>1. PICK t : t = Collection("WALLET", Receipt(r), n, n, "CONFIRMED")
  OBVIOUS
<1>2. t \in TxType /\ t.amount = n /\ t.left = n
  <2>1. Receipt(r) \in Refs /\ "WALLET" \in Methods /\ "CONFIRMED" \in TxStatus /\ n \in Nat
    BY Bounds DEF Refs, Methods, Receipt, TxStatus
  <2> QED
    BY ONLY <1>1, <2>1, TxRecord
<1>3. txs' = Append(txs, t) /\ UNCHANGED <<bill, payments, allocs, receipt, refunds, history>>
  BY <1>1 DEF LeavesUnallocated
<1>4. txs' \in Seq(TxType) /\ Len(txs') = Len(txs) + 1 /\ Len(txs) \in Nat
  BY <1>2, <1>3, Elements DEF TypeInv, MoneyTypeOK
<1>5. \A k \in 1..Len(allocs) : allocs[k].tx <= Len(txs')
  <2>1. \A k \in 1..Len(allocs) : allocs[k].tx \in 1..Len(txs)
    BY Entries
  <2> QED
    BY <2>1, <1>4
<1>6. AllocsOK'
  BY <1>3, <1>5 DEF AllocsOK
<1>7. TypeInv'
  BY <1>3, <1>4, <1>6 DEF TypeInv, MoneyTypeOK, BillsOK, Exists
<1> QED
  BY <1>2, <1>3, <1>7

\* One collection replaced.
LEMMA TxEdit ==
  ASSUME TypeInv, NEW i \in 1..Len(txs), NEW t \in TxType, txs' = [txs EXCEPT ![i] = t]
  PROVE  /\ txs' \in Seq(TxType) /\ Len(txs') = Len(txs) /\ txs'[i] = t
         /\ \A j \in 1..Len(txs) : j # i => txs'[j] = txs[j]
<1>1. txs \in Seq(TxType)
  BY DEF TypeInv, MoneyTypeOK
<1> QED
  BY <1>1

\* What verifyPendingCollection does when the amounts differ, and when they do not.
LEMMA VerifyEffect ==
  ASSUME TypeInv, NEW i \in 1..Len(txs), NEW n \in Amounts, VerifyPendingCollection(i, n)
  PROVE  /\ txs[i].status = "UNVERIFIED" /\ UNCHANGED <<allocs, refunds, history>>
         /\ \E st \in TxStatus : txs' = [txs EXCEPT ![i] = [txs[i] EXCEPT !.status = st]]
         /\ \/ UNCHANGED <<bill, payments, receipt>>
            \/ \E k \in 1..Len(allocs) :
                 /\ allocs[k].tx = i /\ allocs[k].bill \in Payable
                 /\ allocs[k].amount <= bill[allocs[k].bill].total - bill[allocs[k].bill].paid
                 /\ ApplyPayment(allocs[k].bill, "WALLET", txs[i].ref, allocs[k].amount)
                 /\ txs' = [txs EXCEPT ![i] = [txs[i] EXCEPT !.status = "CONFIRMED"]]
BY DEF VerifyPendingCollection, AllocatedBy, Allocatable, Due, TxStatus

LEMMA VerifyKeeps ==
  ASSUME TypeInv, NEW i \in 1..Len(txs), NEW n \in Amounts, VerifyPendingCollection(i, n)
  PROVE  TypeInv' /\ Exists' = Exists /\ InForce' = InForce
<1>1. PICK st \in TxStatus : txs' = [txs EXCEPT ![i] = [txs[i] EXCEPT !.status = st]]
  BY VerifyEffect
<1>2. [txs[i] EXCEPT !.status = st] \in TxType
  BY Entries DEF TxType
<1>3. txs' \in Seq(TxType) /\ Len(txs') = Len(txs)
  BY <1>1, <1>2, TxEdit
<1>4. UNCHANGED <<allocs, refunds, history>>
  BY VerifyEffect
<1>5. allocs' \in Seq(AllocType) /\ AllocsOK'
  BY <1>3, <1>4 DEF AllocsOK, TypeInv, MoneyTypeOK
<1>6. CASE UNCHANGED <<bill, payments, receipt>>
  BY <1>3, <1>4, <1>5, <1>6 DEF TypeInv, MoneyTypeOK, BillsOK, Exists, InForce
<1>7. ASSUME NEW k \in 1..Len(allocs), allocs[k].bill \in Payable,
             ApplyPayment(allocs[k].bill, "WALLET", txs[i].ref, allocs[k].amount)
      PROVE  TypeInv' /\ Exists' = Exists /\ InForce' = InForce
  <2>1. allocs[k].amount \in Nat /\ txs[i].ref \in Refs /\ "WALLET" \in Methods
    BY Entries DEF AllocType, TxType, Methods
  <2> QED
    BY <1>3, <1>4, <1>5, <1>7, <2>1, PayKeeps
<1> QED
  BY <1>6, <1>7, VerifyEffect

\* What applyUnallocatedCollection does.
LEMMA ApplyEffect ==
  ASSUME TypeInv, NEW i \in 1..Len(txs), NEW b \in BillIds, NEW n \in Amounts,
         ApplyUnallocatedCollection(i, b, n)
  PROVE  /\ b \in Payable /\ n \in Nat /\ n <= bill[b].total - bill[b].paid
         /\ txs[i].status = "CONFIRMED" /\ n <= txs[i].left
         /\ txs[i].ref \in Refs /\ ApplyPayment(b, "WALLET", txs[i].ref, n)
         /\ \E t \in TxType : /\ txs' = [txs EXCEPT ![i] = t]
                              /\ t.amount = txs[i].amount /\ t.left = txs[i].left - n
                              /\ t.status = txs[i].status
         /\ \E a \in AllocType : /\ allocs' = Append(allocs, a)
                                 /\ a.tx = i /\ a.bill = b /\ a.amount = n
         /\ TypeInv' /\ Exists' = Exists /\ InForce' = InForce
<1>1. /\ b \in Payable /\ n \in Nat /\ n <= bill[b].total - bill[b].paid
      /\ txs[i].status = "CONFIRMED" /\ n <= txs[i].left
      /\ ApplyPayment(b, "WALLET", txs[i].ref, n)
      /\ txs' = [txs EXCEPT ![i].left = txs[i].left - n]
      /\ allocs' = Append(allocs, Allocation(i, b, n)) /\ UNCHANGED refunds
  BY Bounds DEF ApplyUnallocatedCollection, Allocatable, Due, Covers, Left
<1>2. PICK old \in TxType : old = txs[i]
  BY Entries
<1>3. PICK t : t = [old EXCEPT !.left = old.left - n]
  OBVIOUS
<1>4. old.left - n \in Nat /\ old.ref \in Refs
  BY <1>1, <1>2 DEF TxType
<1>5. t \in TxType /\ t.amount = old.amount /\ t.left = old.left - n /\ t.status = old.status
  BY ONLY <1>2, <1>3, <1>4 DEF TxType
<1>6. txs' = [txs EXCEPT ![i] = t]
  <2>1. txs' = [txs EXCEPT ![i] = [txs[i] EXCEPT !.left = txs[i].left - n]]
    BY <1>1
  <2> QED
    BY ONLY <2>1, <1>2, <1>3
<1>7. txs' \in Seq(TxType) /\ Len(txs') = Len(txs) /\ Len(txs) \in Nat
  BY <1>5, <1>6, TxEdit, Entries
<1>8. PICK a : a = Allocation(i, b, n)
  OBVIOUS
<1>9. a \in AllocType /\ a.tx = i /\ a.bill = b /\ a.amount = n
  <2>1. i \in Nat \ {0} /\ n \in Nat
    BY <1>1, <1>7
  <2> QED
    BY ONLY <2>1, <1>8, b \in BillIds, AllocRecord
<1>10. txs' \in Seq(TxType) /\ allocs' \in Seq(AllocType) /\ AllocsOK'
  <2>1. a.tx <= Len(txs') /\ allocs' = Append(allocs, a)
    BY <1>1, <1>7, <1>8, <1>9
  <2> QED
    BY ONLY TypeInv, <2>1, <1>5, <1>7, <1>9, Booked
<1>11. "WALLET" \in Methods
  BY DEF Methods
<1>12. TypeInv' /\ Exists' = Exists /\ InForce' = InForce
  BY <1>1, <1>2, <1>4, <1>10, <1>11, PayKeeps
<1> QED
  BY <1>1, <1>2, <1>4, <1>5, <1>6, <1>8, <1>9, <1>12

\* What markBillPending does: the status of one bill.
LEMMA PendingEffect ==
  ASSUME TypeInv, NEW b \in BillIds, MarkBillPending(b)
  PROVE  /\ TypeInv' /\ Exists' = Exists /\ b \in Exists
         /\ \A c \in BillIds : /\ bill'[c].total = bill[c].total /\ bill'[c].paid = bill[c].paid
                               /\ bill'[c].orders = bill[c].orders
                               /\ bill'[c].status = IF c = b THEN "PENDING" ELSE bill[c].status
<1>1. PICK old \in BillType : old = bill[b]
  BY DEF TypeInv, BillsOK
<1>2. PICK new : new = [old EXCEPT !.status = "PENDING"]
  OBVIOUS
<1>3. /\ new \in BillType /\ new.status = "PENDING" /\ new.total = old.total
      /\ new.paid = old.paid /\ new.orders = old.orders
  BY ONLY <1>1, <1>2 DEF BillType, BillStatus
<1>4. bill' = [bill EXCEPT ![b] = new] /\ b \in Exists /\ UNCHANGED money
  <2>1. bill' = [bill EXCEPT ![b] = [bill[b] EXCEPT !.status = "PENDING"]] /\ b \in Exists /\ UNCHANGED money
    BY DEF MarkBillPending
  <2> QED
    BY ONLY <2>1, <1>1, <1>2
<1>5. bill \in [BillIds -> BillType]
  BY DEF TypeInv, BillsOK
<1>6. /\ bill' \in [BillIds -> BillType] /\ bill'[b] = new
      /\ \A c \in BillIds \ {b} : bill'[c] = bill[c]
  BY ONLY <1>3, <1>4, <1>5, b \in BillIds
<1>7. Exists' = Exists
  BY <1>3, <1>4, <1>6 DEF Exists
<1>8. BillsOK'
  BY <1>4, <1>6, <1>7 DEF TypeInv, BillsOK, money
<1>9. TypeInv'
  BY <1>4, <1>8 DEF TypeInv, MoneyTypeOK, AllocsOK, money
<1> QED
  BY <1>1, <1>3, <1>4, <1>6, <1>7, <1>9

\* What the older payment commands do.
LEMMA OlderEffect ==
  ASSUME TypeInv, NEW b \in BillIds, NEW n \in Amounts, RecordOlderPayment(b, n)
  PROVE  /\ b \in Payable /\ n \in Nat /\ <<"OLDER", Len(payments) + 1>> \in Refs
         /\ ApplyPayment(b, "CARD", <<"OLDER", Len(payments) + 1>>, n)
         /\ UNCHANGED <<txs, allocs, refunds, history>>
         /\ TypeInv' /\ Exists' = Exists /\ InForce' = InForce
<1>1. /\ b \in Payable /\ n \in Nat /\ UNCHANGED <<txs, allocs, refunds, history>>
      /\ ApplyPayment(b, "CARD", <<"OLDER", Len(payments) + 1>>, n)
  BY Bounds DEF RecordOlderPayment
<1>2. <<"OLDER", Len(payments) + 1>> \in Refs /\ "CARD" \in Methods
  BY Entries DEF Refs, Methods
<1>3. txs' \in Seq(TxType) /\ allocs' \in Seq(AllocType) /\ AllocsOK' /\ UNCHANGED refunds
  BY <1>1 DEF TypeInv, MoneyTypeOK, AllocsOK
<1>4. TypeInv' /\ Exists' = Exists /\ InForce' = InForce
  BY <1>1, <1>2, <1>3, PayKeeps
<1> QED
  BY <1>1, <1>2, <1>4

\* A refund is requested, approved or rejected.
LEMMA RefundEffect ==
  ASSUME TypeInv,
         \/ \E b \in BillIds, n \in Amounts : RequestRefund(b, n)
         \/ \E i \in 1..Len(refunds) : ApproveRefund(i) \/ RejectRefund(i)
  PROVE  TypeInv' /\ UNCHANGED <<bill, payments, txs, allocs, receipt, history>>
<1>1. UNCHANGED <<bill, payments, txs, allocs, receipt, history>>
  BY DEF RequestRefund, ApproveRefund, RejectRefund
<1>2. refunds \in Seq(RefundType)
  BY DEF TypeInv, MoneyTypeOK
<1>3. refunds' \in Seq(RefundType)
  <2>1. ASSUME NEW b \in BillIds, NEW n \in Amounts, RequestRefund(b, n) PROVE refunds' \in Seq(RefundType)
    <3>1. [bill |-> b, amount |-> n, status |-> "REQUESTED"] \in RefundType
      BY Bounds DEF RefundType
    <3> QED
      BY <2>1, <3>1, <1>2, Elements DEF RequestRefund
  <2>2. ASSUME NEW i \in 1..Len(refunds), NEW st \in {"APPROVED", "REJECTED"},
               refunds' = [refunds EXCEPT ![i] = [refunds[i] EXCEPT !.status = st]]
        PROVE  refunds' \in Seq(RefundType)
    <3>1. [refunds[i] EXCEPT !.status = st] \in RefundType
      BY Entries DEF RefundType
    <3> QED
      BY ONLY <2>2, <3>1, <1>2
  <2> QED
    BY <2>1, <2>2 DEF ApproveRefund, RejectRefund
<1> QED
  BY <1>1, <1>3 DEF TypeInv, MoneyTypeOK, BillsOK, AllocsOK, Exists

LEMMA TypeNext == TypeInv /\ [Next]_vars => TypeInv'
<1> SUFFICES ASSUME TypeInv, [Next]_vars PROVE TypeInv' OBVIOUS
<1>1. CASE UNCHANGED vars
  BY <1>1 DEF vars, TypeInv, MoneyTypeOK, BillsOK, AllocsOK, Exists
<1>2. CASE OnlyOrders
  BY <1>2 DEF OnlyOrders, money, TypeInv, MoneyTypeOK, BillsOK, AllocsOK, Exists
<1>3. ASSUME NEW o \in Orders, Opens(o) PROVE TypeInv'
  <2>1. CASE bill' = bill
    BY <1>3, <2>1 DEF Opens, money, TypeInv, MoneyTypeOK, BillsOK, AllocsOK, Exists
  <2>2. CASE bill' # bill
    <3>1. Adds(1)
      BY <1>3, <2>2, OpenAdds DEF Opens
    <3> QED
      BY <3>1, AddsKeeps
  <2> QED
    BY <2>1, <2>2
<1>4. ASSUME NEW sources \in SUBSET BillIds, MergeBills(sources) PROVE TypeInv'
  <2>1. Adds(1)
    BY <1>4, MergeAdds
  <2> QED
    BY <2>1, AddsKeeps
<1>5. ASSUME NEW b \in BillIds, NEW n \in Amounts, SplitBill(b, n) PROVE TypeInv'
  <2>1. Adds(2)
    BY <1>5, SplitAdds
  <2> QED
    BY <2>1, AddsKeeps
<1>6. ASSUME Next, ~ TypeInv' PROVE FALSE
  BY <1>2, <1>3, <1>4, <1>5, <1>6, Shapes, PendingEffect, CollectsEffect, SubmitEffect, LeavesEffect,
     VerifyKeeps, ApplyEffect, OlderEffect, RefundEffect
<1> QED
  BY <1>1, <1>6

LEMMA TypeAlways == Spec => []TypeInv
BY TypeInit, TypeNext, PTL DEF Spec

-----------------------------------------------------------------------------
(* Receipts.                                                                  *)

\* Only what is written as paid grows, and what a bill asks for stays.
LEMMA PaidGrows ==
  ASSUME TypeInv, NEW k \in 1..2, Adds(k), NEW b \in BillIds, ReceiptIsEarned, receipt'[b] # NoReceipt
  PROVE  bill'[b].paid >= bill'[b].total /\ receipt'[b].paid <= bill'[b].paid
<1>1. receipt' = receipt
  BY DEF Adds, money
<1>2. b \in Exists
  BY <1>1 DEF TypeInv, BillsOK
<1> QED
  BY <1>1, <1>2 DEF Adds, ReceiptIsEarned

LEMMA ReceiptPaid ==
  ASSUME TypeInv, ReceiptIsEarned, NEW b \in Payable, NEW method \in Methods, NEW ref \in Refs,
         NEW n \in Nat, ApplyPayment(b, method, ref, n)
  PROVE  ReceiptIsEarned'
<1>1. CASE UNCHANGED <<bill, payments, receipt>>
  BY <1>1 DEF ReceiptIsEarned
<1>2. CASE Credits(b, method, ref, n)
  <2> SUFFICES ASSUME NEW c \in BillIds, receipt'[c] # NoReceipt
               PROVE  bill'[c].paid >= bill'[c].total /\ receipt'[c].paid <= bill'[c].paid
    BY DEF ReceiptIsEarned
  <2>1. CASE c # b
    BY <1>2, <2>1 DEF Credits, ReceiptIsEarned
  <2>2. CASE c = b
    <3>1. /\ bill[b].paid \in Nat /\ bill[b].total \in Nat
          /\ receipt[b].paid \in Nat /\ receipt'[b].paid \in Nat
      BY <1>2, <2>2 DEF TypeInv, BillsOK, BillType, MoneyTypeOK, Credits
    <3>2. /\ bill'[b].paid = bill[b].paid + n /\ bill'[b].total = bill[b].total
          /\ \/ receipt'[b] = receipt[b]
             \/ bill'[b].paid >= bill[b].total /\ receipt'[b].paid = bill'[b].paid
      BY <1>2 DEF Credits
    <3> QED
      BY <2>2, <3>1, <3>2 DEF ReceiptIsEarned
  <2> QED
    BY <2>1, <2>2
<1> QED
  BY <1>1, <1>2, PayEffect

LEMMA ReceiptNext == TypeInv /\ ReceiptIsEarned /\ [Next]_vars => ReceiptIsEarned'
<1> SUFFICES ASSUME TypeInv, ReceiptIsEarned, [Next]_vars PROVE ReceiptIsEarned' OBVIOUS
<1>1. CASE UNCHANGED <<bill, receipt>>
  BY <1>1 DEF ReceiptIsEarned
<1>2. ASSUME NEW k \in 1..2, Adds(k) PROVE ReceiptIsEarned'
  BY <1>2, PaidGrows DEF ReceiptIsEarned
<1>3. ASSUME NEW o \in Orders, Opens(o), bill' # bill PROVE Adds(1)
  BY <1>3, OpenAdds DEF Opens
<1>4. ASSUME NEW b \in BillIds, MarkBillPending(b) PROVE ReceiptIsEarned'
  <2>1. receipt' = receipt
    BY <1>4 DEF MarkBillPending, money
  <2>2. \A c \in BillIds : bill'[c].total = bill[c].total /\ bill'[c].paid = bill[c].paid
    BY <1>4, PendingEffect
  <2> QED
    BY <2>1, <2>2 DEF ReceiptIsEarned
<1>5. ASSUME NEW b \in BillIds, NEW method \in Methods, NEW ref \in Refs, NEW n \in Amounts,
             NEW st \in {"CONFIRMED", "MANUALLY_CONFIRMED"}, Collects(b, method, ref, n, st)
      PROVE  ReceiptIsEarned'
  BY <1>5, CollectsEffect, ReceiptPaid
<1>6. ASSUME NEW i \in 1..Len(txs), NEW n \in Amounts, VerifyPendingCollection(i, n)
      PROVE  ReceiptIsEarned'
  <2>1. ASSUME NEW k \in 1..Len(allocs), allocs[k].bill \in Payable,
               ApplyPayment(allocs[k].bill, "WALLET", txs[i].ref, allocs[k].amount)
        PROVE  ReceiptIsEarned'
    <3>1. allocs[k].amount \in Nat /\ txs[i].ref \in Refs /\ "WALLET" \in Methods
      BY Entries DEF AllocType, TxType, Methods
    <3> QED
      BY <2>1, <3>1, ReceiptPaid
  <2> QED
    BY <1>1, <1>6, <2>1, VerifyEffect
<1>7. ASSUME NEW i \in 1..Len(txs), NEW b \in BillIds, NEW n \in Amounts,
             ApplyUnallocatedCollection(i, b, n)
      PROVE  ReceiptIsEarned'
  <2>1. "WALLET" \in Methods
    BY DEF Methods
  <2> QED
    BY <1>7, <2>1, ApplyEffect, ReceiptPaid
<1>8. ASSUME NEW b \in BillIds, NEW n \in Amounts, RecordOlderPayment(b, n) PROVE ReceiptIsEarned'
  <2>1. "CARD" \in Methods
    BY DEF Methods
  <2> QED
    BY <1>8, <2>1, OlderEffect, ReceiptPaid
<1>9. CASE Next
  <2>1. 1 \in 1..2 /\ 2 \in 1..2
    OBVIOUS
  <2>2. ASSUME OnlyOrders \/ \E o \in Orders : Opens(o) PROVE ReceiptIsEarned'
    BY <2>1, <2>2, <1>1, <1>2, <1>3 DEF OnlyOrders, Opens, money
  <2>3. ASSUME \/ \E sources \in SUBSET BillIds : MergeBills(sources)
               \/ \E b \in BillIds, n \in Amounts : SplitBill(b, n)
        PROVE  ReceiptIsEarned'
    BY <2>1, <2>3, <1>2, MergeAdds, SplitAdds
  <2>4. ASSUME \/ \E r \in Receipts, n \in Amounts : LeavesUnallocated(r, n)
               \/ \E b \in BillIds, n \in Amounts, r \in Receipts : SubmitManualReference(b, n, r)
        PROVE  ReceiptIsEarned'
    BY <2>4, <1>1, LeavesEffect, SubmitEffect
  <2>5. ASSUME \/ \E b \in BillIds, n \in Amounts : RequestRefund(b, n)
               \/ \E i \in 1..Len(refunds) : ApproveRefund(i) \/ RejectRefund(i)
        PROVE  ReceiptIsEarned'
    BY <2>5, <1>1, RefundEffect
  <2> QED
    BY <2>2, <2>3, <2>4, <2>5, <1>4, <1>5, <1>6, <1>7, <1>8, <1>9, Shapes
<1> QED
  BY <1>1, <1>9 DEF vars

\* applyPayment issues the receipt of a bill when nothing is due, and no later split, merge,
\* deferral, payment or refund leaves a receipt with a bill that is not paid in full.
THEOREM ReceiptsAreEarned == Spec => []ReceiptIsEarned
<1>1. Init => ReceiptIsEarned
  BY DEF Init, ReceiptIsEarned, NoReceipt
<1> QED
  BY <1>1, ReceiptNext, TypeAlways, PTL DEF Spec

-----------------------------------------------------------------------------
(* Money is spent once.                                                       *)

\* What a bill was credited with, and what one payment more adds to it.
LEMMA CreditedStep ==
  ASSUME TypeInv, NEW c \in BillIds
  PROVE  /\ Credited(c) \in Nat
         /\ \A p \in PaymentType : payments' = Append(payments, p) =>
              Credited(c)' = Credited(c) + IF p.bill = c /\ p.ref[1] # "OLDER" THEN p.amount ELSE 0
<1>1. PICK n \in Nat : n = Len(payments)
  BY Entries
<1>2. PICK f : f = [i \in 1..Len(payments) |->
                      IF payments[i].bill = c /\ payments[i].ref[1] # "OLDER" THEN payments[i].amount ELSE 0]
  OBVIOUS
<1>3. Credited(c) = Total(f, n)
  BY <1>1, <1>2 DEF Credited
<1>4. \A i \in 1..n : f[i] \in Nat
  <2>1. \A i \in 1..n : payments[i].amount \in Nat
    BY <1>1, Entries DEF PaymentType
  <2> QED
    BY <2>1, <1>1, <1>2
<1>5. Credited(c) \in Nat
  BY ONLY <1>3, <1>4, n \in Nat, TotalNat
<1>6. ASSUME NEW p \in PaymentType, payments' = Append(payments, p)
      PROVE  Credited(c)' = Credited(c) + IF p.bill = c /\ p.ref[1] # "OLDER" THEN p.amount ELSE 0
  <2>1. /\ Len(payments') = n + 1 /\ payments'[n + 1] = p
        /\ \A i \in 1..n : payments'[i] = payments[i]
    BY <1>1, <1>6, Elements DEF TypeInv, MoneyTypeOK
  <2>2. PICK g : g = [i \in 1..Len(payments') |->
                        IF payments'[i].bill = c /\ payments'[i].ref[1] # "OLDER"
                        THEN payments'[i].amount ELSE 0]
    OBVIOUS
  <2>3. Credited(c)' = Total(g, n + 1)
    BY <2>1, <2>2 DEF Credited
  <2>4. g[n + 1] = IF p.bill = c /\ p.ref[1] # "OLDER" THEN p.amount ELSE 0
    BY <2>1, <2>2
  <2>5. g[n + 1] \in Int
    <3>1. p.amount \in Nat
      BY DEF PaymentType
    <3> QED
      BY <3>1, <2>4
  <2>6. \A i \in 1..n : f[i] \in Int /\ g[i] = f[i]
    BY <2>1, <2>2, <1>1, <1>2, <1>4
  <2>7. Total(g, n + 1) = Total(f, n) + g[n + 1]
    BY ONLY <2>5, <2>6, n \in Nat, TotalAppend
  <2> QED
    BY <2>3, <2>4, <2>7, <1>3
<1> QED
  BY <1>5, <1>6

\* What was allocated of a collection, and what one allocation more adds to it.
LEMMA AllocatedStep ==
  ASSUME TypeInv, NEW j
  PROVE  /\ Allocated(j) \in Nat
         /\ allocs' = allocs => Allocated(j)' = Allocated(j)
         /\ \A a \in AllocType : allocs' = Append(allocs, a) =>
              Allocated(j)' = Allocated(j) + IF a.tx = j THEN a.amount ELSE 0
         /\ j \notin 1..Len(txs) => Allocated(j) = 0
<1>1. PICK n \in Nat : n = Len(allocs)
  BY Entries
<1>2. PICK f : f = [k \in 1..Len(allocs) |-> IF k \in AllocatedBy(j) THEN allocs[k].amount ELSE 0]
  OBVIOUS
<1>3. Allocated(j) = Total(f, n)
  BY <1>1, <1>2 DEF Allocated
<1>4. \A k \in 1..n : f[k] \in Nat /\ f[k] = IF allocs[k].tx = j THEN allocs[k].amount ELSE 0
  <2>1. \A k \in 1..n : allocs[k].amount \in Nat
    BY <1>1, Entries DEF AllocType
  <2> QED
    BY <2>1, <1>1, <1>2 DEF AllocatedBy
<1>5. Allocated(j) \in Nat
  BY ONLY <1>3, <1>4, n \in Nat, TotalNat
<1>6. ASSUME NEW a \in AllocType, allocs' = Append(allocs, a)
      PROVE  Allocated(j)' = Allocated(j) + IF a.tx = j THEN a.amount ELSE 0
  <2>1. /\ Len(allocs') = n + 1 /\ allocs'[n + 1] = a
        /\ \A k \in 1..n : allocs'[k] = allocs[k]
    BY <1>1, <1>6, Elements DEF TypeInv, MoneyTypeOK
  <2>2. PICK g : g = [k \in 1..Len(allocs') |-> IF k \in AllocatedBy(j)' THEN allocs'[k].amount ELSE 0]
    OBVIOUS
  <2>3. Allocated(j)' = Total(g, n + 1)
    BY <2>1, <2>2 DEF Allocated
  <2>4. g[n + 1] = IF a.tx = j THEN a.amount ELSE 0
    BY <2>1, <2>2 DEF AllocatedBy
  <2>5. g[n + 1] \in Int
    <3>1. a.amount \in Nat
      BY DEF AllocType
    <3> QED
      BY <3>1, <2>4
  <2>6. \A k \in 1..n : f[k] \in Int /\ g[k] = f[k]
    BY <2>1, <2>2, <1>1, <1>4 DEF AllocatedBy
  <2>7. Total(g, n + 1) = Total(f, n) + g[n + 1]
    BY ONLY <2>5, <2>6, n \in Nat, TotalAppend
  <2> QED
    BY <2>3, <2>4, <2>7, <1>3
<1>7. ASSUME j \notin 1..Len(txs) PROVE Allocated(j) = 0
  <2>1. PICK z : z = [k \in 1..n |-> 0]
    OBVIOUS
  <2>2. \A k \in 1..n : z[k] \in Int /\ f[k] = z[k]
    <3>1. \A k \in 1..n : allocs[k].tx \in 1..Len(txs)
      BY <1>1, Entries
    <3>2. \A k \in 1..n : allocs[k].tx # j
      BY ONLY <1>7, <3>1
    <3>3. \A k \in 1..n : f[k] = 0
      BY ONLY <1>4, <3>2
    <3> QED
      BY ONLY <2>1, <3>3, n \in Nat
  <2>3. Total(f, n) = Total(z, n)
    BY ONLY <2>2, n \in Nat, TotalSame
  <2>4. \A k \in 1..n : z[k] \in Int /\ z[k] = z[k] + z[k]
    BY <2>1
  <2>5. Total(z, n) \in Int /\ Total(z, n) = Total(z, n) + Total(z, n)
    BY ONLY <2>4, n \in Nat, TotalPlus
  <2>6. \A t \in Int : t = t + t => t = 0
    OBVIOUS
  <2>7. Total(z, n) = 0
    BY ONLY <2>5, <2>6
  <2> QED
    BY ONLY <2>3, <2>7, <1>3
<1>8. allocs' = allocs => Allocated(j)' = Allocated(j)
  BY DEF Allocated, AllocatedBy
<1> QED
  BY <1>5, <1>6, <1>7, <1>8

Confirmed == {"CONFIRMED", "MANUALLY_CONFIRMED"}

\* No step takes a confirmation back.
StaysConfirmed == \A i \in 1..Len(txs) : txs[i].status \in Confirmed => txs'[i].status \in Confirmed

\* What was collected for a bill does not fall, and an allocation of a confirmed collection
\* adds to it, when it is made and when the collection is confirmed later.
LEMMA CollectedGrows ==
  ASSUME TypeInv, StaysConfirmed, NEW c \in BillIds
  PROVE  /\ Collected(c) \in Nat
         /\ allocs' = allocs => Collected(c)' \in Int /\ Collected(c) <= Collected(c)'
         /\ allocs' = allocs => \A k \in 1..Len(allocs) :
              (/\ allocs[k].bill = c /\ txs[allocs[k].tx].status \notin Confirmed
               /\ txs'[allocs[k].tx].status \in Confirmed)
                => Collected(c) + allocs[k].amount <= Collected(c)'
         /\ \A a \in AllocType : (allocs' = Append(allocs, a)) =>
              /\ Collected(c)' \in Int /\ Collected(c) <= Collected(c)'
              /\ (a.bill = c /\ txs'[a.tx].status \in Confirmed)
                   => Collected(c) + a.amount <= Collected(c)'
<1>1. PICK n \in Nat : n = Len(allocs)
  BY Entries
<1>2. PICK f : f = [k \in 1..Len(allocs) |->
                      IF allocs[k].bill = c /\ Counts(allocs[k].tx) THEN allocs[k].amount ELSE 0]
  OBVIOUS
<1>3. Collected(c) = Total(f, n)
  BY <1>1, <1>2 DEF Collected
<1>4. \A k \in 1..n : allocs[k].amount \in Nat /\ allocs[k].tx \in 1..Len(txs)
  BY <1>1, Entries DEF AllocType
<1>5. \A k \in 1..n : /\ f[k] \in Nat
                      /\ f[k] = IF allocs[k].bill = c /\ txs[allocs[k].tx].status \in Confirmed
                                THEN allocs[k].amount ELSE 0
  BY <1>4, <1>1, <1>2 DEF Counts, Confirmed
<1>6. Collected(c) \in Nat
  BY ONLY <1>3, <1>5, n \in Nat, TotalNat
<1>7. PICK h : h = [k \in 1..n |-> IF allocs[k].bill = c /\ txs'[allocs[k].tx].status \in Confirmed
                                   THEN allocs[k].amount ELSE 0]
  OBVIOUS
<1>8. \A k \in 1..n : f[k] \in Int /\ h[k] \in Int /\ f[k] <= h[k]
  <2> SUFFICES ASSUME NEW k \in 1..n PROVE f[k] \in Int /\ h[k] \in Int /\ f[k] <= h[k]
    OBVIOUS
  <2>1. h[k] = IF allocs[k].bill = c /\ txs'[allocs[k].tx].status \in Confirmed
               THEN allocs[k].amount ELSE 0
    BY <1>7
  <2>2. txs[allocs[k].tx].status \in Confirmed => txs'[allocs[k].tx].status \in Confirmed
    BY <1>4 DEF StaysConfirmed
  <2>3. /\ allocs[k].amount \in Nat
        /\ f[k] = IF allocs[k].bill = c /\ txs[allocs[k].tx].status \in Confirmed
                  THEN allocs[k].amount ELSE 0
    BY <1>4, <1>5
  <2> QED
    BY ONLY <2>1, <2>2, <2>3
<1>9. Total(f, n) \in Int /\ Total(h, n) \in Int /\ Total(f, n) <= Total(h, n)
  BY ONLY <1>8, n \in Nat, TotalMonotone
<1>10. ASSUME allocs' = allocs PROVE Collected(c)' = Total(h, n)
  <2>1. Len(allocs') = n /\ \A k \in 1..n : allocs'[k] = allocs[k]
    BY <1>1, <1>10
  <2>2. h = [k \in 1..Len(allocs') |->
               IF allocs'[k].bill = c /\ txs'[allocs'[k].tx].status \in Confirmed THEN allocs'[k].amount ELSE 0]
    BY <1>7, <2>1
  <2> QED
    BY <2>1, <2>2 DEF Collected, Counts, Confirmed
<1>11. ASSUME NEW k \in 1..n, allocs[k].bill = c, txs[allocs[k].tx].status \notin Confirmed,
              txs'[allocs[k].tx].status \in Confirmed
       PROVE  Total(f, n) + allocs[k].amount <= Total(h, n)
  <2>1. f[k] = 0 /\ h[k] = allocs[k].amount /\ allocs[k].amount \in Int
    BY <1>4, <1>5, <1>7, <1>11
  <2>2. h[k] >= f[k] + allocs[k].amount
    BY <2>1
  <2> QED
    BY ONLY <1>8, <2>1, <2>2, n \in Nat, k \in 1..n, TotalGrows
<1>12. ASSUME NEW a \in AllocType, allocs' = Append(allocs, a)
       PROVE  /\ Collected(c)' \in Int /\ Collected(c) <= Collected(c)'
              /\ (a.bill = c /\ txs'[a.tx].status \in Confirmed)
                   => Collected(c) + a.amount <= Collected(c)'
  <2>1. /\ Len(allocs') = n + 1 /\ allocs'[n + 1] = a
        /\ \A k \in 1..n : allocs'[k] = allocs[k]
    BY <1>1, <1>12, Elements DEF TypeInv, MoneyTypeOK
  <2>2. PICK g : g = [k \in 1..Len(allocs') |->
                        IF allocs'[k].bill = c /\ txs'[allocs'[k].tx].status \in Confirmed THEN allocs'[k].amount ELSE 0]
    OBVIOUS
  <2>3. Collected(c)' = Total(g, n + 1)
    BY <2>1, <2>2 DEF Collected, Counts, Confirmed
  <2>4. g[n + 1] = IF a.bill = c /\ txs'[a.tx].status \in Confirmed THEN a.amount ELSE 0
    BY <2>1, <2>2
  <2>5. a.amount \in Nat
    BY DEF AllocType
  <2>6. g[n + 1] \in Nat /\ g[n + 1] \in Int
    BY <2>4, <2>5
  <2>7. \A k \in 1..n : h[k] \in Int /\ g[k] = h[k]
    <3>1. \A k \in 1..n : g[k] = IF allocs[k].bill = c /\ txs'[allocs[k].tx].status \in Confirmed
                                 THEN allocs[k].amount ELSE 0
      BY <2>1, <2>2
    <3> QED
      BY <3>1, <1>7, <1>8
  <2>8. Total(g, n + 1) = Total(h, n) + g[n + 1]
    BY ONLY <2>6, <2>7, n \in Nat, TotalAppend
  <2> QED
    BY <2>3, <2>4, <2>5, <2>6, <2>8, <1>3, <1>9
<1> QED
  BY <1>1, <1>3, <1>6, <1>9, <1>10, <1>11, <1>12

\* The two halves of NothingIsSpentTwice, with what keeps them: a bill is written down as
\* paid with all it is credited with.
TxsBalance == \A i \in 1..Len(txs) : txs[i].amount = txs[i].left + Allocated(i)
CreditsAreBacked ==
  \A b \in BillIds : /\ Credited(b) <= Collected(b)
                     /\ Credited(b) <= bill[b].paid /\ Credited(b) <= bill[b].total

\* A new collection is all left, or all allocated.
LEMMA TxAppended ==
  ASSUME TypeInv, TxsBalance, NEW t \in TxType, txs' = Append(txs, t), NEW a,
         \/ allocs' = allocs /\ t.amount = t.left
         \/ /\ a \in AllocType /\ allocs' = Append(allocs, a)
            /\ a.tx = Len(txs) + 1 /\ t.left = 0 /\ t.amount = a.amount
  PROVE  TxsBalance' /\ StaysConfirmed /\ txs'[Len(txs) + 1] = t
<1>1. PICK n \in Nat : n = Len(txs)
  BY Entries
<1>2. /\ Len(txs') = n + 1 /\ txs'[n + 1] = t
      /\ \A i \in 1..n : txs'[i] = txs[i]
  BY <1>1, Elements DEF TypeInv, MoneyTypeOK
<1>3. ASSUME NEW i \in 1..Len(txs') PROVE txs'[i].amount = txs'[i].left + Allocated(i)'
  <2>1. Allocated(i) \in Nat /\ (i \notin 1..n => Allocated(i) = 0)
    BY <1>1, AllocatedStep
  <2>2. CASE i \in 1..n
    <3>1. txs'[i] = txs[i] /\ i # n + 1
      BY <1>2, <2>2
    <3>2. Allocated(i)' = Allocated(i) + 0
      BY <1>1, <2>1, <3>1, AllocatedStep
    <3>3. Allocated(i)' = Allocated(i)
      BY <2>1, <3>2
    <3> QED
      BY <1>1, <2>2, <3>1, <3>3 DEF TxsBalance
  <2>3. CASE i = n + 1
    <3>1. Allocated(i) = 0
      BY <2>1, <2>3
    <3>2. t.amount \in Nat /\ t.left \in Nat /\ (allocs' # allocs => a.amount \in Nat)
      BY DEF TxType, AllocType
    <3>3. Allocated(i)' = IF allocs' = allocs THEN 0 ELSE 0 + a.amount
      BY <1>1, <2>3, <3>1, AllocatedStep
    <3> QED
      <4>1. CASE allocs' = allocs
        <5>1. t.amount = t.left
          <6>1. a \in AllocType => Len(allocs) # Len(Append(allocs, a))
            BY Entries, Elements DEF TypeInv, MoneyTypeOK
          <6> QED
            BY <4>1, <6>1
        <5> QED
          BY <4>1, <5>1, <3>2, <3>3, <2>3, <1>2
      <4>2. CASE allocs' # allocs
        BY <4>2, <3>2, <3>3, <2>3, <1>2
      <4> QED
        BY <4>1, <4>2
  <2> QED
    BY <2>2, <2>3, <1>1, <1>2
<1> QED
  BY <1>1, <1>2, <1>3 DEF TxsBalance, StaysConfirmed

\* The credit of bills after a payment that is not of the older kind or fits what is due.
LEMMA PaymentBacked ==
  ASSUME TypeInv, CreditsAreBacked, NEW b \in Payable, NEW method \in Methods, NEW ref \in Refs,
         NEW n \in Nat, ApplyPayment(b, method, ref, n), NEW c \in BillIds,
         ref[1] = "OLDER" \/ n <= bill[b].total - bill[b].paid
  PROVE  /\ Credited(c)' \in Nat /\ Credited(c)' <= bill'[c].paid /\ Credited(c)' <= bill'[c].total
         /\ Credited(c)' <= Credited(c) + IF c = b /\ ref[1] # "OLDER" THEN n ELSE 0
<1>1. /\ Credited(c) \in Nat /\ Credited(c) <= bill[c].paid /\ Credited(c) <= bill[c].total
      /\ bill[c].paid \in Nat /\ bill[c].total \in Nat
  BY CreditedStep DEF CreditsAreBacked, TypeInv, BillsOK, BillType
<1>2. CASE UNCHANGED <<bill, payments, receipt>>
  <2>1. Credited(c)' = Credited(c)
    BY <1>2 DEF Credited
  <2> QED
    BY <1>1, <1>2, <2>1
<1>3. CASE Credits(b, method, ref, n)
  <2>1. PICK p : p = [bill |-> b, ref |-> ref, method |-> method, amount |-> n]
    OBVIOUS
  <2>2. p \in PaymentType /\ p.bill = b /\ p.ref = ref /\ p.amount = n
    BY <2>1 DEF Payable, PaymentType
  <2>3. payments' = Append(payments, p)
    BY <1>3, <2>1 DEF Credits
  <2>4. Credited(c)' = Credited(c) + IF c = b /\ ref[1] # "OLDER" THEN n ELSE 0
    BY <2>2, <2>3, CreditedStep
  <2>5. CASE c = b
    <3>1. bill'[c].paid = bill[c].paid + n /\ bill'[c].total = bill[c].total
      BY <1>3, <2>5 DEF Credits
    <3>2. CASE ref[1] = "OLDER"
      BY <3>1, <3>2, <2>4, <1>1
    <3>3. CASE ref[1] # "OLDER"
      BY <3>1, <3>3, <2>4, <2>5, <1>1
    <3> QED
      BY <3>2, <3>3
  <2>6. CASE c # b
    <3>1. bill'[c] = bill[c]
      BY <1>3, <2>6 DEF Credits
    <3> QED
      BY <3>1, <2>4, <2>6, <1>1
  <2> QED
    BY <2>5, <2>6
<1> QED
  BY <1>2, <1>3, PayEffect

\* Bills that are added, merged, split or deferred are credited with nothing new.
LEMMA AddsBacked ==
  ASSUME TypeInv, TxsBalance, CreditsAreBacked, NEW k \in 1..2, Adds(k)
  PROVE  TxsBalance' /\ CreditsAreBacked'
<1>1. UNCHANGED <<payments, txs, allocs>>
  BY DEF Adds, money
<1>2. TxsBalance'
  BY <1>1 DEF TxsBalance, Allocated, AllocatedBy
<1>3. ASSUME NEW b \in BillIds
      PROVE  /\ Credited(b)' <= Collected(b)'
             /\ Credited(b)' <= bill'[b].paid /\ Credited(b)' <= bill'[b].total
  <2>1. Credited(b)' = Credited(b) /\ Collected(b)' = Collected(b)
    BY <1>1 DEF Credited, Collected, Counts
  <2>2. Credited(b) \in Nat /\ Credited(b) <= Collected(b)
    BY CreditedStep DEF CreditsAreBacked
  <2>3. CASE b \in Exists
    BY <2>1, <2>3 DEF Adds, CreditsAreBacked
  <2>4. CASE b \notin Exists
    <3>1. bill[b].paid = 0
      BY <2>4 DEF TypeInv, BillsOK, NoBill
    <3>2. Credited(b) = 0
      BY <3>1, <2>2 DEF CreditsAreBacked
    <3>3. bill'[b].paid \in Nat /\ bill'[b].total \in Nat
      BY DEF Adds, BillType
    <3> QED
      BY <3>2, <3>3, <2>1, <2>2
  <2> QED
    BY <2>3, <2>4
<1> QED
  BY <1>2, <1>3 DEF CreditsAreBacked

\* Steps that move no money.
LEMMA StillSpentOnce ==
  ASSUME TxsBalance, CreditsAreBacked, UNCHANGED <<payments, txs, allocs>>,
         \A c \in BillIds : bill'[c].total = bill[c].total /\ bill'[c].paid = bill[c].paid
  PROVE  TxsBalance' /\ CreditsAreBacked'
<1>1. TxsBalance'
  BY DEF TxsBalance, Allocated, AllocatedBy
<1>2. ASSUME NEW b \in BillIds PROVE Credited(b)' = Credited(b) /\ Collected(b)' = Collected(b)
  BY DEF Credited, Collected, Counts
<1> QED
  BY <1>1, <1>2 DEF CreditsAreBacked

\* A collection is recorded, confirmed and paid with.
LEMMA CollectsSpends ==
  ASSUME TypeInv, TxsBalance, CreditsAreBacked,
         NEW b \in BillIds, NEW method \in Methods, NEW ref \in Refs, NEW n \in Amounts,
         NEW st \in Confirmed, Collects(b, method, ref, n, st)
  PROVE  TxsBalance' /\ CreditsAreBacked'
<1>1. /\ b \in Payable /\ n \in Nat /\ n <= bill[b].total - bill[b].paid
      /\ ApplyPayment(b, method, ref, n)
  BY CollectsEffect DEF Confirmed
<1>2. PICK t \in TxType, a \in AllocType :
              /\ txs' = Append(txs, t) /\ allocs' = Append(allocs, a)
              /\ t.amount = n /\ t.left = 0 /\ t.status = st
              /\ a.tx = Len(txs) + 1 /\ a.bill = b /\ a.amount = n
  BY CollectsEffect DEF Confirmed
<1>3. TxsBalance' /\ StaysConfirmed /\ txs'[a.tx].status \in Confirmed
  <2>1. TxsBalance' /\ StaysConfirmed /\ txs'[Len(txs) + 1] = t
    BY <1>2, TxAppended
  <2> QED
    BY <2>1, <1>2
<1>4. ASSUME NEW c \in BillIds
      PROVE  /\ Credited(c)' <= Collected(c)'
             /\ Credited(c)' <= bill'[c].paid /\ Credited(c)' <= bill'[c].total
  <2>1. /\ Credited(c)' \in Nat /\ Credited(c)' <= bill'[c].paid /\ Credited(c)' <= bill'[c].total
        /\ Credited(c)' <= Credited(c) + IF c = b /\ ref[1] # "OLDER" THEN n ELSE 0
    BY <1>1, PaymentBacked
  <2>2. /\ Collected(c) \in Nat /\ Collected(c)' \in Int /\ Collected(c) <= Collected(c)'
        /\ a.bill = c => Collected(c) + a.amount <= Collected(c)'
    BY <1>2, <1>3, CollectedGrows
  <2>3. Credited(c) \in Nat /\ Credited(c) <= Collected(c)
    BY CreditedStep DEF CreditsAreBacked
  <2>4. c = b => Collected(c) + n <= Collected(c)'
    BY <2>2, <1>2
  <2>5. Credited(c)' <= Collected(c)'
    <3>1. CASE c = b
      BY <3>1, <2>1, <2>2, <2>3, <2>4, <1>1
    <3>2. CASE c # b
      BY <3>2, <2>1, <2>2, <2>3
    <3> QED
      BY <3>1, <3>2
  <2> QED
    BY <2>1, <2>5
<1> QED
  BY <1>3, <1>4 DEF CreditsAreBacked

\* A collection is recorded and nothing is paid with it.
LEMMA RecordSpends ==
  ASSUME TypeInv, TxsBalance, CreditsAreBacked, StaysConfirmed, TxsBalance',
         UNCHANGED <<bill, payments>>,
         allocs' = allocs \/ \E a \in AllocType : allocs' = Append(allocs, a)
  PROVE  CreditsAreBacked'
<1>1. ASSUME NEW c \in BillIds
      PROVE  /\ Credited(c)' <= Collected(c)'
             /\ Credited(c)' <= bill'[c].paid /\ Credited(c)' <= bill'[c].total
  <2>1. Credited(c)' = Credited(c)
    BY DEF Credited
  <2>2. Collected(c) \in Nat /\ Collected(c)' \in Int /\ Collected(c) <= Collected(c)'
    BY CollectedGrows
  <2>3. Credited(c) \in Nat /\ Credited(c) <= Collected(c)
    BY CreditedStep DEF CreditsAreBacked
  <2> QED
    BY <2>1, <2>2, <2>3 DEF CreditsAreBacked
<1> QED
  BY <1>1 DEF CreditsAreBacked

LEMMA SubmitSpends ==
  ASSUME TypeInv, TxsBalance, CreditsAreBacked,
         NEW b \in BillIds, NEW n \in Amounts, NEW r \in Receipts, SubmitManualReference(b, n, r)
  PROVE  TxsBalance' /\ CreditsAreBacked'
<1>1. PICK t \in TxType, a \in AllocType :
              /\ txs' = Append(txs, t) /\ allocs' = Append(allocs, a)
              /\ t.amount = n /\ t.left = 0 /\ t.status = "UNVERIFIED"
              /\ a.tx = Len(txs) + 1 /\ a.bill = b /\ a.amount = n
  BY SubmitEffect
<1>2. TxsBalance' /\ StaysConfirmed
  BY <1>1, TxAppended
<1>3. UNCHANGED <<bill, payments>>
  BY SubmitEffect
<1> QED
  BY <1>1, <1>2, <1>3, RecordSpends

LEMMA LeavesSpends ==
  ASSUME TypeInv, TxsBalance, CreditsAreBacked, NEW n \in Amounts, NEW r \in Receipts,
         LeavesUnallocated(r, n)
  PROVE  TxsBalance' /\ CreditsAreBacked'
<1>1. PICK t \in TxType : txs' = Append(txs, t) /\ t.amount = n /\ t.left = n
  BY LeavesEffect
<1>2. UNCHANGED <<bill, payments, allocs>>
  BY LeavesEffect
<1>3. TxsBalance' /\ StaysConfirmed
  BY <1>1, <1>2, TxAppended
<1> QED
  BY <1>2, <1>3, RecordSpends

\* A collection is confirmed, and paid with, after it was recorded.
LEMMA VerifySpends ==
  ASSUME TypeInv, TxsBalance, CreditsAreBacked, NEW i \in 1..Len(txs), NEW n \in Amounts,
         VerifyPendingCollection(i, n)
  PROVE  TxsBalance' /\ CreditsAreBacked'
<1>1. PICK st \in TxStatus : txs' = [txs EXCEPT ![i] = [txs[i] EXCEPT !.status = st]]
  BY VerifyEffect
<1>2. txs[i].status = "UNVERIFIED" /\ allocs' = allocs
  BY VerifyEffect
<1>3. PICK old \in TxType : old = txs[i]
  BY Entries
<1>4. PICK t : t = [old EXCEPT !.status = st]
  OBVIOUS
<1>5. t \in TxType /\ t.amount = old.amount /\ t.left = old.left /\ t.status = st
  BY ONLY <1>3, <1>4, st \in TxStatus DEF TxType
<1>6. /\ Len(txs') = Len(txs) /\ txs'[i] = t
      /\ \A j \in 1..Len(txs) : j # i => txs'[j] = txs[j]
  BY <1>1, <1>3, <1>4, <1>5, TxEdit
<1>7. StaysConfirmed
  BY <1>2, <1>6 DEF StaysConfirmed, Confirmed
<1>8. TxsBalance'
  <2>1. ASSUME NEW j \in 1..Len(txs) PROVE txs'[j].amount = txs'[j].left + Allocated(j)'
    <3>1. txs'[j].amount = txs[j].amount /\ txs'[j].left = txs[j].left
      BY <1>3, <1>5, <1>6
    <3>2. Allocated(j)' = Allocated(j)
      BY <1>2, AllocatedStep
    <3> QED
      BY <3>1, <3>2 DEF TxsBalance
  <2> QED
    BY <2>1, <1>6 DEF TxsBalance
<1>9. CASE UNCHANGED <<bill, payments, receipt>>
  BY <1>2, <1>7, <1>8, <1>9, RecordSpends
<1>10. ASSUME NEW k \in 1..Len(allocs),
              /\ allocs[k].tx = i /\ allocs[k].bill \in Payable
              /\ allocs[k].amount <= bill[allocs[k].bill].total - bill[allocs[k].bill].paid
              /\ ApplyPayment(allocs[k].bill, "WALLET", txs[i].ref, allocs[k].amount)
              /\ txs' = [txs EXCEPT ![i] = [txs[i] EXCEPT !.status = "CONFIRMED"]]
       PROVE  CreditsAreBacked'
  <2>1. PICK b, m, ref : b = allocs[k].bill /\ m = allocs[k].amount /\ ref = txs[i].ref
    OBVIOUS
  <2>2. m \in Nat /\ ref \in Refs /\ "WALLET" \in Methods
    BY <2>1, Entries DEF AllocType, TxType, Methods
  <2>3. /\ b \in Payable /\ m <= bill[b].total - bill[b].paid
        /\ ApplyPayment(b, "WALLET", ref, m)
    BY <1>10, <2>1
  <2>4. txs[allocs[k].tx].status \notin Confirmed /\ txs'[allocs[k].tx].status \in Confirmed
    <3>1. [old EXCEPT !.status = "CONFIRMED"].status = "CONFIRMED"
      BY <1>3 DEF TxType
    <3>2. [old EXCEPT !.status = "CONFIRMED"] \in TxType
      BY <1>3 DEF TxType, TxStatus
    <3>3. txs'[i] = [old EXCEPT !.status = "CONFIRMED"]
      BY <1>10, <1>3, <3>2, TxEdit
    <3> QED
      BY <3>1, <3>3, <1>2, <1>10 DEF Confirmed
  <2>5. ASSUME NEW c \in BillIds
        PROVE  /\ Credited(c)' <= Collected(c)'
               /\ Credited(c)' <= bill'[c].paid /\ Credited(c)' <= bill'[c].total
    <3>1. /\ Credited(c)' \in Nat /\ Credited(c)' <= bill'[c].paid /\ Credited(c)' <= bill'[c].total
          /\ Credited(c)' <= Credited(c) + IF c = b /\ ref[1] # "OLDER" THEN m ELSE 0
      BY <2>2, <2>3, PaymentBacked
    <3>2. /\ Collected(c) \in Nat /\ Collected(c)' \in Int /\ Collected(c) <= Collected(c)'
          /\ allocs[k].bill = c => Collected(c) + allocs[k].amount <= Collected(c)'
      BY <1>2, <1>7, <2>4, CollectedGrows
    <3>3. Credited(c) \in Nat /\ Credited(c) <= Collected(c)
      BY CreditedStep DEF CreditsAreBacked
    <3>4. Credited(c)' <= Collected(c)'
      <4>1. CASE c = b
        <5>1. Collected(c) + m <= Collected(c)'
          BY <3>2, <4>1, <2>1
        <5> QED
          BY <5>1, <4>1, <3>1, <3>2, <3>3, <2>2
      <4>2. CASE c # b
        BY <4>2, <3>1, <3>2, <3>3
      <4> QED
        BY <4>1, <4>2
    <3> QED
      BY <3>1, <3>4
  <2> QED
    BY <2>5 DEF CreditsAreBacked
<1> QED
  BY <1>8, <1>9, <1>10, VerifyEffect

\* What was left of a collection is paid with.
LEMMA ApplySpends ==
  ASSUME TypeInv, TxsBalance, CreditsAreBacked, NEW i \in 1..Len(txs), NEW b \in BillIds,
         NEW n \in Amounts, ApplyUnallocatedCollection(i, b, n)
  PROVE  TxsBalance' /\ CreditsAreBacked'
<1>1. /\ b \in Payable /\ n \in Nat /\ n <= bill[b].total - bill[b].paid
      /\ txs[i].status = "CONFIRMED" /\ txs[i].ref \in Refs
      /\ ApplyPayment(b, "WALLET", txs[i].ref, n)
  BY ApplyEffect
<1>2. PICK t \in TxType : /\ txs' = [txs EXCEPT ![i] = t]
                          /\ t.amount = txs[i].amount /\ t.left = txs[i].left - n
                          /\ t.status = txs[i].status
  BY ApplyEffect
<1>3. PICK a \in AllocType : allocs' = Append(allocs, a) /\ a.tx = i /\ a.bill = b /\ a.amount = n
  BY ApplyEffect
<1>4. /\ Len(txs') = Len(txs) /\ txs'[i] = t
      /\ \A j \in 1..Len(txs) : j # i => txs'[j] = txs[j]
  BY <1>2, TxEdit
<1>5. StaysConfirmed /\ txs'[a.tx].status \in Confirmed
  BY <1>1, <1>2, <1>3, <1>4 DEF StaysConfirmed, Confirmed
<1>6. ASSUME NEW j \in 1..Len(txs) PROVE txs'[j].amount = txs'[j].left + Allocated(j)'
  <2>1. Allocated(j) \in Nat /\ Allocated(j)' = Allocated(j) + IF i = j THEN n ELSE 0
    BY <1>3, AllocatedStep
  <2>2. txs[j].amount \in Nat /\ txs[j].left \in Nat /\ txs[j].amount = txs[j].left + Allocated(j)
    BY Entries DEF TxType, TxsBalance
  <2>3. CASE j = i
    BY <2>1, <2>2, <2>3, <1>1, <1>2, <1>4
  <2>4. CASE j # i
    BY <2>1, <2>2, <2>4, <1>4
  <2> QED
    BY <2>3, <2>4
<1>7. TxsBalance'
  BY <1>4, <1>6 DEF TxsBalance
<1>8. PICK ref \in Refs : ref = txs[i].ref
  BY <1>1
<1>9. "WALLET" \in Methods
  BY DEF Methods
<1>10. ASSUME NEW c \in BillIds
       PROVE  /\ Credited(c)' <= Collected(c)'
              /\ Credited(c)' <= bill'[c].paid /\ Credited(c)' <= bill'[c].total
  <2>1. /\ Credited(c)' \in Nat /\ Credited(c)' <= bill'[c].paid /\ Credited(c)' <= bill'[c].total
        /\ Credited(c)' <= Credited(c) + IF c = b /\ ref[1] # "OLDER" THEN n ELSE 0
    BY <1>1, <1>8, <1>9, PaymentBacked
  <2>2. /\ Collected(c) \in Nat /\ Collected(c)' \in Int /\ Collected(c) <= Collected(c)'
        /\ a.bill = c => Collected(c) + a.amount <= Collected(c)'
    BY <1>3, <1>5, CollectedGrows
  <2>3. Credited(c) \in Nat /\ Credited(c) <= Collected(c)
    BY CreditedStep DEF CreditsAreBacked
  <2>4. Credited(c)' <= Collected(c)'
    <3>1. CASE c = b
      <4>1. Collected(c) + n <= Collected(c)'
        BY <3>1, <2>2, <1>3
      <4> QED
        BY <3>1, <4>1, <2>1, <2>2, <2>3, <1>1
    <3>2. CASE c # b
      BY <3>2, <2>1, <2>2, <2>3
    <3> QED
      BY <3>1, <3>2
  <2> QED
    BY <2>1, <2>4
<1> QED
  BY <1>7, <1>10 DEF CreditsAreBacked

\* A payment of the older commands is no credit of a collection.
LEMMA OlderSpends ==
  ASSUME TypeInv, TxsBalance, CreditsAreBacked, NEW b \in BillIds, NEW n \in Amounts,
         RecordOlderPayment(b, n)
  PROVE  TxsBalance' /\ CreditsAreBacked'
<1>1. PICK ref : ref = <<"OLDER", Len(payments) + 1>>
  OBVIOUS
<1>2. /\ b \in Payable /\ n \in Nat /\ ref \in Refs /\ ApplyPayment(b, "CARD", ref, n)
      /\ UNCHANGED <<txs, allocs>> /\ ref[1] = "OLDER"
  BY <1>1, OlderEffect
<1>3. TxsBalance'
  BY <1>2 DEF TxsBalance, Allocated, AllocatedBy
<1>4. "CARD" \in Methods
  BY DEF Methods
<1>5. ASSUME NEW c \in BillIds
      PROVE  /\ Credited(c)' <= Collected(c)'
             /\ Credited(c)' <= bill'[c].paid /\ Credited(c)' <= bill'[c].total
  <2>1. /\ Credited(c)' \in Nat /\ Credited(c)' <= bill'[c].paid /\ Credited(c)' <= bill'[c].total
        /\ Credited(c)' <= Credited(c) + IF c = b /\ ref[1] # "OLDER" THEN n ELSE 0
    BY <1>2, <1>4, PaymentBacked
  <2>2. Collected(c)' = Collected(c)
    BY <1>2 DEF Collected, Counts
  <2>3. StaysConfirmed
    BY <1>2 DEF StaysConfirmed
  <2>4. Credited(c) \in Nat /\ Credited(c) <= Collected(c) /\ Collected(c) \in Nat
    BY <2>3, CreditedStep, CollectedGrows DEF CreditsAreBacked
  <2> QED
    BY <2>1, <2>2, <2>4, <1>2
<1> QED
  BY <1>3, <1>5 DEF CreditsAreBacked

LEMMA SpentNext ==
  TypeInv /\ TxsBalance /\ CreditsAreBacked /\ [Next]_vars => TxsBalance' /\ CreditsAreBacked'
<1> SUFFICES ASSUME TypeInv, TxsBalance, CreditsAreBacked, [Next]_vars
             PROVE  TxsBalance' /\ CreditsAreBacked'
  OBVIOUS
<1>1. CASE UNCHANGED <<bill, payments, txs, allocs>>
  BY <1>1, StillSpentOnce
<1>2. ASSUME NEW o \in Orders, Opens(o), bill' # bill PROVE Adds(1)
  BY <1>2, OpenAdds DEF Opens
<1>3. 1 \in 1..2 /\ 2 \in 1..2
  OBVIOUS
<1>4. ASSUME OnlyOrders \/ \E o \in Orders : Opens(o) PROVE TxsBalance' /\ CreditsAreBacked'
  BY <1>1, <1>2, <1>3, <1>4, AddsBacked DEF OnlyOrders, Opens, money
<1>5. ASSUME \/ \E sources \in SUBSET BillIds : MergeBills(sources)
             \/ \E b \in BillIds, n \in Amounts : SplitBill(b, n)
      PROVE  TxsBalance' /\ CreditsAreBacked'
  BY <1>3, <1>5, MergeAdds, SplitAdds, AddsBacked
<1>6. ASSUME NEW b \in BillIds, MarkBillPending(b) PROVE TxsBalance' /\ CreditsAreBacked'
  <2>1. UNCHANGED <<payments, txs, allocs>>
    BY <1>6 DEF MarkBillPending, money
  <2>2. \A c \in BillIds : bill'[c].total = bill[c].total /\ bill'[c].paid = bill[c].paid
    BY <1>6, PendingEffect
  <2> QED
    BY <2>1, <2>2, StillSpentOnce
<1>7. ASSUME \/ \E b \in BillIds, n \in Amounts : RequestRefund(b, n)
             \/ \E i \in 1..Len(refunds) : ApproveRefund(i) \/ RejectRefund(i)
      PROVE  TxsBalance' /\ CreditsAreBacked'
  BY <1>1, <1>7, RefundEffect
<1>8. ASSUME NEW b \in BillIds, NEW method \in Methods, NEW ref \in Refs, NEW n \in Amounts,
             NEW st \in {"CONFIRMED", "MANUALLY_CONFIRMED"}, Collects(b, method, ref, n, st)
      PROVE  TxsBalance' /\ CreditsAreBacked'
  BY <1>8, CollectsSpends DEF Confirmed
<1>9. CASE Next
  BY <1>4, <1>5, <1>6, <1>7, <1>8, <1>9, Shapes, SubmitSpends, LeavesSpends, VerifySpends,
     ApplySpends, OlderSpends
<1> QED
  BY <1>1, <1>9 DEF vars

\* However collections are recorded, verified, applied in parts, and bills split or merged
\* meanwhile, each collection is what is left of it and what was allocated of it, and a bill
\* is credited with no more than confirmed collections gave it and than it asks for.  The
\* invariant needs that a bill is written down as paid with all it is credited with, since
\* what is due is all that validateAllocations compares an amount with.
THEOREM MoneyIsSpentOnce == Spec => []NothingIsSpentTwice
<1>1. Init => TxsBalance /\ CreditsAreBacked
  <2> SUFFICES ASSUME Init PROVE TxsBalance /\ CreditsAreBacked
    OBVIOUS
  <2>1. payments = <<>> /\ txs = <<>> /\ allocs = <<>>
    BY DEF Init
  <2>2. \A b \in BillIds : Credited(b) = Total([i \in 1..0 |-> 0], 0)
    BY <2>1 DEF Credited
  <2>3. \A b \in BillIds : Collected(b) = Total([i \in 1..0 |-> 0], 0)
    BY <2>1 DEF Collected
  <2>4. Total([i \in 1..0 |-> 0], 0) = 0
    <3>1. 0 \in Nat /\ \A j \in 1..0 : [i \in 1..0 |-> 0][j] \in Int
      OBVIOUS
    <3> QED
      BY ONLY <3>1, TotalStep
  <2>5. \A b \in BillIds : bill[b].paid \in Nat /\ bill[b].total \in Nat
    BY TypeInit DEF TypeInv, BillsOK, BillType
  <2> QED
    BY <2>1, <2>2, <2>3, <2>4, <2>5 DEF TxsBalance, CreditsAreBacked
<1>2. TypeInv /\ TxsBalance /\ CreditsAreBacked => NothingIsSpentTwice
  <2> SUFFICES ASSUME TypeInv, TxsBalance, CreditsAreBacked PROVE NothingIsSpentTwice
    OBVIOUS
  <2>1. \A i \in 1..Len(txs) : txs[i].left >= 0
    BY Entries DEF TxType
  <2> QED
    BY <2>1 DEF TxsBalance, CreditsAreBacked, NothingIsSpentTwice
<1> QED
  BY <1>1, <1>2, SpentNext, TypeAlways, PTL DEF Spec

-----------------------------------------------------------------------------
(* Refunds.                                                                   *)

\* The refunds of a bill that were not rejected.
Owed(b) ==
  Total([i \in 1..Len(refunds) |->
           IF refunds[i].bill = b /\ refunds[i].status # "REJECTED"
           THEN refunds[i].amount ELSE 0], Len(refunds))

\* What was paid of a bill does not fall with one payment more.
LEMMA PaidByGrows ==
  ASSUME TypeInv, NEW p \in PaymentType, payments' = Append(payments, p), NEW c, NEW method
  PROVE  PaidBy(c, method, payments) <= PaidBy(c, method, payments')
<1>1. PICK n \in Nat : n = Len(payments)
  BY Entries
<1>2. PICK f : f = [i \in 1..Len(payments) |->
           IF payments[i].bill = c /\ payments[i].method = method THEN payments[i].amount ELSE 0]
  OBVIOUS
<1>3. PaidBy(c, method, payments) = Total(f, n)
  BY <1>1, <1>2 DEF PaidBy
<1>4. /\ Len(payments') = n + 1 /\ payments'[n + 1] = p
      /\ \A i \in 1..n : payments'[i] = payments[i]
  BY <1>1, Elements DEF TypeInv, MoneyTypeOK
<1>5. PICK g : g = [i \in 1..Len(payments') |->
           IF payments'[i].bill = c /\ payments'[i].method = method THEN payments'[i].amount ELSE 0]
  OBVIOUS
<1>6. PaidBy(c, method, payments') = Total(g, n + 1)
  BY <1>4, <1>5 DEF PaidBy
<1>7. \A i \in 1..n : f[i] \in Int /\ g[i] = f[i]
  <2>1. \A i \in 1..n : payments[i].amount \in Nat
    BY <1>1, Entries DEF PaymentType
  <2> QED
    BY <2>1, <1>1, <1>2, <1>4, <1>5
<1>8. g[n + 1] \in Nat /\ g[n + 1] \in Int
  <2>1. p.amount \in Nat
    BY DEF PaymentType
  <2> QED
    BY <2>1, <1>4, <1>5
<1>9. Total(f, n) \in Int /\ Total(g, n + 1) = Total(f, n) + g[n + 1]
  BY ONLY <1>7, <1>8, n \in Nat, TotalAppend
<1> QED
  BY <1>3, <1>6, <1>8, <1>9

\* What is owed is what refundableReceiptMinor takes off when it looks at no request of its own.
LEMMA OwedIsReserved ==
  ASSUME TypeInv, NEW b
  PROVE  Owed(b) \in Nat /\ Reserved(b, 0) = Owed(b)
<1>1. PICK n \in Nat : n = Len(refunds)
  BY Entries
<1>2. PICK f : f = [i \in 1..Len(refunds) |->
           IF refunds[i].bill = b /\ refunds[i].status # "REJECTED" THEN refunds[i].amount ELSE 0]
  OBVIOUS
<1>3. PICK g : g = [i \in 1..Len(refunds) |->
           IF refunds[i].bill = b /\ i # 0 /\ refunds[i].status # "REJECTED" THEN refunds[i].amount ELSE 0]
  OBVIOUS
<1>4. Owed(b) = Total(f, n) /\ Reserved(b, 0) = Total(g, n)
  BY <1>1, <1>2, <1>3 DEF Owed, Reserved
<1>5. \A i \in 1..n : f[i] \in Nat
  <2>1. \A i \in 1..n : refunds[i].amount \in Nat
    BY <1>1, Entries DEF RefundType
  <2> QED
    BY <2>1, <1>1, <1>2
<1>6. \A i \in 1..n : f[i] \in Int /\ g[i] = f[i]
  BY <1>1, <1>2, <1>3, <1>5
<1>7. Total(g, n) = Total(f, n)
  BY ONLY <1>6, n \in Nat, TotalSame
<1>8. Total(f, n) \in Nat
  BY ONLY <1>5, n \in Nat, TotalNat
<1> QED
  BY <1>4, <1>7, <1>8

\* The least of some naturals is at most each of them.
LEMMA LeastIs ==
  ASSUME NEW S, S \subseteq Nat, S # {}
  PROVE  Least(S) \in S /\ \A x \in S : Least(S) <= x
<1>1. \E n \in S : \A m \in S : n <= m
  BY LeastNatural
<1> QED
  BY <1>1 DEF Least

\* A request is covered by the cash that is left.
LEMMA RequestCovered ==
  ASSUME TypeInv, RefundsAreCovered, NEW b \in BillIds, NEW n \in Amounts, RequestRefund(b, n)
  PROVE  RefundsAreCovered'
<1>1. PICK m \in Nat : m = Len(refunds)
  BY Entries
<1>2. PICK p : p = [bill |-> b, amount |-> n, status |-> "REQUESTED"]
  OBVIOUS
<1>3. n \in Nat
  BY Bounds
<1>4. p \in RefundType /\ p.bill = b /\ p.amount = n /\ p.status = "REQUESTED"
  BY <1>2, <1>3 DEF RefundType
<1>5. refunds' = Append(refunds, p) /\ payments' = payments /\ n \in 1..Refundable(b, 0)
  BY <1>2 DEF RequestRefund
<1>6. /\ Len(refunds') = m + 1 /\ refunds'[m + 1] = p
      /\ \A i \in 1..m : refunds'[i] = refunds[i]
  BY <1>1, <1>4, <1>5, Elements DEF TypeInv, MoneyTypeOK
<1>7. ASSUME NEW c \in BillIds PROVE Owed(c)' = Owed(c) + IF c = b THEN n ELSE 0
  <2>1. PICK f : f = [i \in 1..Len(refunds) |->
           IF refunds[i].bill = c /\ refunds[i].status # "REJECTED" THEN refunds[i].amount ELSE 0]
    OBVIOUS
  <2>2. PICK g : g = [i \in 1..Len(refunds') |->
           IF refunds'[i].bill = c /\ refunds'[i].status # "REJECTED" THEN refunds'[i].amount ELSE 0]
    OBVIOUS
  <2>3. Owed(c) = Total(f, m) /\ Owed(c)' = Total(g, m + 1)
    BY <1>1, <1>6, <2>1, <2>2 DEF Owed
  <2>4. \A i \in 1..m : f[i] \in Int /\ g[i] = f[i]
    <3>1. \A i \in 1..m : refunds[i].amount \in Nat
      BY <1>1, Entries DEF RefundType
    <3> QED
      BY <3>1, <1>1, <1>6, <2>1, <2>2
  <2>5. g[m + 1] = IF c = b THEN n ELSE 0
    BY <1>1, <1>4, <1>6, <2>2
  <2>6. g[m + 1] \in Int
    BY <2>5, <1>3
  <2>7. Total(g, m + 1) = Total(f, m) + g[m + 1]
    BY ONLY <2>4, <2>6, m \in Nat, TotalAppend
  <2> QED
    BY <2>3, <2>5, <2>7
<1>8. PICK cash \in Nat : cash = PaidBy(b, "CASH", payments)
  BY PaidByNat DEF TypeInv, MoneyTypeOK
<1>9. PICK S : S = {cash, receipt[b].cash, receipt[b].paid}
  OBVIOUS
<1>10. S \subseteq Nat /\ cash \in S
  BY <1>9 DEF TypeInv, MoneyTypeOK
<1>11. PICK least \in Nat : least = Least(S) /\ least <= cash
  BY <1>10, LeastIs
<1>12. Owed(b) \in Nat /\ Reserved(b, 0) = Owed(b)
  BY OwedIsReserved
<1>13. Refundable(b, 0) = least - Owed(b)
  BY <1>8, <1>9, <1>11, <1>12 DEF Refundable
<1>14. Owed(b) + n <= cash
  BY <1>3, <1>5, <1>11, <1>12, <1>13
<1>15. ASSUME NEW c \in BillIds PROVE Owed(c)' <= PaidBy(c, "CASH", payments')
  <2>1. CASE c = b
    BY <2>1, <1>5, <1>7, <1>8, <1>14
  <2>2. CASE c # b
    <3>1. Owed(c) \in Nat /\ Owed(c) <= PaidBy(c, "CASH", payments)
      BY OwedIsReserved DEF RefundsAreCovered, Owed
    <3>2. Owed(c)' = Owed(c)
      BY <2>2, <1>7, <3>1
    <3> QED
      BY <3>1, <3>2, <1>5
  <2> QED
    BY <2>1, <2>2
<1> QED
  BY <1>15 DEF RefundsAreCovered, Owed

\* A decision about a request takes nothing more.
LEMMA DecisionCovered ==
  ASSUME TypeInv, RefundsAreCovered, NEW i \in 1..Len(refunds), ApproveRefund(i) \/ RejectRefund(i)
  PROVE  RefundsAreCovered'
<1>1. PICK m \in Nat : m = Len(refunds)
  BY Entries
<1>2. PICK st \in {"APPROVED", "REJECTED"} : refunds' = [refunds EXCEPT ![i] = [refunds[i] EXCEPT !.status = st]]
  BY DEF ApproveRefund, RejectRefund
<1>3. refunds[i].status = "REQUESTED" /\ payments' = payments
  BY DEF ApproveRefund, RejectRefund
<1>4. PICK old \in RefundType : old = refunds[i]
  BY Entries
<1>5. PICK new : new = [old EXCEPT !.status = st]
  OBVIOUS
<1>6. new \in RefundType /\ new.bill = old.bill /\ new.amount = old.amount
  BY ONLY <1>4, <1>5, st \in {"APPROVED", "REJECTED"} DEF RefundType
<1>7. refunds \in Seq(RefundType)
  BY DEF TypeInv, MoneyTypeOK
<1>8. /\ Len(refunds') = m /\ refunds'[i] = new
      /\ \A j \in 1..m : j # i => refunds'[j] = refunds[j]
  BY ONLY <1>1, <1>2, <1>4, <1>5, <1>7, i \in 1..Len(refunds)
<1>9. ASSUME NEW c \in BillIds PROVE Owed(c)' <= PaidBy(c, "CASH", payments')
  <2>1. PICK f : f = [j \in 1..Len(refunds) |->
           IF refunds[j].bill = c /\ refunds[j].status # "REJECTED" THEN refunds[j].amount ELSE 0]
    OBVIOUS
  <2>2. PICK g : g = [j \in 1..Len(refunds') |->
           IF refunds'[j].bill = c /\ refunds'[j].status # "REJECTED" THEN refunds'[j].amount ELSE 0]
    OBVIOUS
  <2>3. Owed(c) = Total(f, m) /\ Owed(c)' = Total(g, m)
    BY <1>1, <1>8, <2>1, <2>2 DEF Owed
  <2>4. ASSUME NEW j \in 1..m PROVE g[j] \in Int /\ f[j] \in Int /\ g[j] <= f[j]
    <3>1. /\ f[j] = IF refunds[j].bill = c /\ refunds[j].status # "REJECTED" THEN refunds[j].amount ELSE 0
          /\ g[j] = IF refunds'[j].bill = c /\ refunds'[j].status # "REJECTED" THEN refunds'[j].amount ELSE 0
      BY <1>1, <1>8, <2>1, <2>2
    <3>2. refunds[j].amount \in Nat
      BY <1>1, Entries DEF RefundType
    <3>3. refunds'[j].bill = refunds[j].bill /\ refunds'[j].amount = refunds[j].amount
      BY <1>4, <1>6, <1>8
    <3>4. refunds[j].status = "REJECTED" => refunds'[j].status = "REJECTED"
      BY <1>3, <1>8
    <3> QED
      BY ONLY <3>1, <3>2, <3>3, <3>4
  <2>5. Total(g, m) \in Int /\ Total(f, m) \in Int /\ Total(g, m) <= Total(f, m)
    BY ONLY <2>4, m \in Nat, TotalMonotone
  <2>6. Owed(c) <= PaidBy(c, "CASH", payments) /\ PaidBy(c, "CASH", payments) \in Nat
    BY PaidByNat DEF RefundsAreCovered, Owed, TypeInv, MoneyTypeOK
  <2> QED
    BY <2>3, <2>5, <2>6, <1>3
<1> QED
  BY <1>9 DEF RefundsAreCovered, Owed

\* No payment takes cash back.
LEMMA PaymentCovers ==
  ASSUME TypeInv, RefundsAreCovered, NEW b \in Payable, NEW method \in Methods, NEW ref \in Refs,
         NEW n \in Nat, ApplyPayment(b, method, ref, n), refunds' = refunds
  PROVE  RefundsAreCovered'
<1>1. ASSUME NEW c \in BillIds PROVE Owed(c)' = Owed(c) /\ Owed(c) \in Nat /\ Owed(c) <= PaidBy(c, "CASH", payments)
  BY OwedIsReserved DEF Owed, RefundsAreCovered
<1>2. CASE payments' = payments
  BY <1>1, <1>2 DEF RefundsAreCovered, Owed
<1>3. CASE Credits(b, method, ref, n)
  <2>1. PICK p : p = [bill |-> b, ref |-> ref, method |-> method, amount |-> n]
    OBVIOUS
  <2>2. p \in PaymentType
    BY <2>1 DEF Payable, PaymentType
  <2>3. payments' = Append(payments, p) /\ payments' \in Seq(PaymentType) /\ payments \in Seq(PaymentType)
    BY <1>3, <2>1 DEF Credits, TypeInv, MoneyTypeOK
  <2>4. ASSUME NEW c \in BillIds PROVE Owed(c)' <= PaidBy(c, "CASH", payments')
    <3>1. PaidBy(c, "CASH", payments) <= PaidBy(c, "CASH", payments')
      BY <2>2, <2>3, PaidByGrows
    <3>2. PaidBy(c, "CASH", payments) \in Nat /\ PaidBy(c, "CASH", payments') \in Nat
      BY <2>3, PaidByNat
    <3> QED
      BY <3>1, <3>2, <1>1
  <2> QED
    BY <2>4 DEF RefundsAreCovered, Owed
<1> QED
  BY <1>2, <1>3, PayEffect

LEMMA CoveredNext == TypeInv /\ RefundsAreCovered /\ [Next]_vars => RefundsAreCovered'
<1> SUFFICES ASSUME TypeInv, RefundsAreCovered, [Next]_vars PROVE RefundsAreCovered' OBVIOUS
<1>1. CASE UNCHANGED <<payments, refunds>>
  BY <1>1 DEF RefundsAreCovered
<1>2. ASSUME \/ OnlyOrders \/ \E o \in Orders : Opens(o)
             \/ \E sources \in SUBSET BillIds : MergeBills(sources)
             \/ \E b \in BillIds, n \in Amounts : SplitBill(b, n)
             \/ \E b \in BillIds : MarkBillPending(b)
             \/ \E r \in Receipts, n \in Amounts : LeavesUnallocated(r, n)
             \/ \E b \in BillIds, n \in Amounts, r \in Receipts : SubmitManualReference(b, n, r)
      PROVE  RefundsAreCovered'
  <2>1. UNCHANGED <<payments, refunds>>
    BY <1>2 DEF OnlyOrders, Opens, MergeBills, SplitBill, MarkBillPending, LeavesUnallocated,
      SubmitManualReference, money
  <2> QED
    BY <2>1, <1>1
<1>3. ASSUME NEW b \in BillIds, NEW method \in Methods, NEW ref \in Refs, NEW n \in Amounts,
             NEW st \in {"CONFIRMED", "MANUALLY_CONFIRMED"}, Collects(b, method, ref, n, st)
      PROVE  RefundsAreCovered'
  BY <1>3, CollectsEffect, PaymentCovers DEF Collects
<1>4. ASSUME NEW i \in 1..Len(txs), NEW n \in Amounts, VerifyPendingCollection(i, n)
      PROVE  RefundsAreCovered'
  <2>1. refunds' = refunds
    BY <1>4, VerifyEffect
  <2>2. ASSUME NEW k \in 1..Len(allocs), allocs[k].bill \in Payable,
               ApplyPayment(allocs[k].bill, "WALLET", txs[i].ref, allocs[k].amount)
        PROVE  RefundsAreCovered'
    <3>1. allocs[k].amount \in Nat /\ txs[i].ref \in Refs /\ "WALLET" \in Methods
      BY Entries DEF AllocType, TxType, Methods
    <3> QED
      BY <2>1, <2>2, <3>1, PaymentCovers
  <2> QED
    BY <1>1, <1>4, <2>1, <2>2, VerifyEffect
<1>5. ASSUME NEW i \in 1..Len(txs), NEW b \in BillIds, NEW n \in Amounts,
             ApplyUnallocatedCollection(i, b, n)
      PROVE  RefundsAreCovered'
  <2>1. "WALLET" \in Methods /\ refunds' = refunds
    BY <1>5 DEF Methods, ApplyUnallocatedCollection
  <2> QED
    BY <1>5, <2>1, ApplyEffect, PaymentCovers
<1>6. ASSUME NEW b \in BillIds, NEW n \in Amounts, RecordOlderPayment(b, n) PROVE RefundsAreCovered'
  <2>1. "CARD" \in Methods
    BY DEF Methods
  <2> QED
    BY <1>6, <2>1, OlderEffect, PaymentCovers
<1>7. CASE Next
  BY <1>2, <1>3, <1>4, <1>5, <1>6, <1>7, Shapes, RequestCovered, DecisionCovered
<1> QED
  BY <1>1, <1>7 DEF vars

\* Requests, approvals and rejections in any order, with payments between them: what
\* refundableReceiptMinor takes off for the requests of others keeps the sum within the cash
\* taken for the bill, whatever the receipt says.
THEOREM RefundsStayCovered == Spec => []RefundsAreCovered
<1>1. Init => RefundsAreCovered
  <2> SUFFICES ASSUME Init, NEW b \in BillIds PROVE Owed(b) <= PaidBy(b, "CASH", payments)
    BY DEF RefundsAreCovered, Owed
  <2>1. payments = <<>> /\ refunds = <<>>
    BY DEF Init
  <2>2. Owed(b) = Total([i \in 1..0 |-> 0], 0)
    BY <2>1 DEF Owed
  <2>3. PaidBy(b, "CASH", payments) = Total([i \in 1..0 |-> 0], 0)
    BY <2>1 DEF PaidBy
  <2>4. Total([i \in 1..0 |-> 0], 0) = 0
    <3>1. 0 \in Nat /\ \A j \in 1..0 : [i \in 1..0 |-> 0][j] \in Int
      OBVIOUS
    <3> QED
      BY ONLY <3>1, TotalStep
  <2> QED
    BY <2>2, <2>3, <2>4
<1> QED
  BY <1>1, CoveredNext, TypeAlways, PTL DEF Spec

-----------------------------------------------------------------------------
(* Revenue.                                                                   *)

\* There is one least element.
LEMMA LeastUnique ==
  ASSUME NEW S, S \subseteq Nat, NEW x \in S, \A y \in S : x <= y
  PROVE  Least(S) = x
<1>1. Least(S) \in S /\ Least(S) <= x
  BY LeastIs
<1>2. PICK y \in Nat : y = Least(S)
  BY <1>1
<1>3. x \in Nat /\ x <= y /\ y <= x
  BY <1>1, <1>2
<1>4. x = y
  BY ONLY <1>3, y \in Nat
<1> QED
  BY <1>2, <1>4

\* The first bills are bills.
LEMMA FirstExist ==
  ASSUME TypeInv
  PROVE  FirstBills \subseteq Exists
<1> SUFFICES ASSUME NEW o \in Orders, BillsOf(o) # {} PROVE Least(BillsOf(o)) \in Exists
  BY DEF FirstBills
<1>1. BillsOf(o) \subseteq Nat /\ BillsOf(o) \subseteq Exists
  BY Bounds DEF BillsOf, Exists, BillIds
<1> QED
  BY <1>1, LeastIs

\* Bills made of other bills are the first of no order.
LEMMA FirstSame ==
  ASSUME TypeInv, Exists \subseteq Exists',
         \A b \in Exists : bill'[b].orders = bill[b].orders,
         \A b \in Exists' \ Exists : \A o \in bill'[b].orders : BillsOf(o) # {},
         \A b \in Exists' \ Exists : \A c \in Exists : c < b
  PROVE  FirstBills' = FirstBills
<1>1. ASSUME NEW o \in Orders
      PROVE  /\ BillsOf(o)' # {} <=> BillsOf(o) # {}
             /\ BillsOf(o) # {} => Least(BillsOf(o)') = Least(BillsOf(o))
  <2>1. PICK S, T : S = BillsOf(o) /\ T = BillsOf(o)'
    OBVIOUS
  <2>2. S \subseteq Exists /\ S \subseteq T /\ T \subseteq Exists'
    BY <2>1 DEF BillsOf
  <2>3. ASSUME NEW b \in T, b \notin S PROVE b \in Exists' \ Exists /\ S # {}
    BY <2>1, <2>3 DEF BillsOf
  <2>4. S \subseteq Nat /\ T \subseteq Nat
    BY <2>2, Bounds DEF Exists, BillIds
  <2>5. ASSUME S # {} PROVE Least(T) = Least(S)
    <3>1. PICK x : x = Least(S)
      OBVIOUS
    <3>2. x \in S /\ \A y \in S : x <= y
      BY <2>4, <2>5, <3>1, LeastIs
    <3>3. ASSUME NEW y \in T PROVE x <= y
      <4>1. CASE y \in S
        BY <4>1, <3>2
      <4>2. CASE y \notin S
        BY <4>2, <2>2, <2>3, <2>4, <3>2
      <4> QED
        BY <4>1, <4>2
    <3>4. Least(T) = x
      BY ONLY <2>2, <2>4, <3>2, <3>3, LeastUnique
    <3> QED
      BY <3>1, <3>4
  <2> QED
    BY <2>1, <2>2, <2>3, <2>5
<1>2. FirstBills' = {Least(BillsOf(o)') : o \in {p \in Orders : BillsOf(p)' # {}}}
  BY DEF FirstBills
<1> QED
  BY <1>1, <1>2 DEF FirstBills

\* The totals of a set of bills, before and after a step.
Summands(S) == [b \in BillIds |-> IF b \in S THEN bill[b].total ELSE 0]
LEMMA SumIs == ASSUME NEW S PROVE SumOfTotals(S) = Total(Summands(S), MaxBills)
BY DEF SumOfTotals, Summands

LEMMA SummandsInt ==
  ASSUME TypeInv, NEW S
  PROVE  /\ \A b \in 1..MaxBills : Summands(S)[b] = IF b \in S THEN bill[b].total ELSE 0
         /\ \A b \in 1..MaxBills : Summands(S)[b] \in Int /\ bill[b].total \in Nat
<1>1. \A b \in BillIds : bill[b].total \in Nat
  BY DEF TypeInv, BillsOK, BillType
<1> QED
  BY <1>1 DEF Summands, BillIds

\* A step that neither adds bills nor takes one out of force.
LEMMA RevenueKept ==
  ASSUME TypeInv, Exists' = Exists, InForce' = InForce,
         \A b \in Exists : bill'[b].orders = bill[b].orders /\ bill'[b].total = bill[b].total,
         SumOfTotals(InForce) = SumOfTotals(FirstBills)
  PROVE  (SumOfTotals(InForce) = SumOfTotals(FirstBills))'
<1>1. FirstBills' = FirstBills
  BY FirstSame
<1>2. InForce \subseteq Exists /\ FirstBills \subseteq Exists
  BY FirstExist DEF InForce
<1>3. [b \in BillIds |-> IF b \in InForce' THEN bill'[b].total ELSE 0]
        = [b \in BillIds |-> IF b \in InForce THEN bill[b].total ELSE 0]
  BY <1>2
<1>4. [b \in BillIds |-> IF b \in FirstBills' THEN bill'[b].total ELSE 0]
        = [b \in BillIds |-> IF b \in FirstBills THEN bill[b].total ELSE 0]
  BY <1>1, <1>2
<1>5. SumOfTotals(InForce)' = SumOfTotals(InForce) /\ SumOfTotals(FirstBills)' = SumOfTotals(FirstBills)
  BY <1>3, <1>4 DEF SumOfTotals
<1> QED
  BY <1>5

\* The first bill of an order is asked for and in force.
LEMMA RevenueOpens ==
  ASSUME TypeInv, NEW o \in Orders, OpenBill(o), UNCHANGED money, bill' # bill,
         SumOfTotals(InForce) = SumOfTotals(FirstBills)
  PROVE  (SumOfTotals(InForce) = SumOfTotals(FirstBills))'
<1>1. Adds(1) /\ BillsOf(o) = {}
  BY OpenAdds
<1>2. PICK total \in Totals : bill' = [bill EXCEPT ![NextBill] = NewBill(total, {o}, o)]
  BY OpenAdds
<1>3. PICK N : N = NextBill
  OBVIOUS
<1>4. 1 \in 1..2 /\ FreshBills(1) /\ BillsOK
  BY <1>1 DEF Adds, TypeInv
<1>5. N \in BillIds /\ N \in Nat /\ Exists = 1..(N - 1) /\ N \notin Exists
  BY <1>3, <1>4, NextIsFresh
<1>6. TypeInv' /\ Exists' = 1..N
  <2>1. TypeInv' /\ Exists' = 1..(NextBill + 1 - 1)
    BY <1>1, <1>4, AddsKeeps
  <2>2. NextBill + 1 - 1 = N
    BY <1>3, <1>5
  <2> QED
    BY <2>1, <2>2
<1>7. Exists' = Exists \cup {N}
  BY <1>5, <1>6, Bounds DEF BillIds
<1>8. PICK new : new = NewBill(total, {o}, o)
  OBVIOUS
<1>9. new.status = "OPEN" /\ new.total = total /\ new.orders = {o} /\ total \in Nat
  BY <1>8, NewBillType, Bounds
<1>10. bill'[N] = new /\ \A b \in BillIds \ {N} : bill'[b] = bill[b]
  <2>1. bill \in [BillIds -> BillType] /\ bill' = [bill EXCEPT ![N] = new]
    BY <1>2, <1>3, <1>8 DEF TypeInv, BillsOK
  <2> QED
    BY ONLY <2>1, <1>5
<1>11. InForce' = InForce \cup {N}
  BY <1>5, <1>7, <1>9, <1>10 DEF InForce, Exists
<1>12. FirstBills' = FirstBills \cup {N}
  <2>1. ASSUME NEW p \in Orders, p # o PROVE BillsOf(p)' = BillsOf(p)
    BY <2>1, <1>5, <1>7, <1>9, <1>10 DEF BillsOf, Exists
  <2>2. BillsOf(o)' = {N}
    BY <1>1, <1>5, <1>7, <1>9, <1>10 DEF BillsOf, Exists
  <2>3. Least({N}) = N
    BY <1>5, LeastUnique
  <2>4. FirstBills' = {Least(BillsOf(p)') : p \in {q \in Orders : BillsOf(q)' # {}}}
    BY DEF FirstBills
  <2>5. \A p \in Orders : BillsOf(p) # {} => p # o
    BY <1>1
  <2>6. \A p \in Orders : p # o => Least(BillsOf(p)') = Least(BillsOf(p))
    BY <2>1
  <2>7. Least(BillsOf(o)') = N /\ BillsOf(o)' # {}
    BY <2>2, <2>3
  <2>8. FirstBills \cup {N} \subseteq FirstBills'
    BY <2>1, <2>4, <2>5, <2>6, <2>7 DEF FirstBills
  <2>9. ASSUME NEW x \in FirstBills' PROVE x \in FirstBills \cup {N}
    <3>1. PICK p \in Orders : BillsOf(p)' # {} /\ x = Least(BillsOf(p)')
      BY <2>4, <2>9
    <3>2. CASE p = o
      BY <3>1, <3>2, <2>7
    <3>3. CASE p # o
      <4>1. BillsOf(p) # {} /\ x = Least(BillsOf(p))
        BY <3>1, <3>3, <2>1, <2>6
      <4> QED
        BY <4>1 DEF FirstBills
    <3> QED
      BY <3>2, <3>3
  <2> QED
    BY <2>8, <2>9
<1>13. N \notin InForce /\ N \notin FirstBills
  BY <1>5, FirstExist DEF InForce
<1>14. ASSUME NEW S, N \notin S
       PROVE  /\ Total(Summands(S), MaxBills) \in Int
              /\ Total([b \in BillIds |-> IF b \in S \cup {N} THEN bill'[b].total ELSE 0], MaxBills)
                   = Total(Summands(S), MaxBills) + total
  <2>1. PICK f : f = Summands(S)
    OBVIOUS
  <2>2. PICK g : g = [b \in BillIds |-> IF b \in S \cup {N} THEN bill'[b].total ELSE 0]
    OBVIOUS
  <2>3. N \in 1..MaxBills /\ MaxBills \in Nat
    BY <1>5, Bounds DEF BillIds
  <2>4. \A b \in 1..MaxBills : f[b] \in Int
    BY <2>1, SummandsInt
  <2>5. f[N] = 0
    BY <2>1, <2>3, <1>14, SummandsInt
  <2>6. g[N] = total /\ g[N] \in Int
    BY <2>2, <1>5, <1>9, <1>10
  <2>7. \A b \in (1..MaxBills) \ {N} : g[b] = f[b]
    BY <2>1, <2>2, <1>10, SummandsInt DEF BillIds
  <2>8. Total(f, MaxBills) \in Int /\ Total(g, MaxBills) = Total(f, MaxBills) + (g[N] - f[N])
    BY ONLY <2>3, <2>4, <2>6, <2>7, TotalChange
  <2> QED
    BY <2>1, <2>2, <2>5, <2>6, <2>8, <1>9
<1>15. SumOfTotals(InForce)' = Total(Summands(InForce), MaxBills) + total
  <2>1. SumOfTotals(InForce)' = Total([b \in BillIds |-> IF b \in InForce \cup {N} THEN bill'[b].total ELSE 0], MaxBills)
    BY <1>11 DEF SumOfTotals
  <2> QED
    BY <2>1, <1>13, <1>14
<1>16. SumOfTotals(FirstBills)' = Total(Summands(FirstBills), MaxBills) + total
  <2>1. SumOfTotals(FirstBills)' = Total([b \in BillIds |-> IF b \in FirstBills \cup {N} THEN bill'[b].total ELSE 0], MaxBills)
    BY <1>12 DEF SumOfTotals
  <2> QED
    BY <2>1, <1>13, <1>14
<1> QED
  BY <1>15, <1>16, SumIs

\* A merged bill asks for what its parts asked for.
LEMMA RevenueMerges ==
  ASSUME TypeInv, NEW sources \in SUBSET BillIds, MergeBills(sources),
         SumOfTotals(InForce) = SumOfTotals(FirstBills)
  PROVE  (SumOfTotals(InForce) = SumOfTotals(FirstBills))'
<1>1. /\ Adds(1) /\ sources \subseteq Exists
      /\ \A b \in sources : bill[b].status = "OPEN"
      /\ bill'[NextBill].total = SumOfTotals(sources)
      /\ bill'[NextBill].orders = UNION {bill[s].orders : s \in sources}
      /\ \A b \in Exists : bill'[b].status = IF b \in sources THEN "MERGED" ELSE bill[b].status
  BY MergeAdds
<1>2. PICK N : N = NextBill
  OBVIOUS
<1>3. 1 \in 1..2 /\ FreshBills(1) /\ BillsOK
  BY <1>1 DEF Adds, TypeInv
<1>4. N \in BillIds /\ N \in Nat /\ Exists = 1..(N - 1) /\ N \notin Exists
  BY <1>2, <1>3, NextIsFresh
<1>5. Exists' = 1..N
  <2>1. Exists' = 1..(NextBill + 1 - 1)
    BY <1>1, <1>3, AddsKeeps
  <2>2. NextBill + 1 - 1 = N
    BY <1>2, <1>4
  <2> QED
    BY <2>1, <2>2
<1>6. Exists' = Exists \cup {N} /\ \A c \in Exists : c < N
  BY <1>4, <1>5, Bounds DEF BillIds
<1>7. bill'[N].status = "OPEN" /\ bill'[N].total = SumOfTotals(sources)
  <2>1. N \in NextBill..(NextBill + 1 - 1)
    BY <1>2, <1>4
  <2> QED
    BY <2>1, <1>1, <1>2 DEF Adds
<1>8. \A b \in Exists : bill'[b].orders = bill[b].orders /\ bill'[b].total = bill[b].total
  BY <1>1 DEF Adds
<1>9. FirstBills' = FirstBills
  <2>1. ASSUME NEW o \in bill'[N].orders PROVE BillsOf(o) # {}
    <3>1. PICK s \in sources : o \in bill[s].orders
      BY <1>1, <1>2
    <3> QED
      BY <3>1, <1>1 DEF BillsOf
  <2> QED
    BY <2>1, <1>6, <1>8, FirstSame
<1>10. InForce' = (InForce \ sources) \cup {N} /\ sources \subseteq InForce /\ N \notin InForce
  <2>1. sources \subseteq InForce /\ N \notin InForce
    BY <1>1, <1>4 DEF InForce
  <2>2. InForce' = {b \in Exists' : bill'[b].status \notin {"SPLIT", "MERGED"}}
    BY DEF InForce
  <2>3. ASSUME NEW b \in Exists
        PROVE  bill'[b].status \notin {"SPLIT", "MERGED"} <=> b \in InForce \ sources
    BY <1>1 DEF InForce
  <2> QED
    BY <2>1, <2>2, <2>3, <1>6, <1>7 DEF InForce
<1>11. PICK f, part, h, g : /\ f = Summands(InForce) /\ part = Summands(sources)
                           /\ h = Summands(InForce \ sources)
                           /\ g = [b \in BillIds |-> IF b \in InForce' THEN bill'[b].total ELSE 0]
  OBVIOUS
<1>12. /\ \A b \in 1..MaxBills : f[b] = IF b \in InForce THEN bill[b].total ELSE 0
       /\ \A b \in 1..MaxBills : part[b] = IF b \in sources THEN bill[b].total ELSE 0
       /\ \A b \in 1..MaxBills : h[b] = IF b \in InForce \ sources THEN bill[b].total ELSE 0
       /\ \A b \in 1..MaxBills : bill[b].total \in Nat
  BY <1>11, SummandsInt
<1>13. N \in 1..MaxBills /\ MaxBills \in Nat
  BY <1>4, Bounds DEF BillIds
<1>14. \A b \in 1..MaxBills : h[b] \in Int /\ part[b] \in Int /\ f[b] = h[b] + part[b]
  BY <1>10, <1>12
<1>15. /\ Total(h, MaxBills) \in Int /\ Total(part, MaxBills) \in Int
       /\ Total(f, MaxBills) = Total(h, MaxBills) + Total(part, MaxBills)
  BY ONLY <1>13, <1>14, TotalPlus
<1>16. h[N] = 0 /\ g[N] = Total(part, MaxBills)
  <2>1. g[N] = SumOfTotals(sources)
    BY <1>4, <1>7, <1>10, <1>11
  <2>2. SumOfTotals(sources) = Total(part, MaxBills)
    BY <1>11, SumIs
  <2> QED
    BY <2>1, <2>2, <1>10, <1>12, <1>13
<1>17. \A b \in (1..MaxBills) \ {N} : g[b] = h[b]
  <2>1. ASSUME NEW b \in (1..MaxBills) \ {N} PROVE g[b] = h[b]
    <3>1. b \in BillIds /\ b \in 1..MaxBills /\ (b \in InForce' <=> b \in InForce \ sources)
      BY <2>1, <1>10 DEF BillIds
    <3>2. g[b] = IF b \in InForce \ sources THEN bill'[b].total ELSE 0
      BY <3>1, <1>11
    <3>3. b \in InForce => bill'[b].total = bill[b].total
      BY <1>8 DEF InForce
    <3> QED
      BY <3>1, <3>2, <3>3, <1>12
  <2> QED
    BY <2>1
<1>18. Total(g, MaxBills) = Total(h, MaxBills) + (g[N] - h[N])
  <2>1. (\A b \in 1..MaxBills : h[b] \in Int) /\ g[N] \in Int
    BY <1>14, <1>15, <1>16
  <2> QED
    BY ONLY <2>1, <1>13, <1>17, TotalChange
<1>19. Total(g, MaxBills) = Total(f, MaxBills)
  BY <1>15, <1>16, <1>18
<1>20. SumOfTotals(InForce)' = SumOfTotals(InForce)
  <2>1. SumOfTotals(InForce)' = Total(g, MaxBills)
    BY <1>11 DEF SumOfTotals
  <2> QED
    BY <2>1, <1>11, <1>19, SumIs
<1>21. SumOfTotals(FirstBills)' = SumOfTotals(FirstBills)
  <2>1. [b \in BillIds |-> IF b \in FirstBills' THEN bill'[b].total ELSE 0]
          = [b \in BillIds |-> IF b \in FirstBills THEN bill[b].total ELSE 0]
    BY <1>8, <1>9, FirstExist
  <2> QED
    BY <2>1 DEF SumOfTotals
<1> QED
  BY <1>20, <1>21

\* The parts of a bill ask for what it asked for.
LEMMA RevenueSplits ==
  ASSUME TypeInv, NEW b \in BillIds, NEW part \in Amounts, SplitBill(b, part),
         SumOfTotals(InForce) = SumOfTotals(FirstBills)
  PROVE  (SumOfTotals(InForce) = SumOfTotals(FirstBills))'
<1>1. /\ Adds(2) /\ b \in Exists /\ bill[b].status = "OPEN"
      /\ bill'[NextBill].total = part /\ bill'[NextBill].orders = bill[b].orders
      /\ bill'[NextBill + 1].total = bill[b].total - part
      /\ bill'[NextBill + 1].orders = bill[b].orders
      /\ \A c \in Exists : bill'[c].status = IF c = b THEN "SPLIT" ELSE bill[c].status
  BY SplitAdds
<1>2. PICK N : N = NextBill
  OBVIOUS
<1>3. 2 \in 1..2 /\ FreshBills(2) /\ BillsOK
  BY <1>1 DEF Adds, TypeInv
<1>4. /\ N \in BillIds /\ N \in Nat /\ N + 2 - 1 \in BillIds
      /\ Exists = 1..(N - 1) /\ N \notin Exists
  BY <1>2, <1>3, NextIsFresh
<1>5. N + 1 \in BillIds /\ N # N + 1 /\ N + 1 \notin Exists
  BY <1>4
<1>6. Exists' = 1..(N + 1)
  <2>1. Exists' = 1..(NextBill + 2 - 1)
    BY <1>1, <1>3, AddsKeeps
  <2>2. NextBill + 2 - 1 = N + 1
    BY <1>2, <1>4
  <2> QED
    BY <2>1, <2>2
<1>7. Exists' = Exists \cup {N, N + 1} /\ \A c \in Exists : c < N /\ c < N + 1
  BY <1>4, <1>6, Bounds DEF BillIds
<1>8. /\ bill'[N].status = "OPEN" /\ bill'[N + 1].status = "OPEN"
      /\ bill'[N].total = part /\ bill'[N + 1].total = bill[b].total - part
  <2>1. N \in NextBill..(NextBill + 2 - 1) /\ N + 1 \in NextBill..(NextBill + 2 - 1)
    BY <1>2, <1>4
  <2> QED
    BY <2>1, <1>1, <1>2 DEF Adds
<1>9. \A c \in Exists : bill'[c].orders = bill[c].orders /\ bill'[c].total = bill[c].total
  BY <1>1 DEF Adds
<1>10. FirstBills' = FirstBills
  <2>1. ASSUME NEW o \in bill[b].orders PROVE BillsOf(o) # {}
    BY <1>1 DEF BillsOf
  <2>2. bill'[N].orders = bill[b].orders /\ bill'[N + 1].orders = bill[b].orders
    BY <1>1, <1>2
  <2> QED
    BY <2>1, <2>2, <1>7, <1>9, FirstSame
<1>11. /\ InForce' = (InForce \ {b}) \cup {N, N + 1} /\ b \in InForce
       /\ N \notin InForce /\ N + 1 \notin InForce
  <2>1. b \in InForce /\ N \notin InForce /\ N + 1 \notin InForce
    BY <1>1, <1>4, <1>5 DEF InForce
  <2>2. InForce' = {c \in Exists' : bill'[c].status \notin {"SPLIT", "MERGED"}}
    BY DEF InForce
  <2>3. ASSUME NEW c \in Exists
        PROVE  bill'[c].status \notin {"SPLIT", "MERGED"} <=> c \in InForce \ {b}
    BY <1>1 DEF InForce
  <2> QED
    BY <2>1, <2>2, <2>3, <1>7, <1>8 DEF InForce
<1>12. PICK f, g : /\ f = Summands(InForce)
                   /\ g = [c \in BillIds |-> IF c \in InForce' THEN bill'[c].total ELSE 0]
  OBVIOUS
<1>13. PICK f1, f2 : /\ f1 = [c \in 1..MaxBills |-> IF c = b THEN 0 ELSE f[c]]
                     /\ f2 = [c \in 1..MaxBills |-> IF c = N THEN part ELSE f1[c]]
  OBVIOUS
<1>14. /\ N \in 1..MaxBills /\ N + 1 \in 1..MaxBills /\ MaxBills \in Nat /\ b \in 1..MaxBills
       /\ b # N /\ b # N + 1 /\ N # N + 1
  BY <1>1, <1>4, <1>5, Bounds DEF BillIds
<1>15. /\ \A c \in 1..MaxBills : f[c] = IF c \in InForce THEN bill[c].total ELSE 0
       /\ \A c \in 1..MaxBills : f[c] \in Int /\ bill[c].total \in Nat
  BY <1>12, SummandsInt
<1>16. part \in Int /\ bill[b].total \in Int
  BY <1>14, <1>15, Bounds
<1>17. /\ f[b] = bill[b].total /\ f1[b] = 0 /\ f1[N] = 0 /\ f2[N] = part /\ f2[N + 1] = 0
       /\ \A c \in 1..MaxBills : f1[c] \in Int /\ f2[c] \in Int
       /\ \A c \in (1..MaxBills) \ {b} : f1[c] = f[c]
       /\ \A c \in (1..MaxBills) \ {N} : f2[c] = f1[c]
  BY <1>11, <1>13, <1>14, <1>15, <1>16
<1>18. g[N + 1] = bill[b].total - part
  BY <1>5, <1>8, <1>11, <1>12
<1>19. ASSUME NEW c \in (1..MaxBills) \ {N + 1} PROVE g[c] = f2[c]
  <2>1. c \in BillIds /\ g[c] = IF c \in InForce' THEN bill'[c].total ELSE 0
    BY <1>12 DEF BillIds
  <2>2. CASE c = N
    BY <2>1, <2>2, <1>8, <1>11, <1>17
  <2>3. CASE c = b
    BY <2>1, <2>3, <1>11, <1>14, <1>17
  <2>4. CASE c # N /\ c # b
    <3>1. c \in InForce' <=> c \in InForce
      BY <2>4, <1>11
    <3>2. c \in InForce => bill'[c].total = bill[c].total
      BY <1>9 DEF InForce
    <3>3. f2[c] = f[c]
      BY <2>4, <1>17
    <3> QED
      BY <2>1, <3>1, <3>2, <3>3, <1>15
  <2> QED
    BY <2>2, <2>3, <2>4
<1>20. Total(f, MaxBills) \in Int /\ Total(f1, MaxBills) = Total(f, MaxBills) + (f1[b] - f[b])
  <2>1. /\ \A c \in 1..MaxBills : f[c] \in Int
        /\ \A c \in (1..MaxBills) \ {b} : f1[c] = f[c]
        /\ f1[b] \in Int /\ b \in 1..MaxBills /\ MaxBills \in Nat
    BY <1>14, <1>15, <1>17
  <2> QED
    BY ONLY <2>1, TotalChange
<1>21. Total(f2, MaxBills) = Total(f1, MaxBills) + (f2[N] - f1[N])
  <2>1. /\ \A c \in 1..MaxBills : f1[c] \in Int
        /\ \A c \in (1..MaxBills) \ {N} : f2[c] = f1[c]
        /\ f2[N] \in Int /\ N \in 1..MaxBills /\ MaxBills \in Nat
    BY <1>14, <1>16, <1>17
  <2> QED
    BY ONLY <2>1, TotalChange
<1>22. Total(g, MaxBills) = Total(f2, MaxBills) + (g[N + 1] - f2[N + 1])
  <2>1. (\A c \in 1..MaxBills : f2[c] \in Int) /\ g[N + 1] \in Int
    BY <1>16, <1>17, <1>18
  <2> QED
    BY ONLY <2>1, <1>14, <1>19, TotalChange
<1>23. Total(g, MaxBills) = Total(f, MaxBills)
  BY ONLY <1>16, <1>17, <1>18, <1>20, <1>21, <1>22
<1>24. SumOfTotals(InForce)' = SumOfTotals(InForce)
  <2>1. SumOfTotals(InForce)' = Total(g, MaxBills)
    BY <1>12 DEF SumOfTotals
  <2> QED
    BY <2>1, <1>12, <1>23, SumIs
<1>25. SumOfTotals(FirstBills)' = SumOfTotals(FirstBills)
  <2>1. [c \in BillIds |-> IF c \in FirstBills' THEN bill'[c].total ELSE 0]
          = [c \in BillIds |-> IF c \in FirstBills THEN bill[c].total ELSE 0]
    BY <1>9, <1>10, FirstExist
  <2> QED
    BY <2>1 DEF SumOfTotals
<1> QED
  BY <1>24, <1>25

\* A payment changes neither what a bill asks for nor the orders on it.
LEMMA PayKeepsTotals ==
  ASSUME TypeInv, NEW b \in Payable, NEW method \in Methods, NEW ref \in Refs, NEW n \in Nat,
         ApplyPayment(b, method, ref, n)
  PROVE  \A c \in BillIds : bill'[c].orders = bill[c].orders /\ bill'[c].total = bill[c].total
<1>1. CASE bill' = bill
  BY <1>1
<1>2. CASE Credits(b, method, ref, n)
  BY <1>2 DEF Credits
<1> QED
  BY <1>1, <1>2, PayEffect

LEMMA RevenuePaid ==
  ASSUME TypeInv, NEW b \in Payable, NEW method \in Methods, NEW ref \in Refs, NEW n \in Nat,
         ApplyPayment(b, method, ref, n), Exists' = Exists, InForce' = InForce,
         SumOfTotals(InForce) = SumOfTotals(FirstBills)
  PROVE  (SumOfTotals(InForce) = SumOfTotals(FirstBills))'
<1>1. \A c \in Exists : bill'[c].orders = bill[c].orders /\ bill'[c].total = bill[c].total
  BY PayKeepsTotals DEF Exists
<1> QED
  BY <1>1, RevenueKept

\* Every command but markBillPending conserves revenue; that one does so for a payable bill.
LEMMA RevenueSteps ==
  ASSUME TypeInv, Next, SumOfTotals(InForce) = SumOfTotals(FirstBills),
         \A b \in BillIds : MarkBillPending(b) => b \in Payable
  PROVE  (SumOfTotals(InForce) = SumOfTotals(FirstBills))'
<1> DEFINE Goal == (SumOfTotals(InForce) = SumOfTotals(FirstBills))'
<1>1. ASSUME bill' = bill PROVE Goal
  <2>1. Exists' = Exists /\ InForce' = InForce
    BY <1>1 DEF Exists, InForce
  <2> QED
    BY <2>1, <1>1, RevenueKept
<1>2. ASSUME NEW b \in BillIds, MarkBillPending(b) PROVE Goal
  <2>1. /\ Exists' = Exists
        /\ \A c \in BillIds : /\ bill'[c].total = bill[c].total /\ bill'[c].orders = bill[c].orders
                              /\ bill'[c].status = IF c = b THEN "PENDING" ELSE bill[c].status
    BY <1>2, PendingEffect
  <2>2. b \in Payable
    BY <1>2
  <2>3. InForce' = InForce
    BY <2>1, <2>2 DEF InForce, Exists, Payable
  <2>4. \A c \in Exists : bill'[c].orders = bill[c].orders /\ bill'[c].total = bill[c].total
    BY <2>1 DEF Exists
  <2> QED
    BY <2>1, <2>3, <2>4, RevenueKept
<1>3. ASSUME NEW b \in BillIds, NEW method \in Methods, NEW ref \in Refs, NEW n \in Amounts,
             NEW st \in {"CONFIRMED", "MANUALLY_CONFIRMED"}, Collects(b, method, ref, n, st)
      PROVE  Goal
  <2>1. b \in Payable /\ n \in Nat /\ ApplyPayment(b, method, ref, n) /\ Exists' = Exists /\ InForce' = InForce
    BY <1>3, CollectsEffect
  <2> QED
    BY <2>1, RevenuePaid
<1>4. ASSUME NEW i \in 1..Len(txs), NEW n \in Amounts, VerifyPendingCollection(i, n) PROVE Goal
  <2>1. Exists' = Exists /\ InForce' = InForce
    BY <1>4, VerifyKeeps
  <2>2. ASSUME NEW k \in 1..Len(allocs), allocs[k].bill \in Payable,
               ApplyPayment(allocs[k].bill, "WALLET", txs[i].ref, allocs[k].amount)
        PROVE  Goal
    <3>1. allocs[k].amount \in Nat /\ txs[i].ref \in Refs /\ "WALLET" \in Methods
      BY Entries DEF AllocType, TxType, Methods
    <3> QED
      BY <2>1, <2>2, <3>1, RevenuePaid
  <2>3. \/ bill' = bill
        \/ \E k \in 1..Len(allocs) :
             /\ allocs[k].bill \in Payable
             /\ ApplyPayment(allocs[k].bill, "WALLET", txs[i].ref, allocs[k].amount)
    BY <1>4, VerifyEffect
  <2> HIDE DEF Goal
  <2> QED
    BY <1>1, <2>2, <2>3
<1>5. ASSUME NEW i \in 1..Len(txs), NEW b \in BillIds, NEW n \in Amounts,
             ApplyUnallocatedCollection(i, b, n)
      PROVE  Goal
  <2>1. /\ b \in Payable /\ n \in Nat /\ txs[i].ref \in Refs /\ "WALLET" \in Methods
        /\ ApplyPayment(b, "WALLET", txs[i].ref, n) /\ Exists' = Exists /\ InForce' = InForce
    BY <1>5, ApplyEffect DEF Methods
  <2> QED
    BY <2>1, RevenuePaid
<1>6. ASSUME NEW b \in BillIds, NEW n \in Amounts, RecordOlderPayment(b, n) PROVE Goal
  <2>1. /\ b \in Payable /\ n \in Nat /\ <<"OLDER", Len(payments) + 1>> \in Refs /\ "CARD" \in Methods
        /\ ApplyPayment(b, "CARD", <<"OLDER", Len(payments) + 1>>, n)
        /\ Exists' = Exists /\ InForce' = InForce
    BY <1>6, OlderEffect DEF Methods
  <2> QED
    BY <2>1, RevenuePaid
<1>7. ASSUME NEW o \in Orders, Opens(o) PROVE Goal
  <2>1. CASE bill' # bill
    BY <1>7, <2>1, RevenueOpens DEF Opens
  <2> QED
    BY <1>1, <2>1
<1>8. ASSUME NEW sources \in SUBSET BillIds, MergeBills(sources) PROVE Goal
  BY <1>8, RevenueMerges
<1>9. ASSUME NEW b \in BillIds, NEW n \in Amounts, SplitBill(b, n) PROVE Goal
  BY <1>9, RevenueSplits
<1>10. ASSUME \/ OnlyOrders
              \/ \E r \in Receipts, n \in Amounts : LeavesUnallocated(r, n)
              \/ \E b \in BillIds, n \in Amounts, r \in Receipts : SubmitManualReference(b, n, r)
              \/ \E b \in BillIds, n \in Amounts : RequestRefund(b, n)
              \/ \E i \in 1..Len(refunds) : ApproveRefund(i)
              \/ \E i \in 1..Len(refunds) : RejectRefund(i)
       PROVE  Goal
  <2>1. bill' = bill
    BY <1>10 DEF OnlyOrders, LeavesUnallocated, SubmitManualReference, RequestRefund, ApproveRefund, RejectRefund
  <2> QED
    BY <2>1, <1>1
<1> HIDE DEF Goal
<1>11. Goal
  BY <1>2, <1>3, <1>4, <1>5, <1>6, <1>7, <1>8, <1>9, <1>10, Shapes
<1> QED
  BY <1>11 DEF Goal

LEMMA ReopenedSteps ==
  ASSUME TypeInv, Next, ~ reopened'
  PROVE  ~ reopened /\ \A b \in BillIds : MarkBillPending(b) => b \in Payable
<1>1. ASSUME NEW b \in BillIds, MarkBillPending(b) PROVE ~ reopened /\ b \in Payable
  <2>1. reopened' = (reopened \/ b \notin Payable)
    BY <1>1 DEF MarkBillPending
  <2> QED
    BY <2>1, Zenon
<1>2. CASE \E b \in BillIds : MarkBillPending(b)
  BY <1>1, <1>2
<1>3. CASE ~ \E b \in BillIds : MarkBillPending(b)
  <2>1. reopened' = reopened
    <3>1. \/ OnlyOrders \/ \E o \in Orders : Opens(o)
          \/ \E sources \in SUBSET BillIds : MergeBills(sources)
          \/ \E b \in BillIds, n \in Amounts : SplitBill(b, n)
          \/ \E r \in Receipts, n \in Amounts : LeavesUnallocated(r, n)
          \/ \E b \in BillIds, n \in Amounts, r \in Receipts : SubmitManualReference(b, n, r)
          \/ \E i \in 1..Len(txs), n \in Amounts : VerifyPendingCollection(i, n)
          \/ \E i \in 1..Len(txs), b \in BillIds, n \in Amounts : ApplyUnallocatedCollection(i, b, n)
          \/ \E b \in BillIds, n \in Amounts : RecordOlderPayment(b, n)
          \/ \E b \in BillIds, n \in Amounts : RequestRefund(b, n)
          \/ \E i \in 1..Len(refunds) : ApproveRefund(i) \/ RejectRefund(i)
          \/ \E b \in BillIds, method \in Methods, ref \in Refs, n \in Amounts,
               st \in {"CONFIRMED", "MANUALLY_CONFIRMED"} : Collects(b, method, ref, n, st)
      BY <1>3, Shapes
    <3>2. UNCHANGED history
      BY <3>1 DEF OnlyOrders, Opens, MergeBills, SplitBill, LeavesUnallocated, SubmitManualReference,
        VerifyPendingCollection, ApplyUnallocatedCollection, RecordOlderPayment, RequestRefund,
        ApproveRefund, RejectRefund, Collects
    <3> QED
      BY <3>2 DEF history
  <2> QED
    BY <2>1, <1>3, Zenon
<1> QED
  BY <1>2, <1>3

LEMMA RevenueNext == TypeInv /\ RevenueConserved /\ [Next]_vars => RevenueConserved'
<1> SUFFICES ASSUME TypeInv, RevenueConserved, [Next]_vars PROVE RevenueConserved' OBVIOUS
<1>1. CASE UNCHANGED vars
  BY <1>1 DEF vars, RevenueConserved, SumOfTotals, InForce, FirstBills, BillsOf, Exists
<1>2. CASE Next
  <2> SUFFICES ASSUME ~ reopened' PROVE (SumOfTotals(InForce) = SumOfTotals(FirstBills))'
    BY DEF RevenueConserved
  <2>1. ~ reopened /\ \A b \in BillIds : MarkBillPending(b) => b \in Payable
    BY <1>2, ReopenedSteps
  <2>2. SumOfTotals(InForce) = SumOfTotals(FirstBills)
    BY <2>1 DEF RevenueConserved
  <2> QED
    BY <1>2, <2>1, <2>2, RevenueSteps
<1> QED
  BY <1>1, <1>2

\* For any number of orders and bills, however they are split, merged, merged again and paid
\* in between, what the bills in force ask for is what the first bill of each order asked
\* for: no order is billed twice, and no line is lost, until markBillPending puts a bill that
\* was split, merged or paid back.
THEOREM RevenueIsConserved == Spec => []RevenueConserved
<1>1. Init => RevenueConserved
  <2> SUFFICES ASSUME Init PROVE SumOfTotals(InForce) = SumOfTotals(FirstBills)
    BY DEF RevenueConserved
  <2>1. Exists = {}
    BY DEF Init, Exists, NoBill
  <2>2. InForce = {} /\ FirstBills = {}
    BY <2>1 DEF InForce, FirstBills, BillsOf
  <2> QED
    BY <2>2
<1> QED
  BY <1>1, RevenueNext, TypeAlways, PTL DEF Spec
-----------------------------------------------------------------------------
(* Worker jobs: one worker at a time, for any set of workers and messages, any   *)
(* number of attempts, and any number of crashes and failed queries.             *)

JobPhases == {"idle", "read", "claim", "run", "complete", "failed", "record"}

\* What the invariant below needs to know of the types.
LeaseType ==
  /\ phase \in [Workers -> JobPhases]
  /\ left \in [Workers -> Nat]
  /\ lease \in Nat /\ errors \in Nat /\ outlived \in BOOLEAN

\* As long as every execution stays inside its lease and no query fails, a worker that
\* has the job runs on the lease of the row itself, and there is one such worker: a claim
\* needs an expired lease, and the lease is given up only by the worker that took it.
LeaseInv ==
  /\ LeaseType
  /\ Undisturbed =>
       /\ \A w \in Executing : status = "RUNNING" /\ left[w] = lease /\ lease > 0
       /\ \A v, w \in Executing : v = w

-----------------------------------------------------------------------------
\* The job is inserted with no lease, and no worker has it.
LEMMA LeaseInit == JobInit => LeaseInv
<1> SUFFICES ASSUME JobInit PROVE LeaseInv OBVIOUS
<1>1. outlived \in BOOLEAN
  BY Zenon DEF JobInit
<1>2. phase = [w \in Workers |-> "idle"] /\ left = [w \in Workers |-> 0] /\ lease = 0 /\ errors = 0
  BY DEF JobInit
<1>3. LeaseType
  BY <1>1, <1>2 DEF LeaseType, JobPhases
<1>4. Executing = {}
  BY <1>2 DEF Executing
<1> QED
  BY <1>3, <1>4 DEF LeaseInv

\* A worker that is done with its message has nothing.
LEMMA JobReleaseType ==
  ASSUME LeaseType, NEW w \in Workers, NEW from, Release(w, from)
  PROVE  /\ phase' = [phase EXCEPT ![w] = "idle"] /\ phase[w] = from
         /\ phase' \in [Workers -> JobPhases] /\ left' \in [Workers -> Nat]
         /\ \A v \in Workers \ {w} : phase'[v] = phase[v] /\ left'[v] = left[v]
BY DEF Release, Goto, LeaseType, JobPhases

\* Nobody new has the job after a step in which one worker gives up its message and the
\* row is left alone.
LEMMA ReleaseKeeps ==
  ASSUME LeaseInv, NEW w \in Workers, NEW from, Release(w, from),
         UNCHANGED <<status, lease, errors, outlived>>
  PROVE  LeaseInv'
BY JobReleaseType DEF LeaseInv, LeaseType, Undisturbed, Executing, JobPhases

\* The one worker that has the job gives it up and the lease with it.
LEMMA ReleaseEnds ==
  ASSUME LeaseInv, NEW w \in Executing, Release(w, phase[w]),
         lease' \in Nat, UNCHANGED <<errors, outlived>>
  PROVE  LeaseInv'
<1>1. w \in Workers
  BY DEF Executing
<1>2. Undisturbed => Executing' = {}
  BY <1>1, JobReleaseType DEF LeaseInv, Executing, JobPhases
<1> QED
  BY <1>1, <1>2, JobReleaseType DEF LeaseInv, LeaseType, Undisturbed

\* A tick takes as much from the lease of the row as from that of the worker, and one
\* that ends the worker's is recorded.
LEMMA TickKeeps == LeaseInv /\ Tick => LeaseInv'
<1> SUFFICES ASSUME LeaseInv, Tick PROVE LeaseInv' OBVIOUS
<1>1. LeaseType'
  BY DEF LeaseInv, LeaseType, Tick, Less
<1>2. Executing' = Executing
  BY DEF Tick, Executing
<1>3. ASSUME Undisturbed'
      PROVE  Undisturbed /\ \A w \in Executing : left[w] > 1
  <2>1. outlived' = (outlived \/ \E w \in Executing : left[w] <= 1) /\ errors' = errors
    BY DEF Tick
  <2>2. ~ outlived /\ errors = 0 /\ ~ \E w \in Executing : left[w] <= 1
    BY <1>3, <2>1, Zenon DEF Undisturbed
  <2>3. \A w \in Executing : left[w] \in Nat
    BY DEF LeaseInv, LeaseType, Executing
  <2> QED
    BY <2>2, <2>3 DEF Undisturbed
<1>4. ASSUME Undisturbed', NEW w \in Executing
      PROVE  status' = "RUNNING" /\ left'[w] = lease' /\ lease' > 0
  <2>1. w \in Workers /\ left[w] = lease /\ left[w] > 1 /\ status = "RUNNING" /\ lease \in Nat
    BY <1>3, <1>4 DEF LeaseInv, LeaseType, Executing
  <2> QED
    BY <2>1 DEF Tick, Less
<1> QED
  BY <1>1, <1>2, <1>3, <1>4 DEF LeaseInv

\* Every step keeps the lease with the one worker that took it.
LEMMA LeaseNext == LeaseInv /\ [JobNext]_jobVars => LeaseInv'
<1> SUFFICES ASSUME LeaseInv, [JobNext]_jobVars PROVE LeaseInv' OBVIOUS
<1>1. CASE UNCHANGED jobVars
  BY <1>1 DEF jobVars, row, decision, faults, LeaseInv, LeaseType, Undisturbed, Executing
<1>2. CASE Cron
  BY <1>2 DEF Cron, row, decision, faults, LeaseInv, LeaseType, Undisturbed, Executing
<1>3. CASE Tick
  BY <1>3, TickKeeps
<1>4. ASSUME NEW w \in Workers, NEW m \in Messages, Deliver(w, m) PROVE LeaseInv'
  BY <1>4 DEF Deliver, Goto, row, decision, faults, LeaseInv, LeaseType, Undisturbed, Executing, JobPhases
<1>5. ASSUME NEW w \in Workers, ClaimDone(w) PROVE LeaseInv'
  BY <1>5, ReleaseKeeps DEF ClaimDone, row, faults
<1>6. ASSUME NEW w \in Workers, ClaimRead(w) PROVE LeaseInv'
  BY <1>6 DEF ClaimRead, Goto, row, decision, faults, LeaseInv, LeaseType, Undisturbed, Executing, JobPhases
<1>7. ASSUME NEW w \in Workers, Claim(w) PROVE LeaseInv'
  <2>1. Undisturbed => Executing = {}
    BY <1>7 DEF Claim, Claimable, LeaseInv
  <2>2. LeaseType'
    BY <1>7 DEF Claim, Goto, Lease, faults, LeaseInv, LeaseType, JobPhases
  <2>3. Undisturbed => Executing' = {w}
    BY <1>7, <2>1 DEF Claim, Goto, LeaseInv, LeaseType, Executing
  <2>4. Undisturbed' <=> Undisturbed
    BY <1>7 DEF Claim, faults, Undisturbed
  <2>5. status' = "RUNNING" /\ left'[w] = lease' /\ lease' > 0
    BY <1>7 DEF Claim, Lease, LeaseInv, LeaseType
  <2> QED
    BY <2>2, <2>3, <2>4, <2>5 DEF LeaseInv
<1>8. ASSUME NEW w \in Workers, ClaimBusy(w) PROVE LeaseInv'
  BY <1>8, ReleaseKeeps DEF ClaimBusy, row, faults
<1>9. ASSUME NEW w \in Workers, Execute(w) PROVE LeaseInv'
  BY <1>9 DEF Execute, Goto, row, decision, faults, LeaseInv, LeaseType, Undisturbed, Executing, JobPhases
<1>10. ASSUME NEW w \in Workers, Complete(w) PROVE LeaseInv'
  <2>1. Release(w, phase[w]) /\ w \in Executing
    BY <1>10 DEF Complete, Release, Goto, Executing
  <2>2. lease' \in Nat /\ UNCHANGED <<errors, outlived>>
    BY <1>10 DEF Complete, faults, LeaseInv, LeaseType
  <2> QED
    BY <2>1, <2>2, ReleaseEnds
<1>11. ASSUME NEW w \in Workers, QueryFails(w) PROVE LeaseInv'
  <2>1. LeaseType'
    BY <1>11 DEF QueryFails, Goto, row, LeaseInv, LeaseType, JobPhases
  <2>2. errors' # 0
    BY <1>11 DEF QueryFails, LeaseInv, LeaseType
  <2> QED
    BY <2>1, <2>2 DEF LeaseInv, Undisturbed
<1>12. ASSUME NEW w \in Workers, FailureRead(w) PROVE LeaseInv'
  BY <1>12 DEF FailureRead, Goto, row, faults, LeaseInv, LeaseType, Undisturbed, Executing, JobPhases
<1>13. ASSUME NEW w \in Workers, FailureWrite(w) PROVE LeaseInv'
  BY <1>13, ReleaseEnds DEF FailureWrite, Release, Goto, Executing, faults
<1>14. ASSUME NEW w \in Workers, Crash(w) PROVE LeaseInv'
  BY <1>14, ReleaseKeeps DEF Crash, row
<1> QED
  BY <1>1, <1>2, <1>3, <1>4, <1>5, <1>6, <1>7, <1>8, <1>9, <1>10, <1>11, <1>12, <1>13, <1>14
  DEF JobNext, Work

LEMMA LeaseAlways == JobSpec => []LeaseInv
BY LeaseInit, LeaseNext, PTL DEF JobSpec

\* claimWorkerJob's conditional UPDATE gives a job to one worker at a time, whatever is
\* delivered twice or stops, while leases are long enough and queries answer.
THEOREM OneWorkerPerLease == JobSpec => []LeaseIsExclusive
<1>1. LeaseInv => LeaseIsExclusive
  BY DEF LeaseInv, LeaseIsExclusive, Executing
<1> QED
  BY <1>1, LeaseAlways, PTL

\* A job that succeeded is not opened again by a late claim or a late failure: nobody has
\* the job any more when its row says SUCCEEDED.
THEOREM SuccessStands == JobSpec => SucceededIsFinal
<1>1. ASSUME LeaseInv, JobNext, status = "SUCCEEDED", Undisturbed PROVE status' = "SUCCEEDED"
  <2>1. Executing = {}
    BY <1>1 DEF LeaseInv
  <2>2. \A w \in Workers : phase[w] \notin {"run", "complete", "failed", "record"}
    BY <2>1 DEF Executing
  <2> QED
    BY <1>1, <2>2 DEF JobNext, Work, Cron, Tick, Deliver, ClaimDone, ClaimRead, Claim, Claimable, ClaimBusy,
      Execute, Complete, QueryFails, FailureRead, FailureWrite, Crash, Release, Goto, row
<1>2. LeaseInv /\ [JobNext]_jobVars
        => [(status = "SUCCEEDED" /\ Undisturbed) => status' = "SUCCEEDED"]_jobVars
  BY <1>1
<1> QED
  BY <1>2, LeaseAlways, PTL DEF JobSpec, SucceededIsFinal
=============================================================================
