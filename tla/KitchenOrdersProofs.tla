------------------------- MODULE KitchenOrdersProofs -------------------------
(* Proofs about KitchenOrders, for any lines, stations, quantities and number of *)
(* amendments.                                                                   *)
EXTENDS KitchenOrders, TLAPS

LineType == [qty : Nat, sent : BOOLEAN, prod : Stages \cup {"CANCELLED"}]
KitchenType ==
  /\ line \in [Lines -> LineType] /\ told \in [Lines -> Int]
  /\ consumed \in [Lines -> Nat] /\ posted \in BOOLEAN

\* What the tickets have to say of a line, were the order not cancelled.
Due(l) == IF line[l].sent /\ line[l].prod # "CANCELLED" THEN line[l].qty ELSE 0

\* KitchenKnows, and what keeps it: a cancelled order that a payment revives has nothing
\* left to make, and a line is cancelled after it was sent only.
TicketInv == \A l \in Routed \ strayed :
  /\ told[l] = Due(l)
  /\ status = "CANCELLED" => Due(l) = 0
  /\ ~line[l].sent => line[l].prod # "CANCELLED"

\* A sent line is in the order, and an order that was never sent has no ticket.
LineInv ==
  /\ \A l \in Lines : line[l].sent => line[l].qty > 0
  /\ status = "none" => \A l \in Lines : line[l] = NoLine
  /\ status \in {"none", "HELD", "OPEN"} => original = {}

\* The stock is deducted when the order is served or paid, once.
StockInv ==
  /\ posted => \A l \in Lines \ late : consumed[l] = line[l].qty
  /\ ~posted => \A l \in Lines : consumed[l] = 0
  /\ status \in {"SERVED", "PAID"} => posted
  /\ status = "none" => ~posted

Inv == KitchenType /\ TicketInv /\ LineInv /\ StockInv /\ ReadyIsReady

-----------------------------------------------------------------------------
(* Lines                                                                     *)

\* The lines ls are those of the order with another draft of what is not sent.
Redraft(ls) ==
  /\ ls \in [Lines -> LineType]
  /\ \A l \in Lines : /\ line[l].sent => ls[l] = line[l]
                      /\ ~line[l].sent => ~ls[l].sent /\ ls[l].prod \in {line[l].prod, "NEW"}

LEMMA DraftType == ASSUME NEW d \in Drafts PROVE d \in [Lines -> Nat]
  BY KitchenAssumption DEF Drafts

LEMMA NoLineType == NoLine \in LineType /\ NoLine.qty = 0 /\ ~NoLine.sent /\ NoLine.prod = "NEW"
<1>1. NoLine \in LineType /\ NoLine.qty = 0 /\ NoLine.prod = "NEW"
  BY DEF NoLine, LineType, Stages
<1>2. ~NoLine.sent
  BY DEF NoLine
<1> QED BY <1>1, <1>2

\* A line with another quantity is otherwise the same.
LEMMA Requantified ==
  ASSUME NEW x \in LineType, NEW q \in Nat
  PROVE  /\ [x EXCEPT !.qty = q] \in LineType /\ [x EXCEPT !.qty = q].qty = q
         /\ [x EXCEPT !.qty = q].sent = x.sent /\ [x EXCEPT !.qty = q].prod = x.prod
  BY DEF LineType

LEMMA DraftedIsRedraft ==
  ASSUME Inv, status = "none", NEW d \in Drafts PROVE Redraft(Drafted(d))
<1>1. \A l \in Lines : line[l] = NoLine
  BY DEF Inv, LineInv
<1>2. ASSUME NEW l \in Lines
      PROVE  Drafted(d)[l] \in LineType /\ ~Drafted(d)[l].sent /\ Drafted(d)[l].prod = "NEW"
  <2>1. Drafted(d)[l] = [NoLine EXCEPT !.qty = d[l]] /\ d[l] \in Nat
    BY DraftType DEF Drafted
  <2> QED BY <2>1, NoLineType, Requantified
<1>3. Drafted(d) \in [Lines -> LineType]
  BY <1>2 DEF Drafted
<1> QED BY <1>1, <1>2, <1>3, NoLineType DEF Redraft

LEMMA RedraftedIsRedraft ==
  ASSUME Inv, NEW d \in Drafts, KeepsSent(d) PROVE Redraft(Redrafted(d))
<1>1. ASSUME NEW l \in Lines
      PROVE  /\ Redrafted(d)[l] \in LineType
             /\ line[l].sent => Redrafted(d)[l] = line[l]
             /\ ~line[l].sent => ~Redrafted(d)[l].sent /\ Redrafted(d)[l].prod \in {line[l].prod, "NEW"}
  <2>0. line[l] \in LineType /\ d[l] \in Nat
    BY DraftType DEF Inv, KitchenType
  <2>1. CASE line[l].sent
    <3>1. d[l] # 0
      BY <2>0, <2>1 DEF KeepsSent, Inv, LineInv
    <3>2. Redrafted(d)[l] = line[l]
      BY <2>1, <3>1 DEF Redrafted
    <3> QED BY <2>0, <2>1, <3>2
  <2>2. CASE ~line[l].sent /\ d[l] = 0
    <3>1. Redrafted(d)[l] = NoLine
      BY <2>2 DEF Redrafted
    <3> QED BY <2>2, <3>1, NoLineType
  <2>3. CASE ~line[l].sent /\ d[l] # 0
    <3>1. Redrafted(d)[l] = [line[l] EXCEPT !.qty = d[l]]
      BY <2>3 DEF Redrafted
    <3> QED BY <2>0, <2>3, <3>1, Requantified
  <2> QED BY <2>1, <2>2, <2>3
<1>2. Redrafted(d) \in [Lines -> LineType]
  BY <1>1 DEF Redrafted
<1> QED BY <1>1, <1>2 DEF Redraft

LEMMA SameIsRedraft == ASSUME Inv PROVE Redraft(line)
<1>1. \A l \in Lines : line[l] \in LineType
  BY DEF Inv, KitchenType
<1> QED BY <1>1 DEF Redraft, Inv, KitchenType

-----------------------------------------------------------------------------
(* The steps                                                                 *)

\* Stock: nothing is deducted, and what changes after the deduction is late.
LEMMA StockStays ==
  ASSUME Inv, NEW ls \in [Lines -> LineType], UNCHANGED stock,
         \A l \in Lines : line'[l].qty = ls[l].qty, late' = Changed(ls),
         status' \in {"SERVED", "PAID"} => posted, status' # "none"
  PROVE  StockInv'
<1>1. UNCHANGED <<posted, consumed>>
  BY DEF stock
<1>2. ASSUME posted, NEW l \in Lines \ late' PROVE consumed[l] = line'[l].qty
  <2>1. l \notin late /\ ls[l].qty = line[l].qty
    BY <1>2 DEF Changed
  <2> QED BY <1>2, <2>1 DEF Inv, StockInv
<1> QED BY <1>1, <1>2 DEF Inv, StockInv

\* What was not sent may change; an order that was sent stays so.
LEMMA DraftKeeps ==
  ASSUME Inv, NEW ls, Redraft(ls), line' = ls, UNCHANGED <<tickets, strayed, stock>>, late' = Changed(ls),
         status' = status \/ status' \in {"HELD", "OPEN", "BILL_REQUESTED"},
         status' \in {"HELD", "OPEN"} => status \in {"none", "HELD", "OPEN"}, status' # "none"
  PROVE  Inv'
<1>1. UNCHANGED <<told, original, posted, consumed, strayed>>
  BY DEF tickets, stock
<1>2. ls \in [Lines -> LineType] /\ \A l \in Lines : line[l] \in LineType /\ ls[l] \in LineType
  BY DEF Redraft, Inv, KitchenType
<1>3. KitchenType'
  BY <1>1, <1>2 DEF Inv, KitchenType
<1>4. ASSUME NEW l \in Lines PROVE Due(l)' = Due(l) /\ line'[l].sent = line[l].sent
  <2>1. CASE line[l].sent
    <3>1. line'[l] = line[l]
      BY <2>1 DEF Redraft
    <3> QED BY <3>1 DEF Due
  <2>2. CASE ~line[l].sent
    <3>1. ~line'[l].sent
      BY <2>2 DEF Redraft
    <3>2. line'[l].sent = line[l].sent
      BY <1>2, <2>2, <3>1 DEF LineType
    <3> QED BY <2>2, <3>1, <3>2 DEF Due
  <2> QED BY <2>1, <2>2
<1>5. TicketInv'
  <2> SUFFICES ASSUME NEW l \in Routed \ strayed
               PROVE  /\ told[l] = Due(l)' /\ (status' = "CANCELLED" => Due(l)' = 0)
                      /\ ~line'[l].sent => line'[l].prod # "CANCELLED"
    BY <1>1 DEF TicketInv
  <2>0. l \in Lines
    BY DEF Routed
  <2>1. told[l] = Due(l) /\ (status = "CANCELLED" => Due(l) = 0) /\ (~line[l].sent => line[l].prod # "CANCELLED")
    BY DEF Inv, TicketInv
  <2>2. ~line'[l].sent => line'[l].prod # "CANCELLED"
    BY <1>4, <2>0, <2>1 DEF Redraft
  <2> QED BY <1>4, <2>0, <2>1, <2>2
<1>6. LineInv'
  <2>1. ASSUME NEW l \in Lines, line'[l].sent PROVE line'[l].qty > 0
    <3>1. line'[l] = line[l]
      BY <1>4, <2>1 DEF Redraft
    <3> QED BY <2>1, <3>1 DEF Inv, LineInv
  <2> QED BY <1>1, <2>1 DEF Inv, LineInv
<1>7. StockInv'
  <2>1. status' \in {"SERVED", "PAID"} => posted
    BY DEF Inv, StockInv
  <2> QED BY <1>2, <2>1, StockStays
<1>8. ReadyIsReady'
  <2> SUFFICES ASSUME NEW l \in Routed \ strayed, line'[l].sent, line'[l].prod # "CANCELLED"
               PROVE  /\ status' = "READY" => line'[l].prod \in {"READY", "SERVED"}
                      /\ status' = "SERVED" => line'[l].prod = "SERVED"
    BY <1>1 DEF ReadyIsReady
  <2>0. l \in Lines
    BY DEF Routed
  <2>1. line'[l] = line[l] /\ line[l].sent
    BY <1>4, <2>0 DEF Redraft
  <2> QED BY <2>1 DEF Inv, ReadyIsReady
<1> QED BY <1>3, <1>5, <1>6, <1>7, <1>8 DEF Inv

\* sendToKitchen: what was not sent is, and every routed line of it is on a ticket, but
\* for what the code leaves off when the bill was requested.
LEMMA Sends ==
  ASSUME Inv, NEW ls, Redraft(ls), NEW before, Send(before, ls), UNCHANGED stock,
         before \in {"HELD", "OPEN"} \cup InKitchen \cup Billed,
         before \in {"HELD", "OPEN"} => original = {}
  PROVE  Inv'
<1> DEFINE batch == Batch(ls)
           printed == Printed(batch, Kind(before))
<1>1. /\ status' = "SENT_TO_KITCHEN"
      /\ line' = [l \in Lines |-> [ls[l] EXCEPT !.sent = @ \/ l \in batch]]
      /\ told' = [l \in Lines |-> told[l] + (IF l \in printed THEN ls[l].qty ELSE 0)]
      /\ strayed' = (IF before \in Billed THEN strayed \union ((batch \intersect Routed) \ printed) ELSE strayed)
      /\ late' = Changed(ls)
  BY DEF Send
<1>2. /\ batch = {l \in Lines : ls[l].qty > 0 /\ ~ls[l].sent}
      /\ printed \subseteq batch
      /\ before \notin Billed => batch \cap Routed \subseteq printed
  <2>1. batch = {l \in Lines : ls[l].qty > 0 /\ ~ls[l].sent}
    BY DEF Batch, Present
  <2>2. before \in InKitchen \/ before \in {"HELD", "OPEN"} \/ before \in Billed
    OBVIOUS
  <2>3. before \in InKitchen => batch \cap Routed \subseteq printed
    BY DEF Printed, Kind
  <2>4. before \in {"HELD", "OPEN"} => batch \cap Routed \subseteq printed
    BY DEF Printed
  <2> QED BY <2>1, <2>2, <2>3, <2>4 DEF Printed
<1> HIDE DEF batch, printed
<1>3. ASSUME NEW l \in Lines
      PROVE  /\ ls[l] \in LineType /\ line[l] \in LineType /\ told[l] \in Int
             /\ line'[l] \in LineType /\ line'[l].qty = ls[l].qty /\ line'[l].prod = ls[l].prod
             /\ line'[l].sent <=> (ls[l].sent \/ l \in batch)
  <2>1. ls[l] \in LineType /\ line[l] \in LineType /\ told[l] \in Int
    BY DEF Redraft, Inv, KitchenType
  <2>2. line'[l] = [ls[l] EXCEPT !.sent = ls[l].sent \/ l \in batch]
    BY <1>1
  <2>3. (ls[l].sent \/ l \in batch) \in BOOLEAN
    OBVIOUS
  <2> DEFINE b == ls[l].sent \/ l \in batch
  <2>4. line'[l] = [ls[l] EXCEPT !.sent = b]
    BY <2>2
  <2>5. line'[l].sent <=> b
    BY <2>1, <2>4 DEF LineType
  <2>6. b \in BOOLEAN
    BY <2>3
  <2> HIDE DEF b
  <2>7. line'[l] \in LineType /\ line'[l].qty = ls[l].qty /\ line'[l].prod = ls[l].prod
    BY <2>1, <2>4, <2>6 DEF LineType
  <2> QED BY <2>1, <2>5, <2>7 DEF b
<1>4. KitchenType'
  <2>1. line' \in [Lines -> LineType]
    BY <1>1, <1>3
  <2>2. told' \in [Lines -> Int]
    <3>1. \A l \in Lines : ls[l].qty \in Int /\ told[l] \in Int
      BY <1>3 DEF LineType
    <3> QED BY <1>1, <3>1
  <2> QED BY <2>1, <2>2 DEF Inv, KitchenType, stock
<1>5. TicketInv'
  <2> SUFFICES ASSUME NEW l \in Routed \ strayed'
               PROVE  told'[l] = Due(l)' /\ (~line'[l].sent => line'[l].prod # "CANCELLED")
    BY <1>1 DEF TicketInv
  <2>0. l \in Lines /\ l \in Routed \ strayed
    BY <1>1 DEF Routed
  <2>1. told[l] = Due(l) /\ (~line[l].sent => line[l].prod # "CANCELLED")
    BY <2>0 DEF Inv, TicketInv
  <2>2. told'[l] = told[l] + (IF l \in printed THEN ls[l].qty ELSE 0)
    BY <1>1, <2>0
  <2>3. CASE l \in batch
    <3>1. l \in printed
      BY <1>1, <1>2, <2>0, <2>3
    <3>2. ~line[l].sent /\ ls[l].prod # "CANCELLED"
      BY <1>2, <2>0, <2>1, <2>3 DEF Redraft
    <3>3. told[l] = 0 /\ ls[l].qty \in Nat
      BY <1>3, <2>0, <2>1, <3>2 DEF Due, LineType
    <3>4. told'[l] = ls[l].qty
      BY <2>2, <3>1, <3>3
    <3>5. Due(l)' = ls[l].qty /\ line'[l].sent
      BY <1>3, <2>0, <2>3, <3>2 DEF Due
    <3> QED BY <3>4, <3>5
  <2>4. CASE l \notin batch
    <3>1. told'[l] = told[l]
      BY <1>2, <1>3, <2>0, <2>2, <2>4
    <3>2. CASE line[l].sent
      <4>1. ls[l] = line[l]
        BY <2>0, <3>2 DEF Redraft
      <4>2. line'[l].sent /\ line'[l].prod = line[l].prod /\ line'[l].qty = line[l].qty
        BY <1>3, <2>0, <3>2, <4>1
      <4>3. Due(l)' = Due(l)
        BY <3>2, <4>2 DEF Due
      <4> QED BY <2>1, <3>1, <4>2, <4>3
    <3>3. CASE ~line[l].sent
      <4>1. ~ls[l].sent /\ ls[l].prod # "CANCELLED"
        BY <2>0, <2>1, <3>3 DEF Redraft
      <4>2. ~line'[l].sent /\ line'[l].prod # "CANCELLED"
        BY <1>3, <2>0, <2>4, <4>1
      <4> QED BY <2>1, <3>1, <3>3, <4>2 DEF Due
    <3> QED BY <3>2, <3>3
  <2> QED BY <2>3, <2>4
<1>6. LineInv'
  <2>1. ASSUME NEW l \in Lines, line'[l].sent PROVE line'[l].qty > 0
    <3>1. CASE l \in batch
      BY <1>2, <1>3, <3>1
    <3>2. CASE ls[l].sent
      <4>1. ls[l] = line[l] /\ line[l].sent
        BY <3>2 DEF Redraft
      <4> QED BY <1>3, <4>1 DEF Inv, LineInv
    <3> QED BY <1>3, <2>1, <3>1, <3>2
  <2> QED BY <1>1, <2>1 DEF LineInv
<1>7. StockInv'
  <2>1. ls \in [Lines -> LineType] /\ \A l \in Lines : line'[l].qty = ls[l].qty
    BY <1>3 DEF Redraft
  <2> QED BY <1>1, <2>1, StockStays
<1>8. ReadyIsReady'
  BY <1>1 DEF ReadyIsReady
<1> QED BY <1>4, <1>5, <1>6, <1>7, <1>8 DEF Inv

LEMMA CreateInv ==
  ASSUME Inv, NEW d \in Drafts, NEW held \in BOOLEAN, CreateOrder(d, held) \/ CreateGuestOrder(d, held)
  PROVE  Inv'
<1>1. status = "none" /\ UNCHANGED stock
  BY DEF CreateOrder, CreateGuestOrder
<1>2. Redraft(Drafted(d)) /\ original = {}
  BY <1>1, DraftedIsRedraft DEF Inv, LineInv
<1>3. CASE CreateOrder(d, held) \/ (CreateGuestOrder(d, held) /\ held)
  <2>1. line' = Drafted(d) /\ status' \in {"HELD", "OPEN"} /\ UNCHANGED <<tickets, strayed, late>>
    BY <1>3 DEF CreateOrder, CreateGuestOrder, tickets
  <2>2. late' = Changed(Drafted(d))
    BY <1>1, <2>1 DEF Changed, Inv, StockInv
  <2> QED BY <1>1, <1>2, <2>1, <2>2, DraftKeeps
<1>4. CASE CreateGuestOrder(d, held) /\ ~held
  <2>1. Send("OPEN", Drafted(d))
    BY <1>4 DEF CreateGuestOrder
  <2> QED BY <1>1, <1>2, <2>1, Sends
<1> QED BY <1>3, <1>4

LEMMA ReleaseInv == ASSUME Inv, ReleaseHeldOrder PROVE Inv'
<1>1. /\ status = "HELD" /\ status' = "OPEN" /\ line' = line /\ UNCHANGED <<tickets, strayed, stock>>
      /\ late' = late
  BY DEF ReleaseHeldOrder
<1>2. late' = Changed(line)
  BY <1>1 DEF Changed
<1> QED BY <1>1, <1>2, SameIsRedraft, DraftKeeps

LEMMA UpdateDraftInv == ASSUME Inv, NEW d \in Drafts, UpdateOrderDraft(d) PROVE Inv'
<1>1. /\ status' = status /\ KeepsSent(d) /\ line' = Redrafted(d) /\ late' = Changed(Redrafted(d))
      /\ UNCHANGED <<tickets, strayed, stock>> /\ status # "none"
  BY DEF UpdateOrderDraft, Editable, InKitchen
<1>2. Redraft(Redrafted(d))
  BY <1>1, RedraftedIsRedraft
<1> QED BY <1>1, <1>2, DraftKeeps

LEMMA RequestBillInv ==
  ASSUME Inv, NEW ls, Redraft(ls), RequestBill(ls) PROVE Inv'
<1>1. /\ status' = "BILL_REQUESTED" /\ line' = ls /\ late' = Changed(ls)
      /\ UNCHANGED <<tickets, strayed, stock>>
  BY DEF RequestBill
<1> QED BY <1>1, DraftKeeps

LEMMA SendInv == ASSUME Inv, SendToKitchen PROVE Inv'
<1>1. /\ status \in {"HELD", "OPEN"} \cup InKitchen \cup Billed /\ Send(status, line) /\ UNCHANGED stock
  BY DEF SendToKitchen
<1>2. status \in {"HELD", "OPEN"} => original = {}
  BY DEF Inv, LineInv
<1> QED BY <1>1, <1>2, SameIsRedraft, Sends

LEMMA UpsertInv == ASSUME Inv, NEW d \in Drafts, UpsertAndSendKitchen(d) PROVE Inv'
<1>1. UNCHANGED stock
  BY DEF UpsertAndSendKitchen
<1>2. CASE status = "none" /\ Send("OPEN", Drafted(d))
  <2>1. Redraft(Drafted(d)) /\ original = {}
    BY <1>2, DraftedIsRedraft DEF Inv, LineInv
  <2> QED BY <1>1, <1>2, <2>1, Sends
<1>3. CASE Editable /\ KeepsSent(d) /\ Send(status, Redrafted(d))
  <2>1. Redraft(Redrafted(d))
    BY <1>3, RedraftedIsRedraft
  <2>2. status \in {"HELD", "OPEN"} \cup InKitchen \cup Billed
    BY <1>3 DEF Editable
  <2>3. status \in {"HELD", "OPEN"} => original = {}
    BY DEF Inv, LineInv
  <2> QED BY <1>1, <1>3, <2>1, <2>2, <2>3, Sends
<1> QED BY <1>2, <1>3 DEF UpsertAndSendKitchen

LEMMA LargerOfTwo == \A n \in Int : Max({n, 0}) = IF n >= 0 THEN n ELSE 0
<1> SUFFICES ASSUME NEW n \in Int PROVE Max({n, 0}) = IF n >= 0 THEN n ELSE 0
  OBVIOUS
<1>1. \E x \in {n, 0} : \A y \in {n, 0} : x >= y
  OBVIOUS
<1>2. Max({n, 0}) \in {n, 0} /\ \A y \in {n, 0} : Max({n, 0}) >= y
  BY <1>1 DEF Max
<1> QED BY <1>2

\* amendKitchenOrder tells the stations the difference.
LEMMA AmendInv ==
  ASSUME Inv, NEW d \in Drafts, NEW reworded \in SUBSET Lines, NEW unmarked \in SUBSET Lines,
         AmendKitchenOrder(d, reworded, unmarked)
  PROVE  Inv'
<1> DEFINE added == Added(d, reworded)
           dropped == Dropped(d, reworded)
           more == {l \in Lines : added[l] > 0}
           stage(l) == IF l \in unmarked \/ Active(l) = 0 THEN "NEW" ELSE line[l].prod
<1>1. /\ status \in InKitchen /\ status' = (IF more # {} THEN "SENT_TO_KITCHEN" ELSE status)
      /\ line' = [l \in Lines |-> IF d[l] = 0 THEN NoLine
                                  ELSE [qty |-> d[l], sent |-> TRUE, prod |-> stage(l)]]
      /\ told' = [l \in Lines |-> told[l] + (IF l \in Routed THEN added[l] - dropped[l] ELSE 0)]
      /\ strayed' = strayed \union Batch(line)
                    \union {l \in Present(line) : stage(l) # line[l].prod /\ more = {}}
      /\ late' = Changed(line') /\ UNCHANGED <<original, stock>>
  BY DEF AmendKitchenOrder
<1>2. ASSUME NEW l \in Lines
      PROVE  /\ d[l] \in Nat /\ Active(l) \in Nat /\ line[l] \in LineType /\ told[l] \in Int
             /\ added[l] \in Int /\ dropped[l] \in Int /\ added[l] - dropped[l] = d[l] - Active(l)
             /\ d[l] > Active(l) => added[l] > 0
  <2>1. d[l] \in Nat /\ line[l] \in LineType /\ told[l] \in Int
    BY DraftType DEF Inv, KitchenType
  <2>2. Active(l) \in Nat
    BY <2>1 DEF Active, LineType
  <2>3. added[l] = (IF l \in reworded THEN d[l] ELSE IF d[l] - Active(l) >= 0 THEN d[l] - Active(l) ELSE 0)
    BY <2>1, <2>2, LargerOfTwo DEF Added
  <2>4. dropped[l] = (IF l \in reworded THEN Active(l) ELSE IF Active(l) - d[l] >= 0 THEN Active(l) - d[l] ELSE 0)
    BY <2>1, <2>2, LargerOfTwo DEF Dropped
  <2> QED BY <2>1, <2>2, <2>3, <2>4
<1> HIDE DEF added, dropped
<1>3. ASSUME NEW l \in Lines
      PROVE  stage(l) \in Stages \cup {"CANCELLED"} /\ stage(l) # "CANCELLED"
  <2>1. line[l].prod \in Stages \cup {"CANCELLED"} /\ "NEW" \in Stages
    BY <1>2 DEF LineType, Stages
  <2>2. Active(l) # 0 => line[l].prod # "CANCELLED"
    BY DEF Active
  <2> QED BY <2>1, <2>2
<1> HIDE DEF stage
<1>4. ASSUME NEW l \in Lines
      PROVE  /\ line'[l] \in LineType /\ line'[l].qty = d[l]
             /\ d[l] # 0 => line'[l].sent /\ line'[l].prod = stage(l)
             /\ d[l] = 0 => ~line'[l].sent /\ line'[l].prod = "NEW"
  <2>1. CASE d[l] = 0
    <3>1. line'[l] = NoLine
      BY <1>1, <2>1
    <3> QED BY <2>1, <3>1, NoLineType
  <2>2. CASE d[l] # 0
    <3>1. line'[l] = [qty |-> d[l], sent |-> TRUE, prod |-> stage(l)]
      BY <1>1, <2>2
    <3>2. line'[l] \in LineType /\ line'[l].qty = d[l] /\ line'[l].prod = stage(l)
      BY <1>2, <1>3, <3>1 DEF LineType
    <3>3. line'[l].sent
      BY <3>1
    <3> QED BY <2>2, <3>2, <3>3
  <2> QED BY <2>1, <2>2
<1>5. KitchenType'
  <2>1. line' \in [Lines -> LineType]
    BY <1>1, <1>4
  <2>2. told' \in [Lines -> Int]
    BY <1>1, <1>2
  <2> QED BY <1>1, <2>1, <2>2 DEF Inv, KitchenType, stock
<1>6. status' \in InKitchen
  BY <1>1 DEF InKitchen
<1>7. TicketInv'
  <2> SUFFICES ASSUME NEW l \in Routed \ strayed'
               PROVE  told'[l] = Due(l)' /\ (~line'[l].sent => line'[l].prod # "CANCELLED")
    BY <1>6 DEF TicketInv, InKitchen
  <2>0. l \in Lines /\ l \in Routed \ strayed /\ l \notin Batch(line)
    BY <1>1 DEF Routed
  <2>1. told[l] = Active(l)
    <3>1. told[l] = Due(l)
      BY <2>0 DEF Inv, TicketInv
    <3>2. line[l].sent \/ line[l].qty = 0
      BY <1>2, <2>0 DEF Batch, Present, LineType
    <3> QED BY <3>1, <3>2 DEF Due, Active
  <2>2. told'[l] = d[l]
    <3>1. told'[l] = told[l] + (added[l] - dropped[l])
      BY <1>1, <2>0
    <3> QED BY <1>2, <2>0, <2>1, <3>1
  <2>3. CASE d[l] = 0
    BY <1>4, <2>0, <2>2, <2>3 DEF Due
  <2>4. CASE d[l] # 0
    <3>1. line'[l].sent /\ line'[l].prod # "CANCELLED" /\ line'[l].qty = d[l]
      BY <1>3, <1>4, <2>0, <2>4
    <3> QED BY <2>2, <3>1 DEF Due
  <2> QED BY <2>3, <2>4
<1>8. LineInv'
  <2>1. ASSUME NEW l \in Lines, line'[l].sent PROVE line'[l].qty > 0
    BY <1>2, <1>4, <2>1
  <2> QED BY <1>6, <2>1 DEF LineInv, InKitchen
<1>9. StockInv'
  <2>1. status' \in {"SERVED", "PAID"} => posted
    BY <1>1 DEF Inv, StockInv, InKitchen
  <2>2. line' \in [Lines -> LineType] /\ status' # "none"
    BY <1>1, <1>4, <1>6 DEF InKitchen
  <2>3. PICK ls : ls = line'
    OBVIOUS
  <2>4. ls \in [Lines -> LineType] /\ late' = Changed(ls) /\ \A l \in Lines : line'[l].qty = ls[l].qty
    BY <1>1, <2>2, <2>3
  <2> QED BY <1>1, <2>1, <2>2, <2>4, StockStays
<1>10. ReadyIsReady'
  <2>1. CASE more # {}
    BY <1>1, <2>1 DEF ReadyIsReady
  <2>2. CASE more = {}
    <3> SUFFICES ASSUME NEW l \in Routed \ strayed', line'[l].sent, line'[l].prod # "CANCELLED"
                 PROVE  /\ status' = "READY" => line'[l].prod \in {"READY", "SERVED"}
                        /\ status' = "SERVED" => line'[l].prod = "SERVED"
      BY DEF ReadyIsReady
    <3>0. l \in Lines /\ l \in Routed \ strayed /\ l \notin Batch(line)
      BY <1>1 DEF Routed
    <3>1. d[l] # 0 /\ line'[l].prod = stage(l)
      BY <1>4, <3>0
    <3>2. ~ (d[l] > Active(l))
      BY <1>2, <2>2, <3>0
    <3>3. Active(l) > 0
      BY <1>2, <3>0, <3>1, <3>2
    <3>4. line[l].qty > 0 /\ line[l].prod # "CANCELLED"
      BY <3>3 DEF Active
    <3>5. line[l].sent /\ l \in Present(line)
      BY <3>0, <3>4 DEF Batch, Present
    <3>6. stage(l) = line[l].prod
      BY <1>1, <2>2, <3>0, <3>5
    <3> QED BY <1>1, <2>2, <3>0, <3>1, <3>4, <3>5, <3>6 DEF Inv, ReadyIsReady
  <2> QED BY <2>1, <2>2
<1> QED BY <1>5, <1>7, <1>8, <1>9, <1>10 DEF Inv

\* A station or the waiter reports on lines; which ones are sent, cancelled or how many
\* does not change.
Reported(ls) ==
  /\ ls \in [Lines -> LineType]
  /\ \A l \in Lines : /\ ls[l].qty = line[l].qty /\ ls[l].sent = line[l].sent
                      /\ ls[l].prod = "CANCELLED" <=> line[l].prod = "CANCELLED"

LEMMA ReportKeeps ==
  ASSUME Inv, NEW ls, Reported(ls), line' = ls, UNCHANGED <<tickets, strayed>>, posted' \in BOOLEAN,
         consumed' \in [Lines -> Nat], status' # "none",
         status' \in {"HELD", "OPEN", "CANCELLED"} => status' = status
  PROVE  KitchenType' /\ TicketInv' /\ LineInv'
<1>1. UNCHANGED <<told, original, strayed>>
  BY DEF tickets
<1>2. KitchenType'
  BY <1>1 DEF Inv, KitchenType, Reported
<1>3. ASSUME NEW l \in Lines
      PROVE  /\ Due(l)' = Due(l) /\ line'[l].sent = line[l].sent
             /\ line'[l].prod = "CANCELLED" <=> line[l].prod = "CANCELLED"
  BY DEF Due, Reported
<1>4. TicketInv'
  <2> SUFFICES ASSUME NEW l \in Routed \ strayed
               PROVE  /\ told[l] = Due(l)' /\ (status' = "CANCELLED" => Due(l)' = 0)
                      /\ ~line'[l].sent => line'[l].prod # "CANCELLED"
    BY <1>1 DEF TicketInv
  <2>0. l \in Lines
    BY DEF Routed
  <2>1. told[l] = Due(l) /\ (status = "CANCELLED" => Due(l) = 0) /\ (~line[l].sent => line[l].prod # "CANCELLED")
    BY DEF Inv, TicketInv
  <2> QED BY <1>3, <2>0, <2>1
<1>5. LineInv'
  <2>1. ASSUME NEW l \in Lines, line'[l].sent PROVE line'[l].qty > 0
    <3>1. line[l].sent /\ line'[l].qty = line[l].qty
      BY <2>1 DEF Reported
    <3> QED BY <3>1 DEF Inv, LineInv
  <2> QED BY <1>1, <2>1 DEF Inv, LineInv
<1> QED BY <1>2, <1>4, <1>5

LEMMA Posts ==
  ASSUME Inv, NEW ls \in [Lines -> LineType], \A l \in Lines : ls[l].qty = line[l].qty,
         line' = ls \/ line' = line, Post(ls), UNCHANGED late, status' # "none"
  PROVE  StockInv' /\ posted' \in BOOLEAN /\ consumed' \in [Lines -> Nat]
<1>1. \A l \in Lines : line'[l].qty = line[l].qty /\ ls[l].qty \in Nat /\ consumed[l] \in Nat
  BY DEF LineType, Inv, KitchenType
<1>2. CASE posted
  <2>1. UNCHANGED consumed /\ posted'
    BY <1>2 DEF Post
  <2> QED BY <1>1, <1>2, <2>1 DEF Inv, StockInv, KitchenType, Post
<1>3. CASE ~posted
  <2>1. posted' = TRUE /\ consumed' = [l \in Lines |-> consumed[l] + ls[l].qty]
    BY <1>3 DEF Post
  <2>2. \A l \in Lines : consumed[l] = 0
    BY <1>3 DEF Inv, StockInv
  <2>3. consumed' \in [Lines -> Nat] /\ \A l \in Lines : consumed'[l] = line'[l].qty
    BY <1>1, <2>1, <2>2
  <2> QED BY <2>1, <2>3 DEF StockInv
<1> QED BY <1>2, <1>3

LEMMA NothingPosted ==
  ASSUME Inv, \A l \in Lines : line'[l].qty = line[l].qty, UNCHANGED <<stock, late>>, status' # "none",
         status' \in {"SERVED", "PAID"} => status' = status
  PROVE  StockInv' /\ posted' \in BOOLEAN /\ consumed' \in [Lines -> Nat]
  BY DEF Inv, StockInv, KitchenType, stock

\* What an order is shown as is what its stations reported.
LEMMA Summarises ==
  ASSUME Inv, NEW ls, Reported(ls), line' = ls, UNCHANGED strayed, status' = Summarised(ls)
  PROVE  /\ ReadyIsReady'
         /\ status' = status \/ status' \in {"SERVED", "READY", "IN_PROGRESS", "SENT_TO_KITCHEN"}
         /\ status' = "SERVED" => Summary(ls) = "SERVED"
<1> DEFINE stages == {ls[l].prod : l \in Present(ls) \intersect Routed} \ {"CANCELLED"}
<1>1. Summary(ls) = IF stages = {} THEN status
                    ELSE IF stages = {"SERVED"} THEN "SERVED"
                    ELSE IF stages \subseteq {"READY", "SERVED"} THEN "READY"
                    ELSE IF "PREPARING" \in stages THEN "IN_PROGRESS" ELSE "SENT_TO_KITCHEN"
  BY DEF Summary
<1>2. ASSUME NEW l \in Routed, ls[l].sent, ls[l].prod # "CANCELLED" PROVE ls[l].prod \in stages
  <2>1. l \in Lines
    BY DEF Routed
  <2>2. line[l].sent /\ ls[l].qty = line[l].qty
    BY <1>2, <2>1 DEF Reported
  <2>3. l \in Present(ls)
    BY <2>1, <2>2 DEF Present, Inv, LineInv
  <2> QED BY <1>2, <2>3
<1> HIDE DEF stages
<1>3. ReadyIsReady'
  <2> SUFFICES ASSUME NEW l \in Routed, l \notin strayed, ls[l].sent, ls[l].prod # "CANCELLED"
               PROVE  /\ status' = "READY" => ls[l].prod \in {"READY", "SERVED"}
                      /\ status' = "SERVED" => ls[l].prod = "SERVED"
    BY DEF ReadyIsReady
  <2>1. ls[l].prod \in stages /\ stages # {}
    BY <1>2
  <2>2. CASE status \in Billed \cup {"PAID"}
    BY <2>2 DEF Summarised, Billed
  <2>3. CASE status \notin Billed \cup {"PAID"}
    <3>1. status' = Summary(ls)
      BY <2>3 DEF Summarised
    <3> QED BY <1>1, <2>1, <3>1
  <2> QED BY <2>2, <2>3
<1>4. status' = status \/ status' \in {"SERVED", "READY", "IN_PROGRESS", "SENT_TO_KITCHEN"}
  BY <1>1 DEF Summarised
<1>5. status' = "SERVED" => Summary(ls) = "SERVED"
  BY DEF Summarised, Billed
<1> QED BY <1>3, <1>4, <1>5

\* A line with another production status is otherwise the same.
LEMMA Restaged ==
  ASSUME NEW x \in LineType, NEW p \in Stages
  PROVE  /\ [x EXCEPT !.prod = p] \in LineType /\ [x EXCEPT !.prod = p].qty = x.qty
         /\ [x EXCEPT !.prod = p].sent = x.sent /\ [x EXCEPT !.prod = p].prod = p /\ p # "CANCELLED"
  BY DEF LineType, Stages

LEMMA StagesReported ==
  ASSUME Inv, NEW S \in SUBSET Lines, NEW p \in Stages, \A l \in S : line[l].prod # "CANCELLED"
  PROVE  Reported([l \in Lines |-> IF l \in S THEN [line[l] EXCEPT !.prod = p] ELSE line[l]])
<1> DEFINE ls == [l \in Lines |-> IF l \in S THEN [line[l] EXCEPT !.prod = p] ELSE line[l]]
<1>1. ASSUME NEW l \in Lines
      PROVE  /\ ls[l] \in LineType /\ ls[l].qty = line[l].qty /\ ls[l].sent = line[l].sent
             /\ ls[l].prod = "CANCELLED" <=> line[l].prod = "CANCELLED"
  <2>0. line[l] \in LineType
    BY DEF Inv, KitchenType
  <2>1. CASE l \in S
    <3>1. ls[l] = [line[l] EXCEPT !.prod = p]
      BY <2>1
    <3> HIDE DEF ls
    <3> QED BY <2>0, <2>1, <3>1, Restaged
  <2>2. CASE l \notin S
    BY <2>0, <2>2
  <2> QED BY <2>1, <2>2
<1>2. ls \in [Lines -> LineType]
  BY <1>1
<1> HIDE DEF ls
<1>3. Reported(ls)
  BY <1>1, <1>2 DEF Reported
<1> QED BY <1>3 DEF ls

LEMMA SetProductionInv ==
  ASSUME Inv, NEW station, NEW target \in Stages, SetProductionStationStatus(station, target)
  PROVE  Inv'
<1> DEFINE behind == {l \in Working(station) : Rank[line[l].prod] < Rank[target]}
           ls == [l \in Lines |-> IF l \in behind THEN [line[l] EXCEPT !.prod = target] ELSE line[l]]
<1>1. /\ status \notin {"none", "CANCELLED"} /\ line' = ls /\ status' = Summarised(ls)
      /\ (IF Summary(ls) = "SERVED" THEN Post(ls) ELSE UNCHANGED stock)
      /\ UNCHANGED <<tickets, strayed>> /\ UNCHANGED late
  BY DEF SetProductionStationStatus
<1>2. Reported(ls)
  <2>1. behind \in SUBSET Lines /\ \A l \in behind : line[l].prod # "CANCELLED"
    BY DEF Working, Present
  <2> HIDE DEF behind
  <2> QED BY <2>1, StagesReported
<1> HIDE DEF ls, behind
<1>3. /\ ReadyIsReady' /\ (status' = "SERVED" => Summary(ls) = "SERVED")
      /\ status' = status \/ status' \in {"SERVED", "READY", "IN_PROGRESS", "SENT_TO_KITCHEN"}
  BY <1>1, <1>2, Summarises
<1>4. ls \in [Lines -> LineType] /\ \A l \in Lines : ls[l].qty = line[l].qty
  BY <1>2 DEF Reported
<1>5. StockInv' /\ posted' \in BOOLEAN /\ consumed' \in [Lines -> Nat]
  <2>0. status' # "none"
    BY <1>1, <1>3
  <2>1. CASE Summary(ls) = "SERVED"
    <3>1. Post(ls)
      BY <1>1, <2>1
    <3> QED BY <1>1, <1>4, <2>0, <3>1, Posts
  <2>2. CASE Summary(ls) # "SERVED"
    <3>1. UNCHANGED <<stock, late>> /\ status' # "SERVED"
      BY <1>1, <1>3, <2>2
    <3>2. status' \in {"SERVED", "PAID"} => status' = status
      BY <1>3, <3>1
    <3>3. \A l \in Lines : line'[l].qty = line[l].qty
      BY <1>1, <1>4
    <3> QED BY <2>0, <3>1, <3>2, <3>3, NothingPosted
  <2> QED BY <2>1, <2>2
<1>6. status' # "none" /\ (status' \in {"HELD", "OPEN", "CANCELLED"} => status' = status)
  BY <1>1, <1>3
<1>7. KitchenType' /\ TicketInv' /\ LineInv'
  BY <1>1, <1>2, <1>5, <1>6, ReportKeeps
<1> QED BY <1>3, <1>5, <1>7 DEF Inv

LEMMA RecallInv ==
  ASSUME Inv, NEW station \in Stations, RecallProductionStation(station) PROVE Inv'
<1> DEFINE back == {l \in Working(station) : line[l].prod = "READY"}
           ls == [l \in Lines |-> IF l \in back THEN [line[l] EXCEPT !.prod = "PREPARING"] ELSE line[l]]
<1>1. /\ status \notin {"none", "CANCELLED"} /\ back # {} /\ line' = ls /\ status' = Summarised(ls)
      /\ UNCHANGED <<tickets, strayed>> /\ UNCHANGED <<stock, late>>
  BY DEF RecallProductionStation
<1>2. Reported(ls)
  <2>1. back \in SUBSET Lines /\ (\A l \in back : line[l].prod # "CANCELLED") /\ "PREPARING" \in Stages
    BY DEF Working, Present, Stages
  <2> HIDE DEF back
  <2> QED BY <2>1, StagesReported
<1>3. PICK b \in Present(line) \cap Routed : ls[b].prod = "PREPARING" /\ ls[b].qty = line[b].qty
  <2>1. PICK b \in Working(station) : line[b].prod = "READY"
    BY <1>1
  <2>2. b \in Present(line) /\ b \in Lines /\ StationOf[b] = station
    BY <2>1 DEF Working, Present
  <2>3. b \in Routed
    BY <2>2 DEF Stations, Routed
  <2>4. ls[b] = [line[b] EXCEPT !.prod = "PREPARING"] /\ line[b] \in LineType
    BY <2>1, <2>2 DEF Inv, KitchenType
  <2>5. ls[b].prod = "PREPARING"
    <3> HIDE DEF ls
    <3> QED BY <2>4 DEF LineType
  <2> QED BY <1>2, <2>2, <2>3, <2>5 DEF Reported
<1> HIDE DEF ls, back
<1>4. /\ ReadyIsReady' /\ (status' = "SERVED" => Summary(ls) = "SERVED")
      /\ status' = status \/ status' \in {"SERVED", "READY", "IN_PROGRESS", "SENT_TO_KITCHEN"}
  BY <1>1, <1>2, Summarises
<1>5. status' # "SERVED"
  <2>1. b \in Present(ls)
    BY <1>3 DEF Present
  <2>2. "PREPARING" \in {ls[l].prod : l \in Present(ls) \intersect Routed} \ {"CANCELLED"}
    BY <1>3, <2>1
  <2>3. Summary(ls) # "SERVED"
    BY <2>2 DEF Summary
  <2> QED BY <1>4, <2>3
<1>6. status' # "none" /\ (status' \in {"HELD", "OPEN", "CANCELLED"} => status' = status)
  BY <1>1, <1>4
<1>7. StockInv' /\ posted' \in BOOLEAN /\ consumed' \in [Lines -> Nat]
  <2>1. \A l \in Lines : line'[l].qty = line[l].qty
    BY <1>1, <1>2 DEF Reported
  <2>2. status' \in {"SERVED", "PAID"} => status' = status
    BY <1>4, <1>5
  <2> QED BY <1>1, <1>6, <2>1, <2>2, NothingPosted
<1>8. KitchenType' /\ TicketInv' /\ LineInv'
  BY <1>1, <1>2, <1>6, <1>7, ReportKeeps
<1> QED BY <1>4, <1>7, <1>8 DEF Inv

LEMMA MarkServedInv == ASSUME Inv, MarkOrderServed PROVE Inv'
<1> DEFINE S == {l \in Present(line) \intersect Routed : line[l].prod # "CANCELLED"}
           ls == [l \in Lines |-> IF l \in S THEN [line[l] EXCEPT !.prod = "SERVED"] ELSE line[l]]
<1>1. /\ status' = "SERVED" /\ line' = ls /\ Post(line) /\ UNCHANGED <<tickets, strayed>> /\ UNCHANGED late
  BY DEF MarkOrderServed
<1>2. Reported(ls)
  <2>1. S \in SUBSET Lines /\ (\A l \in S : line[l].prod # "CANCELLED") /\ "SERVED" \in Stages
    BY DEF Present, Stages
  <2> HIDE DEF S
  <2> QED BY <2>1, StagesReported
<1>3. \A l \in S : ls[l].prod = "SERVED"
  <2>1. ASSUME NEW l \in S PROVE ls[l].prod = "SERVED"
    <3>1. ls[l] = [line[l] EXCEPT !.prod = "SERVED"] /\ line[l] \in LineType
      BY DEF Inv, KitchenType, Present
    <3> HIDE DEF ls
    <3> QED BY <3>1 DEF LineType
  <2> QED BY <2>1
<1> HIDE DEF ls
<1>4. ReadyIsReady'
  <2> SUFFICES ASSUME NEW l \in Routed \ strayed, ls[l].sent, ls[l].prod # "CANCELLED"
               PROVE  ls[l].prod = "SERVED"
    BY <1>1 DEF ReadyIsReady
  <2>0. l \in Lines
    BY DEF Routed
  <2>1. line[l].sent /\ line[l].prod # "CANCELLED"
    BY <1>2, <2>0 DEF Reported
  <2>2. l \in S
    BY <2>0, <2>1 DEF Present, Inv, LineInv
  <2> QED BY <1>3, <2>2
<1>5. StockInv' /\ posted' \in BOOLEAN /\ consumed' \in [Lines -> Nat]
  <2>1. Post(ls)
    <3>1. \A l \in Lines : ls[l].qty = line[l].qty
      BY <1>2 DEF Reported
    <3> QED BY <1>1, <3>1 DEF Post
  <2> QED BY <1>1, <1>2, <2>1, Posts DEF Reported
<1>6. KitchenType' /\ TicketInv' /\ LineInv'
  BY <1>1, <1>2, <1>5, ReportKeeps
<1> QED BY <1>4, <1>5, <1>6 DEF Inv

LEMMA ApplyPaymentInv == ASSUME Inv, NEW full \in BOOLEAN, ApplyPayment(full) PROVE Inv'
<1>1. /\ line' = line /\ status' = (IF full THEN "PAID" ELSE "PARTIALLY_PAID")
      /\ (IF full THEN Post(line) ELSE UNCHANGED stock) /\ UNCHANGED <<tickets, strayed>> /\ UNCHANGED late
  BY DEF ApplyPayment
<1>2. Reported(line) /\ line \in [Lines -> LineType]
  BY DEF Reported, Inv, KitchenType
<1>3. StockInv' /\ posted' \in BOOLEAN /\ consumed' \in [Lines -> Nat]
  <2>1. CASE full
    BY <1>1, <1>2, <2>1, Posts
  <2>2. CASE ~full
    BY <1>1, <2>2, NothingPosted
  <2> QED BY <2>1, <2>2
<1>4. KitchenType' /\ TicketInv' /\ LineInv'
  BY <1>1, <1>2, <1>3, ReportKeeps
<1>5. ReadyIsReady'
  BY <1>1 DEF ReadyIsReady
<1> QED BY <1>3, <1>4, <1>5 DEF Inv

LEMMA CancelInv == ASSUME Inv, CancelOrder PROVE Inv'
<1> DEFINE active == {l \in Lines : Active(l) > 0}
           dropped == IF status \in InKitchen THEN active ELSE {}
<1>1. /\ status' = "CANCELLED"
      /\ line' = [l \in Lines |-> IF l \in dropped THEN [line[l] EXCEPT !.prod = "CANCELLED"] ELSE line[l]]
      /\ told' = [l \in Lines |-> told[l] - (IF l \in dropped \intersect Routed THEN line[l].qty ELSE 0)]
      /\ strayed' = strayed \union {l \in active : line[l].sent # (l \in dropped)}
      /\ UNCHANGED <<original, stock, late>>
  BY DEF CancelOrder
<1>2. ASSUME NEW l \in Lines
      PROVE  /\ line[l] \in LineType /\ line'[l] \in LineType /\ told[l] \in Int
             /\ line'[l].qty = line[l].qty /\ line'[l].sent = line[l].sent
             /\ line'[l].prod = IF l \in dropped THEN "CANCELLED" ELSE line[l].prod
  <2>0. line[l] \in LineType /\ told[l] \in Int
    BY DEF Inv, KitchenType
  <2>1. CASE l \in dropped
    <3>1. line'[l] = [line[l] EXCEPT !.prod = "CANCELLED"]
      BY <1>1, <2>1
    <3> HIDE DEF dropped
    <3> QED BY <2>0, <2>1, <3>1 DEF LineType
  <2>2. CASE l \notin dropped
    <3>1. line'[l] = line[l]
      BY <1>1, <2>2
    <3> HIDE DEF dropped
    <3> QED BY <2>0, <2>2, <3>1
  <2> QED BY <2>1, <2>2
<1>3. dropped \subseteq active /\ active \subseteq Lines
  OBVIOUS
<1>4. KitchenType'
  <2>1. line' \in [Lines -> LineType]
    BY <1>1, <1>2
  <2>2. told' \in [Lines -> Int]
    <3>1. \A l \in Lines : line[l].qty \in Int /\ told[l] \in Int
      BY <1>2 DEF LineType
    <3> HIDE DEF dropped
    <3> QED BY <1>1, <3>1
  <2> QED BY <1>1, <2>1, <2>2 DEF Inv, KitchenType, stock
<1> HIDE DEF dropped
<1>5. TicketInv'
  <2> SUFFICES ASSUME NEW l \in Routed \ strayed'
               PROVE  told'[l] = 0 /\ Due(l)' = 0 /\ (~line'[l].sent => line'[l].prod # "CANCELLED")
    BY <1>1 DEF TicketInv
  <2>0. l \in Lines /\ l \in Routed \ strayed /\ (l \in active => (line[l].sent <=> l \in dropped))
    <3>1. l \in Lines /\ l \in Routed \ strayed
      BY <1>1 DEF Routed
    <3>2. l \in active => line[l].sent = (l \in dropped)
      BY <1>1
    <3> QED BY <3>1, <3>2
  <2>1. /\ told[l] = Due(l) /\ (~line[l].sent => line[l].prod # "CANCELLED")
        /\ line[l].qty \in Nat /\ told[l] \in Int
    BY <1>2, <2>0 DEF Inv, TicketInv, LineType
  <2>2. told'[l] = told[l] - (IF l \in dropped THEN line[l].qty ELSE 0)
    BY <1>1, <2>0
  <2>3. CASE l \in dropped
    <3>1. line[l].sent /\ line[l].prod # "CANCELLED"
      <4>1. l \in active
        BY <1>3, <2>3
      <4> QED BY <2>0, <2>3, <4>1 DEF Active
    <3>2. told[l] = line[l].qty
      BY <2>1, <3>1 DEF Due
    <3>3. told'[l] = 0
      BY <2>1, <2>2, <2>3, <3>2
    <3>4. line'[l].prod = "CANCELLED" /\ line'[l].sent
      BY <1>2, <2>0, <2>3, <3>1
    <3> QED BY <3>3, <3>4 DEF Due
  <2>4. CASE l \notin dropped
    <3>1. ~line[l].sent \/ line[l].qty = 0 \/ line[l].prod = "CANCELLED"
      <4>1. ASSUME line[l].sent PROVE ~ (Active(l) > 0)
        BY <2>0, <2>4, <4>1
      <4> QED BY <2>1, <4>1 DEF Active
    <3>2. Due(l) = 0
      BY <3>1 DEF Due
    <3>3. Due(l)' = Due(l)
      BY <1>2, <2>0, <2>4 DEF Due
    <3>4. told'[l] = told[l]
      BY <2>1, <2>2, <2>4
    <3>5. ~line'[l].sent => line'[l].prod # "CANCELLED"
      BY <1>2, <2>0, <2>1, <2>4
    <3> QED BY <2>1, <3>2, <3>3, <3>4, <3>5
  <2> QED BY <2>3, <2>4
<1>6. LineInv'
  <2>1. ASSUME NEW l \in Lines, line'[l].sent PROVE line'[l].qty > 0
    <3>1. line[l].sent /\ line'[l].qty = line[l].qty
      BY <1>2, <2>1
    <3> QED BY <3>1 DEF Inv, LineInv
  <2> QED BY <1>1, <2>1 DEF LineInv
<1>7. StockInv'
  <2>1. \A l \in Lines : line'[l].qty = line[l].qty
    BY <1>2
  <2> QED BY <1>1, <2>1, NothingPosted
<1>8. ReadyIsReady'
  BY <1>1 DEF ReadyIsReady
<1> QED BY <1>4, <1>5, <1>6, <1>7, <1>8 DEF Inv

-----------------------------------------------------------------------------
(* The theorems                                                              *)

LEMMA InvInit == ASSUME Init PROVE Inv
<1>1. \A l \in Lines : line[l] = NoLine /\ told[l] = 0 /\ consumed[l] = 0
  BY DEF Init
<1>2. KitchenType
  <2>1. line \in [Lines -> LineType]
    BY NoLineType DEF Init
  <2>2. told \in [Lines -> Int] /\ consumed \in [Lines -> Nat]
    BY DEF Init
  <2>3. posted \in BOOLEAN
    BY DEF Init
  <2> QED BY <2>1, <2>2, <2>3 DEF KitchenType
<1>3. TicketInv
  BY <1>1, NoLineType DEF Init, TicketInv, Due, Routed
<1>4. LineInv
  BY <1>1, NoLineType DEF Init, LineInv
<1>5. StockInv
  BY <1>1 DEF Init, StockInv
<1>6. ReadyIsReady
  BY DEF Init, ReadyIsReady
<1> QED BY <1>2, <1>3, <1>4, <1>5, <1>6 DEF Inv

LEMMA InvNext == ASSUME Inv, [Next]_vars PROVE Inv'
<1>1. CASE UNCHANGED vars
  <2>1. UNCHANGED <<status, line, original, told, posted, consumed, strayed, late>>
    BY <1>1 DEF vars, tickets, stock
  <2> QED BY <2>1 DEF Inv, KitchenType, TicketInv, LineInv, StockInv, ReadyIsReady, Due
<1>2. ASSUME NEW d \in Drafts, NEW held \in BOOLEAN, CreateOrder(d, held) \/ CreateGuestOrder(d, held)
      PROVE  Inv'
  BY <1>2, CreateInv
<1>3. CASE ReleaseHeldOrder \/ SendToKitchen \/ MarkOrderServed \/ RequestBill(line) \/ CancelOrder
  BY <1>3, ReleaseInv, SendInv, MarkServedInv, RequestBillInv, SameIsRedraft, CancelInv
<1>4. ASSUME NEW d \in Drafts, UpdateOrderDraft(d) \/ UpsertAndSendKitchen(d) \/ RequestBillWithDraft(d)
      PROVE  Inv'
  BY <1>4, UpdateDraftInv, UpsertInv, RequestBillInv, RedraftedIsRedraft DEF RequestBillWithDraft
<1>5. ASSUME NEW d \in Drafts, NEW reworded \in SUBSET Lines,
             NEW unmarked \in SUBSET {l \in Lines : line[l].prod # "NEW"},
             AmendKitchenOrder(d, reworded, unmarked)
      PROVE  Inv'
  BY <1>5, AmendInv
<1>6. ASSUME NEW station \in Stations, NEW target \in Stages, SetProductionStationStatus(station, target)
      PROVE  Inv'
  BY <1>6, SetProductionInv
<1>7. ASSUME NEW station \in Stations, RecallProductionStation(station) PROVE Inv'
  BY <1>7, RecallInv
<1>8. ASSUME NEW full \in BOOLEAN, ApplyPayment(full) PROVE Inv'
  BY <1>8, ApplyPaymentInv
<1> QED BY <1>1, <1>2, <1>3, <1>4, <1>5, <1>6, <1>7, <1>8 DEF Next

LEMMA InvAlways == Spec => []Inv
<1>1. Init => Inv
  BY InvInit
<1>2. Inv /\ [Next]_vars => Inv'
  BY InvNext
<1> QED BY <1>1, <1>2, PTL DEF Spec

\* Over any number of drafts, batches, amendments, cancellations and payments, what the
\* tickets tell the stations to make of a line, less what amendments took off, is what
\* the order has sent of it; but for the lines of strayed.
THEOREM TicketsMatchTheOrder == Spec => []KitchenKnows
<1>1. ASSUME Inv PROVE KitchenKnows
  <2> SUFFICES ASSUME NEW l \in Routed \ strayed PROVE told[l] = ToMake(l)
    BY DEF KitchenKnows
  <2>1. told[l] = Due(l) /\ (status = "CANCELLED" => Due(l) = 0)
    BY <1>1 DEF Inv, TicketInv
  <2> QED BY <2>1 DEF Due, ToMake
<1>2. Inv => KitchenKnows
  BY <1>1
<1> QED BY <1>2, InvAlways, PTL

\* No order is shown READY or SERVED before the stations reported it of every line sent,
\* whatever is added, recalled, amended or billed in between.
THEOREM StatusFollowsTheStations == Spec => []ReadyIsReady
<1>1. Inv => ReadyIsReady
  BY DEF Inv
<1> QED BY <1>1, InvAlways, PTL

\* A station that serves the last line, the waiter and the payment may each end the
\* order, in any order: the stock is deducted by the first of them, and by no other.
THEOREM RecipesAreDeductedOnce == Spec => []StockDeductedOnce
<1>1. Inv => StockDeductedOnce
  BY DEF Inv, StockInv, StockDeductedOnce
<1> QED BY <1>1, InvAlways, PTL
==============================================================================
