------------------------- MODULE KitchenPrintProofs -------------------------
(* Proofs about KitchenPrint, for any number of tickets, claims, retries and    *)
(* crashes, and any printers.                                                   *)
EXTENDS KitchenPrint, FiniteSetTheorems, TLAPS

TicketType == [status : Status, token : {0} \cup Tokens, reviewed : BOOLEAN,
               retries : Nat, confirmed : BOOLEAN, parent : SUBSET Tickets]
ClientAt   == {"none", "claimed", "submitting", "BRIDGE_ACCEPTED", "UNCERTAIN", "gone"}
ClientType == [ticket : SUBSET Tickets, at : ClientAt, shown : BOOLEAN]
GrantType  == [attempt : {-1} \cup Slots, recovery : {0} \cup Tokens]
JobType    == [stage : Stages, recovery : {0} \cup Tokens, auth : {0} \cup Tokens,
               used : SUBSET Tokens, queued : 0..3]
Tasks      == {"none", "verify", "primary", "fallback", "SUBMITTED", "NOT_SENT", "UNCERTAIN"}

PrintType ==
  /\ ticket \in [Tickets -> TicketType]
  /\ client \in [Tokens -> ClientType]
  /\ grant \in [Tokens -> GrantType]
  /\ slots \in [Tickets -> SUBSET Slots]
  /\ job \in [Tickets -> JobType]
  /\ rows \in Seq(Tickets)
  /\ task \in [Tickets -> Tasks]
  /\ up \in BOOLEAN
  /\ paper \in [Tickets -> Nat]
  /\ faults \in Nat

\* The ledger: what a job was signed with, what it has a task for, which rows it has.
LedgerOf(o) ==
  /\ job[o].stage = "none" => job[o] = NoJob
  /\ job[o].stage # "none" => job[o].auth \in Tokens
  /\ up => (job[o].stage = "TRANSMITTING" <=> task[o] # "none")
  /\ task[o] # "none" => up
  /\ task[o] = "fallback" => FallbackOf[o] # {}
LedgerInv == (\A o \in Tickets : LedgerOf(o)) /\ Range(rows) = {o \in Tickets : job[o] # NoJob}

\* Two tasks share no lane.
LanesInv == \A o, p \in Tickets :
  o # p /\ task[o] # "none" /\ task[p] # "none" => LanesOf(o) \cap LanesOf(p) = {}

\* A claim belongs to the device that has its token, and is granted a delivery once.
ClaimsInv ==
  /\ \A t \in Tokens : client[t].at \in {"none", "claimed"} => grant[t] = None /\ ~ client[t].shown
  /\ \A o \in Tickets :
       /\ ticket[o].status = "CLAIMED" =>
            /\ ticket[o].token \in Tokens
            /\ client[ticket[o].token].ticket = {o} /\ client[ticket[o].token].at # "none"
       /\ ticket[o].status = "absent" => ticket[o].retries = 0

\* Whether a delivery of the ticket may still be reserved, or is being sent.
MayReserve(o) ==
  \/ ticket[o].status \in {"absent", "PENDING"}
  \/ ticket[o].status = "CLAIMED" /\ grant[ticket[o].token].attempt \notin slots[o]
Sending(o) == task[o] \in {"primary", "fallback"}

\* Attempts that are used up cover the paper there is and the one a task is about to
\* make; a manager's decisions cover the attempts, the one still to come included.
SlotsOf(o) ==
  /\ paper[o] <= Cardinality(slots[o]) /\ (Sending(o) => paper[o] + 1 <= Cardinality(slots[o]))
  /\ Cardinality(slots[o]) <= 1 + ticket[o].retries
  /\ MayReserve(o) => Cardinality(slots[o]) <= ticket[o].retries
SlotsInv == \A o \in Tickets : SlotsOf(o)

\* What is said to be printed was printed, or else shown.
PaperOfJobs == \A o \in Tickets : (job[o].stage = "SUBMITTED" \/ task[o] = "SUBMITTED") => paper[o] > 0
PaperToldOf == \A t \in Tokens, o \in Tickets :
  client[t].ticket = {o} /\ client[t].at = "BRIDGE_ACCEPTED" => paper[o] > 0 \/ client[t].shown
PaperInv == PaperOfJobs /\ PaperToldOf

Inv == PrintType /\ LedgerInv /\ LanesInv /\ ClaimsInv /\ SlotsInv /\ PaperInv /\ AcceptedIsSubmitted

-----------------------------------------------------------------------------
(* Sets of attempts                                                          *)

LEMMA SlotCount ==
  ASSUME NEW S \in SUBSET Slots
  PROVE  /\ IsFiniteSet(S) /\ Cardinality(S) \in Nat
         /\ \A i \in Slots \ S : Cardinality(S \cup {i}) = Cardinality(S) + 1
<1>1. IsFiniteSet(Slots)
  <2>1. 0 \in Int /\ 2 \in Int
    OBVIOUS
  <2>2. IsFiniteSet(0..2)
    BY ONLY FS_Interval, <2>1, Zenon
  <2> QED BY <2>2 DEF Slots
<1>2. IsFiniteSet(S)
  BY <1>1, FS_Subset
<1>3. Cardinality(S) \in Nat
  BY <1>2, FS_CardinalityType
<1>4. ASSUME NEW i \in Slots \ S PROVE Cardinality(S \cup {i}) = Cardinality(S) + 1
  BY <1>2, FS_AddElement
<1> QED BY <1>2, <1>3, <1>4

LEMMA Empties == NoJob \in JobType /\ Absent \in TicketType /\ None \in GrantType
<1>1. NoJob \in JobType
  BY DEF NoJob, JobType, Stages
<1>2. Absent \in TicketType
  BY DEF Absent, TicketType, Status
<1>3. None \in GrantType
  BY DEF None, GrantType
<1> QED BY <1>1, <1>2, <1>3

-----------------------------------------------------------------------------
(* The runner                                                                *)

\* What pump leaves: a job and its task are as they were, or a queued job without a
\* task has one now.
LEMMA PumpFacts ==
  ASSUME NEW j \in [Tickets -> JobType], NEW k \in [Tickets -> Tasks], NEW rs \in Seq(Tickets),
         Pumped(j, k, rs)
  PROVE  /\ job' \in [Tickets -> JobType] /\ task' \in [Tickets -> Tasks] /\ rows' = rs
         /\ \A o \in Tickets :
              \/ job'[o] = j[o] /\ task'[o] = k[o]
              \/ /\ j[o].stage = "QUEUED" /\ k[o] = "none"
                 /\ job'[o] = [j[o] EXCEPT !.stage = "TRANSMITTING"] /\ task'[o] = "verify"
         /\ (\A o, p \in Tickets :
               o # p /\ k[o] # "none" /\ k[p] # "none" => LanesOf(o) \cap LanesOf(p) = {})
            => LanesInv'
<1>1. PICK S \in SUBSET Tickets :
        /\ Started(S, j, k, rs)
        /\ job'  = [o \in Tickets |-> IF o \in S THEN [j[o] EXCEPT !.stage = "TRANSMITTING"] ELSE j[o]]
        /\ task' = [o \in Tickets |-> IF o \in S THEN "verify" ELSE k[o]]
        /\ rows' = rs
  BY DEF Pumped
<1>2. ASSUME NEW o \in Tickets
      PROVE  /\ [j[o] EXCEPT !.stage = "TRANSMITTING"] \in JobType
             /\ job'[o] = IF o \in S THEN [j[o] EXCEPT !.stage = "TRANSMITTING"] ELSE j[o]
             /\ task'[o] = IF o \in S THEN "verify" ELSE k[o]
  <2>1. "TRANSMITTING" \in Stages
    BY DEF Stages
  <2>2. j[o] \in JobType
    OBVIOUS
  <2>3. [j[o] EXCEPT !.stage = "TRANSMITTING"] \in JobType
    BY <2>1, <2>2 DEF JobType
  <2> QED BY <1>1, <2>3
<1>3. job' \in [Tickets -> JobType]
  BY <1>1, <1>2
<1>4. task' \in [Tickets -> Tasks]
  BY <1>1 DEF Tasks
<1>5. ASSUME NEW o \in S
      PROVE  /\ o \in Range(rs) /\ j[o].stage = "QUEUED"
             /\ \A p \in Tickets : (k[p] # "none" \/ (p \in S /\ Older(p, o, rs)))
                                     => LanesOf(o) \cap LanesOf(p) = {}
  BY <1>1 DEF Started
<1>6. ASSUME NEW o \in Tickets PROVE LanesOf(o) # {}
  BY DEF LanesOf
<1>7. ASSUME NEW o \in S PROVE k[o] = "none"
  <2>1. LanesOf(o) \cap LanesOf(o) # {}
    BY <1>6
  <2> QED BY <1>5, <2>1
<1>8. ASSUME NEW o \in Tickets
      PROVE  \/ job'[o] = j[o] /\ task'[o] = k[o]
             \/ /\ j[o].stage = "QUEUED" /\ k[o] = "none"
                /\ job'[o] = [j[o] EXCEPT !.stage = "TRANSMITTING"] /\ task'[o] = "verify"
  BY <1>2, <1>5, <1>7
<1>9. ASSUME \A o, p \in Tickets :
               o # p /\ k[o] # "none" /\ k[p] # "none" => LanesOf(o) \cap LanesOf(p) = {},
             NEW o \in Tickets, NEW p \in Tickets, o # p, task'[o] # "none", task'[p] # "none"
      PROVE  LanesOf(o) \cap LanesOf(p) = {}
  <2>1. CASE o \notin S /\ p \notin S
    BY <1>2, <1>9, <2>1
  <2>2. CASE o \in S /\ p \notin S
    BY <1>2, <1>5, <1>9, <2>2
  <2>3. CASE o \notin S /\ p \in S
    BY <1>2, <1>5, <1>9, <2>3
  <2>4. CASE o \in S /\ p \in S
    <3>1. Older(p, o, rs) \/ Older(o, p, rs)
      <4>1. PICK a, b \in DOMAIN rs : rs[a] = o /\ rs[b] = p
        BY <1>5, <2>4 DEF Range
      <4>2. a \in Nat /\ b \in Nat /\ a # b
        BY <4>1, <1>9
      <4> QED BY <4>1, <4>2 DEF Older
    <3> QED BY <1>5, <2>4, <3>1
  <2> QED BY <2>1, <2>2, <2>3, <2>4
<1>10. (\A o, p \in Tickets :
          o # p /\ k[o] # "none" /\ k[p] # "none" => LanesOf(o) \cap LanesOf(p) = {}) => LanesInv'
  <2>1. SUFFICES ASSUME \A o, p \in Tickets :
                          o # p /\ k[o] # "none" /\ k[p] # "none" => LanesOf(o) \cap LanesOf(p) = {}
                 PROVE  LanesInv'
    OBVIOUS
  <2>2. \A o, p \in Tickets : o # p /\ task'[o] # "none" /\ task'[p] # "none" => LanesOf(o) \cap LanesOf(p) = {}
    BY <1>9, <2>1
  <2> QED BY <2>2 DEF LanesInv, LanesOf
<1> QED BY <1>1, <1>3, <1>4, <1>8, <1>10

\* The ledger is in order after pump when what pump was given is.
LEMMA PumpLedger ==
  ASSUME NEW j \in [Tickets -> JobType], NEW k \in [Tickets -> Tasks], NEW rs \in Seq(Tickets),
         Pumped(j, k, rs), up',
         \A o \in Tickets :
           /\ j[o].stage = "none" => j[o] = NoJob
           /\ j[o].stage # "none" => j[o].auth \in Tokens
           /\ j[o].stage = "TRANSMITTING" <=> k[o] # "none"
           /\ k[o] = "fallback" => FallbackOf[o] # {},
         Range(rs) = {o \in Tickets : j[o] # NoJob}
  PROVE  LedgerInv'
<1>1. /\ rows' = rs
      /\ \A o \in Tickets :
           \/ job'[o] = j[o] /\ task'[o] = k[o]
           \/ /\ j[o].stage = "QUEUED" /\ k[o] = "none"
              /\ job'[o] = [j[o] EXCEPT !.stage = "TRANSMITTING"] /\ task'[o] = "verify"
  <2>1. Pumped(j, k, rs)
    OBVIOUS
  <2> QED BY ONLY <2>1, PumpFacts, j \in [Tickets -> JobType], k \in [Tickets -> Tasks], rs \in Seq(Tickets)
<1>2. NoJob.stage = "none"
  BY DEF NoJob
<1>3. ASSUME NEW o \in Tickets PROVE LedgerOf(o)' /\ (job'[o] # NoJob <=> j[o] # NoJob)
  <2>1. CASE job'[o] = j[o] /\ task'[o] = k[o]
    BY <2>1 DEF LedgerOf
  <2>2. CASE /\ j[o].stage = "QUEUED" /\ k[o] = "none"
             /\ job'[o] = [j[o] EXCEPT !.stage = "TRANSMITTING"] /\ task'[o] = "verify"
    <3>1. j[o] \in JobType
      OBVIOUS
    <3>2. job'[o].stage = "TRANSMITTING" /\ job'[o].auth = j[o].auth
      BY <2>2, <3>1 DEF JobType
    <3> QED BY <1>2, <2>2, <3>2 DEF LedgerOf
  <2> QED BY <1>1, <2>1, <2>2
<1>4. Range(rows') = {o \in Tickets : job'[o] # NoJob}
  BY <1>1, <1>3
<1> QED BY <1>3, <1>4 DEF LedgerInv

-----------------------------------------------------------------------------
(* Frames                                                                    *)

LEMMA KeepBridge ==
  ASSUME LedgerInv, LanesInv, UNCHANGED bridge
  PROVE  LedgerInv' /\ LanesInv'
<1>1. UNCHANGED <<job, rows, task, up>>
  BY DEF bridge
<1>2. LedgerInv'
  BY <1>1 DEF LedgerInv, LedgerOf
<1>3. LanesInv'
  BY <1>1 DEF LanesInv, LanesOf
<1> QED BY <1>2, <1>3

\* What is on the display stays there.
LEMMA DisplayKept ==
  ASSUME \A t \in Tokens : client[t].shown => client'[t].ticket = client[t].ticket /\ client'[t].shown
  PROVE  \A o \in Tickets : OnDisplay(o) => OnDisplay(o)'
  BY DEF OnDisplay

\* A device that had a claim says something else.
LEMMA Retold ==
  ASSUME PrintType, ClaimsInv, PaperToldOf, NEW t \in Tokens, NEW y \in ClientType,
         client' = [client EXCEPT ![t] = y], UNCHANGED <<ticket, grant, paper>>,
         client[t].at # "none", y.ticket = client[t].ticket, y.at \notin {"none", "claimed"},
         \A o \in Tickets : y.ticket = {o} /\ y.at = "BRIDGE_ACCEPTED" => paper[o] > 0 \/ y.shown,
         client[t].shown => y.shown
  PROVE  /\ client' \in [Tokens -> ClientType] /\ ClaimsInv' /\ PaperToldOf'
         /\ \A o \in Tickets : OnDisplay(o) => OnDisplay(o)'
<1>1. client' \in [Tokens -> ClientType]
  BY DEF PrintType
<1>2. \A s \in Tokens : client'[s] = IF s = t THEN y ELSE client[s]
  BY DEF PrintType
<1>3. ClaimsInv'
  <2>1. ASSUME NEW s \in Tokens PROVE (client[s].at \in {"none", "claimed"} => grant[s] = None /\ ~ client[s].shown)'
    BY <1>2 DEF ClaimsInv
  <2>2. ASSUME NEW o \in Tickets
        PROVE  (/\ ticket[o].status = "CLAIMED" =>
                     /\ ticket[o].token \in Tokens
                     /\ client[ticket[o].token].ticket = {o} /\ client[ticket[o].token].at # "none"
                /\ ticket[o].status = "absent" => ticket[o].retries = 0)'
    BY <1>2 DEF ClaimsInv
  <2> QED BY <2>1, <2>2 DEF ClaimsInv
<1>4. PaperToldOf'
  BY <1>2 DEF PaperToldOf
<1>5. \A o \in Tickets : OnDisplay(o) => OnDisplay(o)'
  BY <1>2, DisplayKept
<1> QED BY <1>1, <1>3, <1>4, <1>5

\* An obligation is decided about: the attempts stay covered.
LEMMA Decided ==
  ASSUME PrintType, SlotsInv, NEW o \in Tickets, NEW x \in TicketType,
         ticket' = [ticket EXCEPT ![o] = x], UNCHANGED <<grant, slots, task, paper>>,
         x.retries >= ticket[o].retries,
         MayReserve(o)' => MayReserve(o) \/ x.retries > ticket[o].retries
  PROVE  ticket' \in [Tickets -> TicketType] /\ SlotsInv'
<1>1. ticket' \in [Tickets -> TicketType] /\ ticket'[o] = x
  BY DEF PrintType
<1>2. \A p \in Tickets : p # o => ticket'[p] = ticket[p]
  BY DEF PrintType
<1>3. ASSUME NEW p \in Tickets PROVE SlotsOf(p)'
  <2>0. Cardinality(slots[p]) \in Nat /\ paper[p] \in Nat
    BY SlotCount DEF PrintType
  <2>1. CASE p # o
    <3>1. MayReserve(p)' = MayReserve(p) /\ Sending(p)' = Sending(p)
      BY <1>2, <2>1 DEF MayReserve, Sending
    <3> QED BY <1>2, <2>1, <3>1 DEF SlotsInv, SlotsOf
  <2>2. CASE p = o
    <3>1. x.retries \in Nat /\ ticket[o].retries \in Nat
      BY DEF PrintType, TicketType
    <3>2. Sending(o)' = Sending(o)
      BY DEF Sending
    <3>3. SlotsOf(o)
      BY DEF SlotsInv
    <3>4. /\ paper'[o] <= Cardinality(slots'[o])
          /\ (Sending(o)' => paper'[o] + 1 <= Cardinality(slots'[o]))
      BY <3>2, <3>3 DEF SlotsOf
    <3>5. Cardinality(slots'[o]) <= 1 + ticket'[o].retries
      BY <1>1, <2>0, <2>2, <3>1, <3>3 DEF SlotsOf
    <3>6. ASSUME MayReserve(o)' PROVE Cardinality(slots'[o]) <= ticket'[o].retries
      <4>1. CASE MayReserve(o)
        BY <1>1, <2>0, <2>2, <3>1, <3>3, <4>1 DEF SlotsOf
      <4>2. CASE x.retries > ticket[o].retries
        BY <1>1, <2>0, <2>2, <3>1, <3>3, <4>2 DEF SlotsOf
      <4> QED BY <3>6, <4>1, <4>2
    <3> QED BY <2>2, <3>4, <3>5, <3>6 DEF SlotsOf
  <2> QED BY <2>1, <2>2
<1> QED BY <1>1, <1>3 DEF SlotsInv

-----------------------------------------------------------------------------
(* The server's commands                                                     *)

LEMMA QueueInv == ASSUME Inv, NEW o \in Tickets, Queue(o) PROVE Inv'
<1>1. PICK s \in {"PENDING", "BYPASSED"} : ticket' = [ticket EXCEPT ![o].status = s]
  BY DEF Queue
<1> DEFINE x == [ticket[o] EXCEPT !.status = s]
<1>2. /\ x \in TicketType /\ x.status = s /\ x.retries = ticket[o].retries
      /\ ticket' = [ticket EXCEPT ![o] = x]
  <2>1. ticket[o] \in TicketType /\ s \in Status
    BY <1>1 DEF Inv, PrintType, Status
  <2> QED BY <1>1, <2>1 DEF TicketType
<1> HIDE DEF x
<1>3. ticket[o].status = "absent" /\ UNCHANGED <<client, grant, slots, bridge, paper, faults, job, task, rows, up>>
  BY DEF Queue, bridge
<1>4. ticket' \in [Tickets -> TicketType] /\ SlotsInv'
  <2>1. MayReserve(o)
    BY <1>3 DEF MayReserve
  <2>2. x.retries >= ticket[o].retries
    BY <1>2 DEF Inv, PrintType, TicketType
  <2> QED BY <1>2, <1>3, <2>1, <2>2, Decided DEF Inv
<1>5. \A p \in Tickets : ticket'[p] = IF p = o THEN x ELSE ticket[p]
  BY <1>2 DEF Inv, PrintType
<1>6. PrintType'
  BY <1>3, <1>4 DEF Inv, PrintType
<1>7. LedgerInv' /\ LanesInv'
  BY <1>3, KeepBridge DEF Inv
<1>8. ClaimsInv'
  BY <1>1, <1>2, <1>3, <1>5 DEF Inv, ClaimsInv
<1>9. PaperInv' /\ AcceptedIsSubmitted'
  BY <1>1, <1>2, <1>3, <1>5 DEF Inv, PaperInv, PaperOfJobs, PaperToldOf, AcceptedIsSubmitted, OnDisplay
<1> QED BY <1>4, <1>6, <1>7, <1>8, <1>9 DEF Inv

LEMMA ClaimInv == ASSUME Inv, NEW o \in Tickets, NEW t \in Tokens, Claim(o, t) PROVE Inv'
<1> DEFINE x == [ticket[o] EXCEPT !.status = "CLAIMED", !.token = t]
<1>1. /\ x \in TicketType /\ x.status = "CLAIMED" /\ x.retries = ticket[o].retries /\ x.token = t
      /\ ticket' = [ticket EXCEPT ![o] = x]
  <2>1. ticket[o] \in TicketType /\ "CLAIMED" \in Status
    BY DEF Inv, PrintType, Status
  <2> QED BY <2>1 DEF TicketType, Claim
<1> HIDE DEF x
<1>2. /\ ticket[o].status = "PENDING" /\ client[t].at = "none"
      /\ UNCHANGED <<grant, slots, bridge, paper, faults, job, task, rows, up>>
  BY DEF Claim, bridge
<1> DEFINE y == [client[t] EXCEPT !.ticket = {o}, !.at = "claimed"]
<1>3. /\ y \in ClientType /\ y.ticket = {o} /\ y.at = "claimed" /\ y.shown = client[t].shown
      /\ client' = [client EXCEPT ![t] = y]
  <2>1. client[t] \in ClientType
    BY DEF Inv, PrintType
  <2> QED BY <2>1 DEF ClientType, ClientAt, Claim
<1> HIDE DEF y
<1>4. ticket' \in [Tickets -> TicketType] /\ SlotsInv'
  <2>1. MayReserve(o)
    BY <1>2 DEF MayReserve
  <2>2. x.retries >= ticket[o].retries
    BY <1>1 DEF Inv, PrintType, TicketType
  <2> QED BY <1>1, <1>2, <2>1, <2>2, Decided DEF Inv
<1>5. \A p \in Tickets : ticket'[p] = IF p = o THEN x ELSE ticket[p]
  BY <1>1 DEF Inv, PrintType
<1>6. \A s \in Tokens : client'[s] = IF s = t THEN y ELSE client[s]
  BY <1>3 DEF Inv, PrintType
<1>7. PrintType'
  BY <1>2, <1>3, <1>4 DEF Inv, PrintType
<1>8. LedgerInv' /\ LanesInv'
  BY <1>2, KeepBridge DEF Inv
<1>9. ClaimsInv'
  <2>1. ASSUME NEW s \in Tokens PROVE (client[s].at \in {"none", "claimed"} => grant[s] = None /\ ~ client[s].shown)'
    BY <1>2, <1>3, <1>6 DEF Inv, ClaimsInv
  <2>2. ASSUME NEW p \in Tickets
        PROVE  (/\ ticket[p].status = "CLAIMED" =>
                     /\ ticket[p].token \in Tokens
                     /\ client[ticket[p].token].ticket = {p} /\ client[ticket[p].token].at # "none"
                /\ ticket[p].status = "absent" => ticket[p].retries = 0)'
    BY <1>1, <1>2, <1>3, <1>5, <1>6 DEF Inv, ClaimsInv
  <2> QED BY <2>1, <2>2 DEF ClaimsInv
<1>10. PaperInv'
  BY <1>2, <1>3, <1>6 DEF Inv, PaperInv, PaperOfJobs, PaperToldOf
<1>11. AcceptedIsSubmitted'
  <2>1. \A s \in Tokens : client[s].shown => s # t
    BY <1>2 DEF Inv, ClaimsInv
  <2>2. \A p \in Tickets : OnDisplay(p) => OnDisplay(p)'
    BY <1>6, <2>1, DisplayKept
  <2> QED BY <1>1, <1>2, <1>5, <2>2 DEF Inv, AcceptedIsSubmitted
<1> QED BY <1>4, <1>7, <1>8, <1>9, <1>10, <1>11 DEF Inv

LEMMA SettleInv == ASSUME Inv, NEW o \in Tickets, NEW t \in Tokens, Settle(o, t) PROVE Inv'
<1> DEFINE x == IF Claims(o, t) THEN [ticket[o] EXCEPT !.status = client[t].at] ELSE ticket[o]
<1>1. /\ client[t].ticket = {o} /\ client[t].at \in {"BRIDGE_ACCEPTED", "UNCERTAIN"}
      /\ UNCHANGED <<grant, slots, bridge, paper, faults, job, task, rows, up>>
  BY DEF Settle, At, bridge
<1>2. /\ x \in TicketType /\ ticket' = [ticket EXCEPT ![o] = x]
      /\ x.retries = ticket[o].retries /\ x.token = ticket[o].token /\ x.confirmed = ticket[o].confirmed
      /\ x.status = ticket[o].status \/ x.status = client[t].at
  <2>1. ticket[o] \in TicketType /\ client[t].at \in Status /\ ticket = [ticket EXCEPT ![o] = ticket[o]]
    BY <1>1 DEF Inv, PrintType, Status
  <2> QED BY <2>1 DEF TicketType, Settle
<1> HIDE DEF x
<1> DEFINE y == [client[t] EXCEPT !.at = "gone"]
<1>3. /\ y \in ClientType /\ y.ticket = client[t].ticket /\ y.at = "gone" /\ y.shown = client[t].shown
      /\ client' = [client EXCEPT ![t] = y]
  <2>1. client[t] \in ClientType
    BY DEF Inv, PrintType
  <2> QED BY <2>1 DEF ClientType, ClientAt, Settle
<1> HIDE DEF y
<1>4. \A p \in Tickets : ticket'[p] = IF p = o THEN x ELSE ticket[p]
  BY <1>2 DEF Inv, PrintType
<1>5. \A s \in Tokens : client'[s] = IF s = t THEN y ELSE client[s]
  BY <1>3 DEF Inv, PrintType
<1>6. ticket' \in [Tickets -> TicketType] /\ SlotsInv'
  <2>1. MayReserve(o)' => MayReserve(o)
    BY <1>1, <1>2, <1>4 DEF MayReserve
  <2>2. x.retries >= ticket[o].retries
    BY <1>2 DEF Inv, PrintType, TicketType
  <2> QED BY <1>1, <1>2, <2>1, <2>2, Decided DEF Inv
<1>7. PrintType'
  BY <1>1, <1>3, <1>6 DEF Inv, PrintType
<1>8. LedgerInv' /\ LanesInv'
  BY <1>1, KeepBridge DEF Inv
<1>9. ClaimsInv'
  <2>1. ASSUME NEW s \in Tokens PROVE (client[s].at \in {"none", "claimed"} => grant[s] = None /\ ~ client[s].shown)'
    BY <1>1, <1>3, <1>5 DEF Inv, ClaimsInv
  <2>2. ASSUME NEW p \in Tickets
        PROVE  (/\ ticket[p].status = "CLAIMED" =>
                     /\ ticket[p].token \in Tokens
                     /\ client[ticket[p].token].ticket = {p} /\ client[ticket[p].token].at # "none"
                /\ ticket[p].status = "absent" => ticket[p].retries = 0)'
    <3>1. /\ ticket'[p].token = ticket[p].token /\ ticket'[p].retries = ticket[p].retries
          /\ ticket'[p].status \in {"CLAIMED", "absent"} => ticket'[p].status = ticket[p].status
      BY <1>1, <1>2, <1>4
    <3>2. \A s \in Tokens : /\ client'[s].ticket = client[s].ticket
                            /\ client[s].at # "none" => client'[s].at # "none"
      BY <1>3, <1>5
    <3>3. /\ ticket[p].status = "CLAIMED" =>
               /\ ticket[p].token \in Tokens
               /\ client[ticket[p].token].ticket = {p} /\ client[ticket[p].token].at # "none"
          /\ ticket[p].status = "absent" => ticket[p].retries = 0
      BY DEF Inv, ClaimsInv
    <3> QED BY <3>1, <3>2, <3>3
  <2> QED BY <2>1, <2>2 DEF ClaimsInv
<1>10. PaperInv'
  BY <1>1, <1>3, <1>5 DEF Inv, PaperInv, PaperOfJobs, PaperToldOf
<1>11. AcceptedIsSubmitted'
  <2>1. \A p \in Tickets : OnDisplay(p) => OnDisplay(p)'
    BY <1>3, <1>5, DisplayKept
  <2>2. client[t].at = "BRIDGE_ACCEPTED" => paper[o] > 0 \/ OnDisplay(o)
    BY <1>1 DEF Inv, PaperInv, PaperToldOf, OnDisplay
  <2> QED BY <1>1, <1>2, <1>4, <2>1, <2>2 DEF Inv, AcceptedIsSubmitted
<1> QED BY <1>6, <1>7, <1>8, <1>9, <1>10, <1>11 DEF Inv

\* A manager's decision, or a reprint: the status of a ticket without an active claim
\* afterwards.
LEMMA Reviewed ==
  ASSUME Inv, NEW o \in Tickets, NEW x \in TicketType, ticket' = [ticket EXCEPT ![o] = x],
         UNCHANGED <<client, grant, slots, bridge, paper, faults>>,
         x.status \in {"PENDING", "BRIDGE_ACCEPTED"}, x.retries >= ticket[o].retries,
         MayReserve(o)' => MayReserve(o) \/ x.retries > ticket[o].retries,
         x.status = "BRIDGE_ACCEPTED" => x.confirmed
  PROVE  Inv'
<1>1. UNCHANGED <<grant, slots, task, paper>>
  BY DEF bridge
<1>2. ticket' \in [Tickets -> TicketType] /\ SlotsInv'
  BY <1>1, Decided DEF Inv
<1>3. \A p \in Tickets : ticket'[p] = IF p = o THEN x ELSE ticket[p]
  BY DEF Inv, PrintType
<1>4. PrintType'
  BY <1>2 DEF Inv, PrintType, bridge
<1>5. LedgerInv' /\ LanesInv'
  BY KeepBridge DEF Inv
<1>6. ClaimsInv'
  BY <1>3 DEF Inv, ClaimsInv
<1>7. PaperInv'
  BY DEF Inv, PaperInv, PaperOfJobs, PaperToldOf, bridge
<1>8. AcceptedIsSubmitted'
  BY <1>3 DEF Inv, AcceptedIsSubmitted, OnDisplay
<1> QED BY <1>2, <1>4, <1>5, <1>6, <1>7, <1>8 DEF Inv

LEMMA ReviewRetryInv == ASSUME Inv, NEW o \in Tickets, ReviewRetry(o) PROVE Inv'
<1> DEFINE x == [ticket[o] EXCEPT !.status = "PENDING", !.token = 0, !.reviewed = TRUE, !.retries = @ + 1]
<1>1. ticket[o] \in TicketType /\ "PENDING" \in Status /\ ticket[o].retries \in Nat
  BY DEF Inv, PrintType, Status, TicketType
<1>2. /\ x \in TicketType /\ ticket' = [ticket EXCEPT ![o] = x]
      /\ x.status = "PENDING" /\ x.retries = ticket[o].retries + 1
  <2> DEFINE n == ticket[o].retries + 1
  <2>1. n \in Nat
    BY <1>1
  <2>2. /\ x = [ticket[o] EXCEPT !.status = "PENDING", !.token = 0, !.reviewed = TRUE, !.retries = n]
        /\ ticket' = [ticket EXCEPT ![o] = x]
    BY <1>1 DEF ReviewRetry, TicketType
  <2> HIDE DEF n, x
  <2>3. x \in TicketType /\ x.status = "PENDING" /\ x.retries = n
    BY <1>1, <2>1, <2>2 DEF TicketType
  <2> QED BY <2>2, <2>3 DEF n
<1>3. UNCHANGED <<client, grant, slots, bridge, paper, faults>>
  BY DEF ReviewRetry
<1> HIDE DEF x
<1>4. x.retries >= ticket[o].retries /\ x.retries > ticket[o].retries
  BY <1>1, <1>2
<1>5. x.status \in {"PENDING", "BRIDGE_ACCEPTED"} /\ x.status # "BRIDGE_ACCEPTED"
  BY <1>2
<1> QED BY <1>2, <1>3, <1>4, <1>5, Reviewed

LEMMA ReviewConfirmInv == ASSUME Inv, NEW o \in Tickets, ReviewConfirm(o) PROVE Inv'
<1> DEFINE x == [ticket[o] EXCEPT !.status = "BRIDGE_ACCEPTED", !.reviewed = TRUE, !.confirmed = TRUE]
<1>1. ticket[o] \in TicketType /\ "BRIDGE_ACCEPTED" \in Status /\ ticket[o].retries \in Nat
  BY DEF Inv, PrintType, Status, TicketType
<1>2. /\ x \in TicketType /\ ticket' = [ticket EXCEPT ![o] = x]
      /\ x.status = "BRIDGE_ACCEPTED" /\ x.retries = ticket[o].retries /\ x.confirmed
  BY <1>1 DEF TicketType, ReviewConfirm
<1>3. UNCHANGED <<client, grant, slots, bridge, paper, faults>>
  BY DEF ReviewConfirm
<1> HIDE DEF x
<1>4. x.retries >= ticket[o].retries
  BY <1>1, <1>2
<1>5. x.status \in {"PENDING", "BRIDGE_ACCEPTED"}
  BY <1>2
<1>6. ~ MayReserve(o)'
  <2>1. ticket'[o] = x
    BY <1>2 DEF Inv, PrintType
  <2> QED BY <1>2, <2>1 DEF MayReserve
<1> QED BY <1>2, <1>3, <1>4, <1>5, <1>6, Reviewed

LEMMA RequestReprintInv ==
  ASSUME Inv, NEW o \in Tickets, NEW copy \in Tickets, RequestReprint(o, copy) PROVE Inv'
<1> DEFINE x == [Absent EXCEPT !.status = "PENDING", !.reviewed = TRUE, !.parent = {o}]
<1>1. /\ x \in TicketType /\ ticket' = [ticket EXCEPT ![copy] = x]
      /\ x.status = "PENDING" /\ x.retries = 0
  <2>1. Absent \in TicketType /\ "PENDING" \in Status
    BY Empties DEF Status
  <2>2. Absent.retries = 0
    BY DEF Absent
  <2> QED BY <2>1, <2>2 DEF TicketType, RequestReprint
<1>2. UNCHANGED <<client, grant, slots, bridge, paper, faults>> /\ ticket[copy].status = "absent"
  BY DEF RequestReprint
<1> HIDE DEF x
<1>3. x.retries >= ticket[copy].retries
  BY <1>1, <1>2 DEF Inv, ClaimsInv
<1>4. MayReserve(copy)
  BY <1>2 DEF MayReserve
<1>5. x.status \in {"PENDING", "BRIDGE_ACCEPTED"} /\ x.status # "BRIDGE_ACCEPTED"
  BY <1>1
<1> QED BY <1>1, <1>2, <1>3, <1>4, <1>5, Reviewed

-----------------------------------------------------------------------------
(* The device                                                                *)

LEMMA AuthorizeInv == ASSUME Inv, NEW o \in Tickets, NEW t \in Tokens, Authorize(o, t) PROVE Inv'
<1> DEFINE g == [attempt |-> Attempt(o), recovery |-> IF ticket[o].reviewed THEN t ELSE 0]
<1>1. g \in GrantType /\ grant' = [grant EXCEPT ![t] = g]
  BY DEF Authorize, GrantType
<1>2. /\ client[t].ticket = {o} /\ client[t].at = "claimed" /\ Claims(o, t)
      /\ UNCHANGED <<ticket, slots, bridge, paper, faults, job, task, rows, up>>
  BY DEF Authorize, At, bridge
<1> HIDE DEF g
<1> DEFINE y == [client[t] EXCEPT !.at = "submitting"]
<1>3. /\ y \in ClientType /\ y.ticket = {o} /\ y.at = "submitting" /\ y.shown = client[t].shown
      /\ client' = [client EXCEPT ![t] = y]
  <2>1. client[t] \in ClientType
    BY DEF Inv, PrintType
  <2> QED BY <1>2, <2>1 DEF ClientType, ClientAt, Authorize
<1> HIDE DEF y
<1>4. \A s \in Tokens : client'[s] = IF s = t THEN y ELSE client[s]
  BY <1>3 DEF Inv, PrintType
<1>5. \A s \in Tokens : grant'[s] = IF s = t THEN g ELSE grant[s]
  BY <1>1 DEF Inv, PrintType
<1>6. PrintType'
  BY <1>1, <1>2, <1>3 DEF Inv, PrintType
<1>7. LedgerInv' /\ LanesInv'
  BY <1>2, KeepBridge DEF Inv
<1>8. ClaimsInv'
  <2>1. ASSUME NEW s \in Tokens PROVE (client[s].at \in {"none", "claimed"} => grant[s] = None /\ ~ client[s].shown)'
    BY <1>3, <1>4, <1>5 DEF Inv, ClaimsInv
  <2>2. ASSUME NEW p \in Tickets
        PROVE  (/\ ticket[p].status = "CLAIMED" =>
                     /\ ticket[p].token \in Tokens
                     /\ client[ticket[p].token].ticket = {p} /\ client[ticket[p].token].at # "none"
                /\ ticket[p].status = "absent" => ticket[p].retries = 0)'
    BY <1>2, <1>3, <1>4 DEF Inv, ClaimsInv
  <2> QED BY <2>1, <2>2 DEF ClaimsInv
<1>9. ASSUME NEW p \in Tickets PROVE SlotsOf(p)'
  <2>1. MayReserve(p)' => MayReserve(p)
    <3>1. CASE p = o
      <4>1. grant[t].attempt = -1
        BY <1>2 DEF Inv, ClaimsInv, None
      <4>2. -1 \notin slots[o]
        <5>1. slots[o] \subseteq Slots
          BY DEF Inv, PrintType
        <5>2. -1 \notin Slots
          BY DEF Slots
        <5> QED BY <5>1, <5>2
      <4> QED BY <1>2, <3>1, <4>1, <4>2 DEF MayReserve, Claims
    <3>2. CASE p # o
      <4>1. ticket[p].status = "CLAIMED" => ticket[p].token # t
        BY <1>2, <3>2 DEF Inv, ClaimsInv
      <4>2. ticket[p].status = "CLAIMED" => ticket[p].token \in Tokens
        BY DEF Inv, ClaimsInv
      <4> QED BY <1>2, <1>5, <4>1, <4>2 DEF MayReserve
    <3> QED BY <3>1, <3>2
  <2>2. Sending(p)' = Sending(p)
    BY <1>2 DEF Sending
  <2>3. SlotsOf(p)
    BY DEF Inv, SlotsInv
  <2> QED BY <1>2, <2>1, <2>2, <2>3 DEF SlotsOf
<1>10. PaperInv'
  BY <1>2, <1>3, <1>4 DEF Inv, PaperInv, PaperOfJobs, PaperToldOf
<1>11. AcceptedIsSubmitted'
  <2>1. \A p \in Tickets : OnDisplay(p) => OnDisplay(p)'
    BY <1>2, <1>3, <1>4, DisplayKept
  <2> QED BY <1>2, <2>1 DEF Inv, AcceptedIsSubmitted
<1> QED BY <1>6, <1>7, <1>8, <1>9, <1>10, <1>11 DEF Inv, SlotsInv

LEMMA DisplayInv == ASSUME Inv, NEW o \in Tickets, NEW t \in Tokens, Display(o, t) PROVE Inv'
<1>1. /\ client[t].at = "claimed"
      /\ client' = [client EXCEPT ![t].at = "BRIDGE_ACCEPTED", ![t].shown = TRUE]
      /\ UNCHANGED <<ticket, grant, slots, bridge, paper, faults, job, task, rows, up>>
  BY DEF Display, At, server, bridge
<1> DEFINE y == [client[t] EXCEPT !.at = "BRIDGE_ACCEPTED", !.shown = TRUE]
<1>2. /\ y \in ClientType /\ y.ticket = client[t].ticket /\ y.at = "BRIDGE_ACCEPTED" /\ y.shown
      /\ client' = [client EXCEPT ![t] = y]
  <2>1. client[t] \in ClientType /\ "BRIDGE_ACCEPTED" \in ClientAt
    BY DEF Inv, PrintType, ClientAt
  <2> QED BY <1>1, <2>1 DEF ClientType
<1> HIDE DEF y
<1>3. /\ client' \in [Tokens -> ClientType] /\ ClaimsInv' /\ PaperToldOf'
      /\ \A p \in Tickets : OnDisplay(p) => OnDisplay(p)'
  <2>1. y.at \notin {"none", "claimed"} /\ client[t].at # "none"
    BY <1>1, <1>2
  <2> QED BY <1>1, <1>2, <2>1, Retold DEF Inv, PaperInv
<1>4. PrintType'
  BY <1>1, <1>3 DEF Inv, PrintType
<1>5. LedgerInv' /\ LanesInv'
  BY <1>1, KeepBridge DEF Inv
<1>6. SlotsInv' /\ PaperOfJobs'
  BY <1>1 DEF Inv, SlotsInv, SlotsOf, MayReserve, Sending, PaperInv, PaperOfJobs
<1>7. AcceptedIsSubmitted'
  BY <1>1, <1>3 DEF Inv, AcceptedIsSubmitted
<1> QED BY <1>3, <1>4, <1>5, <1>6, <1>7 DEF Inv, PaperInv

\* GiveUp and Close.
LEMMA LeaveInv ==
  ASSUME Inv, NEW o \in Tickets, NEW t \in Tokens, GiveUp(o, t) \/ Close(o, t) PROVE Inv'
<1>1. PICK s \in {"UNCERTAIN", "gone"} : client' = [client EXCEPT ![t].at = s]
  BY DEF GiveUp, Close
<1>2. client[t].at # "none" /\ UNCHANGED <<server, bridge, paper, faults>>
  BY DEF GiveUp, Close, At
<1>3. UNCHANGED <<ticket, grant, slots, bridge, paper, faults, job, task, rows, up>>
  BY <1>2 DEF server, bridge
<1> DEFINE y == [client[t] EXCEPT !.at = s]
<1>4. /\ y \in ClientType /\ y.ticket = client[t].ticket /\ y.at = s /\ y.shown = client[t].shown
      /\ client' = [client EXCEPT ![t] = y]
  <2>1. client[t] \in ClientType /\ s \in ClientAt
    BY <1>1 DEF Inv, PrintType, ClientAt
  <2> QED BY <1>1, <2>1 DEF ClientType
<1> HIDE DEF y
<1>5. y.at \notin {"none", "claimed"} /\ y.at # "BRIDGE_ACCEPTED"
  BY <1>1, <1>4
<1>6. /\ client' \in [Tokens -> ClientType] /\ ClaimsInv' /\ PaperToldOf'
      /\ \A p \in Tickets : OnDisplay(p) => OnDisplay(p)'
  BY <1>2, <1>3, <1>4, <1>5, Retold DEF Inv, PaperInv
<1>7. PrintType'
  BY <1>3, <1>6 DEF Inv, PrintType
<1>8. LedgerInv' /\ LanesInv'
  BY <1>3, KeepBridge DEF Inv
<1>9. SlotsInv' /\ PaperOfJobs'
  BY <1>3 DEF Inv, SlotsInv, SlotsOf, MayReserve, Sending, PaperInv, PaperOfJobs
<1>10. AcceptedIsSubmitted'
  BY <1>3, <1>6 DEF Inv, AcceptedIsSubmitted
<1> QED BY <1>6, <1>7, <1>8, <1>9, <1>10 DEF Inv, PaperInv

-----------------------------------------------------------------------------
(* The bridge                                                                *)

LEMMA KeepSlots ==
  ASSUME SlotsInv, UNCHANGED <<ticket, grant, slots, paper>>,
         \A o \in Tickets : Sending(o)' => Sending(o)
  PROVE  SlotsInv'
<1>1. ASSUME NEW o \in Tickets PROVE SlotsOf(o)'
  <2>1. SlotsOf(o) /\ MayReserve(o)' = MayReserve(o)
    BY DEF SlotsInv, MayReserve
  <2> QED BY <2>1 DEF SlotsOf
<1> QED BY <1>1 DEF SlotsInv

\* What a submission that is not refused makes of the job.
LEMMA EnqueuedFacts ==
  ASSUME Inv, up, NEW o \in Tickets, NEW t \in Tokens, ~ RetryRefused(o, t)
  PROVE  /\ Enqueued(o, t) \in JobType /\ Enqueued(o, t).stage # "none" /\ Enqueued(o, t).auth \in Tokens
         /\ Enqueued(o, t).stage = "TRANSMITTING" <=> task[o] # "none"
         /\ Enqueued(o, t).stage = "SUBMITTED" => job[o].stage = "SUBMITTED"
<1> DEFINE r == grant[t].recovery
<1>1. r \in {0} \cup Tokens /\ job[o] \in JobType
  BY DEF Inv, PrintType, GrantType
<1> HIDE DEF r
<1>2. /\ LedgerOf(o) /\ "QUEUED" \in Stages /\ NoJob \in JobType /\ NoJob.stage = "none"
      /\ 0 \notin Tokens
  <2>1. LedgerOf(o)
    BY DEF Inv, LedgerInv
  <2>2. 0 \notin Tokens
    BY KitchenPrintAssumption DEF Tokens
  <2> QED BY <2>1, <2>2, Empties DEF Stages, NoJob
<1>3. CASE job[o] = NoJob
  <2> DEFINE u == IF r = 0 THEN {} ELSE {r}
  <2>1. Enqueued(o, t) = [NoJob EXCEPT !.stage = "QUEUED", !.recovery = r, !.auth = t, !.queued = 1, !.used = u]
    BY <1>3 DEF Enqueued, r, NoJob
  <2>2. u \in SUBSET Tokens /\ 1 \in 0..3
    <3>1. u \in SUBSET Tokens
      BY <1>1
    <3>2. 1 \in 0..3
      OBVIOUS
    <3> QED BY <3>1, <3>2
  <2> HIDE DEF u
  <2>3. Enqueued(o, t) \in JobType /\ Enqueued(o, t).stage = "QUEUED" /\ Enqueued(o, t).auth = t
    BY <1>1, <1>2, <2>1, <2>2 DEF JobType
  <2>4. task[o] = "none"
    BY <1>2, <1>3 DEF LedgerOf
  <2> QED BY <2>3, <2>4
<1>4. CASE job[o] # NoJob /\ r # 0 /\ job[o].stage \in {"NOT_SENT", "UNCERTAIN"} /\ job[o].recovery # r
  <2> DEFINE u == job[o].used \cup {r}
             n == job[o].queued + 1
  <2>1. Enqueued(o, t) = [job[o] EXCEPT !.stage = "QUEUED", !.recovery = r, !.auth = t, !.used = u, !.queued = n]
    BY <1>4 DEF Enqueued, r
  <2>2. Enqueued(o, t).recovery = r
    BY <1>1, <2>1 DEF JobType
  <2>3. ~ (job[o].queued >= 3)
    BY <1>4, <2>2 DEF RetryRefused, r
  <2>4. u \in SUBSET Tokens /\ n \in 0..3
    <3>1. job[o].used \in SUBSET Tokens /\ job[o].queued \in 0..3
      BY <1>1 DEF JobType
    <3>2. u \in SUBSET Tokens
      BY <1>1, <1>4, <3>1
    <3>3. n \in 0..3
      BY <2>3, <3>1
    <3> QED BY <3>2, <3>3
  <2> HIDE DEF u, n
  <2>5. Enqueued(o, t) \in JobType /\ Enqueued(o, t).stage = "QUEUED" /\ Enqueued(o, t).auth = t
    BY <1>1, <1>2, <2>1, <2>4 DEF JobType
  <2>6. task[o] = "none"
    BY <1>2, <1>4 DEF LedgerOf
  <2> QED BY <2>5, <2>6
<1>5. CASE job[o] # NoJob /\ ~ (r # 0 /\ job[o].stage \in {"NOT_SENT", "UNCERTAIN"} /\ job[o].recovery # r)
  <2>1. Enqueued(o, t) = job[o]
    BY <1>5 DEF Enqueued, r
  <2> QED BY <1>1, <1>2, <1>5, <2>1 DEF LedgerOf
<1> QED BY <1>3, <1>4, <1>5

LEMMA SubmitRefusedInv ==
  ASSUME Inv, NEW o \in Tickets, NEW t \in Tokens, Submit(o, t), RetryRefused(o, t) PROVE Inv'
<1>1. /\ client[t].at = "submitting" /\ client' = [client EXCEPT ![t].at = "UNCERTAIN"]
      /\ UNCHANGED <<ticket, grant, slots, bridge, paper, faults, job, task, rows, up>>
  BY DEF Submit, At, server, bridge
<1> DEFINE y == [client[t] EXCEPT !.at = "UNCERTAIN"]
<1>2. /\ y \in ClientType /\ y.ticket = client[t].ticket /\ y.at = "UNCERTAIN" /\ y.shown = client[t].shown
      /\ client' = [client EXCEPT ![t] = y]
  <2>1. client[t] \in ClientType /\ "UNCERTAIN" \in ClientAt
    BY DEF Inv, PrintType, ClientAt
  <2> QED BY <1>1, <2>1 DEF ClientType
<1> HIDE DEF y
<1>3. /\ client' \in [Tokens -> ClientType] /\ ClaimsInv' /\ PaperToldOf'
      /\ \A p \in Tickets : OnDisplay(p) => OnDisplay(p)'
  BY <1>1, <1>2, Retold DEF Inv, PaperInv
<1>4. PrintType'
  BY <1>1, <1>3 DEF Inv, PrintType
<1>5. LedgerInv' /\ LanesInv'
  BY <1>1, KeepBridge DEF Inv
<1>6. SlotsInv' /\ PaperOfJobs'
  BY <1>1 DEF Inv, SlotsInv, SlotsOf, MayReserve, Sending, PaperInv, PaperOfJobs
<1>7. AcceptedIsSubmitted'
  BY <1>1, <1>3 DEF Inv, AcceptedIsSubmitted
<1> QED BY <1>3, <1>4, <1>5, <1>6, <1>7 DEF Inv, PaperInv

LEMMA SubmitInv == ASSUME Inv, NEW o \in Tickets, NEW t \in Tokens, Submit(o, t) PROVE Inv'
<1>0. CASE RetryRefused(o, t)
  BY <1>0, SubmitRefusedInv
<1>1. CASE ~ RetryRefused(o, t)
  <2> DEFINE e == Enqueued(o, t)
             j == [job EXCEPT ![o] = e]
             rs == IF job[o] = NoJob THEN Append(rows, o) ELSE rows
  <2>1. /\ client[t].at = "submitting" /\ up /\ UNCHANGED <<ticket, grant, slots, paper, faults, up>>
        /\ Pumped(j, task, rs) /\ client' = [client EXCEPT ![t].at = Outcome(job'[o].stage)]
    BY <1>1 DEF Submit, At, server
  <2>2. /\ e \in JobType /\ e.stage # "none" /\ e.auth \in Tokens
        /\ e.stage = "TRANSMITTING" <=> task[o] # "none"
        /\ e.stage = "SUBMITTED" => job[o].stage = "SUBMITTED"
    BY <1>1, <2>1, EnqueuedFacts
  <2> HIDE DEF e
  <2>3. /\ j \in [Tickets -> JobType] /\ task \in [Tickets -> Tasks] /\ rs \in Seq(Tickets)
        /\ \A p \in Tickets : j[p] = IF p = o THEN e ELSE job[p]
    BY <2>2 DEF Inv, PrintType
  <2>4. Range(rs) = {p \in Tickets : j[p] # NoJob}
    <3>1. Range(rows) = {p \in Tickets : job[p] # NoJob} /\ rows \in Seq(Tickets)
      BY DEF Inv, LedgerInv, PrintType
    <3>2. e # NoJob
      BY <2>2 DEF NoJob
    <3>3. CASE job[o] = NoJob
      <4>1. Range(Append(rows, o)) = Range(rows) \cup {o}
        <5> DEFINE a == Append(rows, o)
        <5>1. /\ DOMAIN rows = 1..Len(rows) /\ DOMAIN a = 1..(Len(rows) + 1) /\ Len(rows) \in Nat
              /\ a[Len(rows) + 1] = o /\ \A i \in 1..Len(rows) : a[i] = rows[i]
          BY <3>1
        <5> HIDE DEF a
        <5>2. ASSUME NEW x PROVE x \in Range(a) <=> x \in Range(rows) \cup {o}
          <6>1. ASSUME x \in Range(a) PROVE x \in Range(rows) \cup {o}
            <7>1. PICK i \in DOMAIN a : a[i] = x
              BY <6>1 DEF Range
            <7>2. i \in 1..Len(rows) \/ i = Len(rows) + 1
              BY <5>1
            <7> QED BY <5>1, <7>1, <7>2 DEF Range
          <6>2. ASSUME x \in Range(rows) PROVE x \in Range(a)
            <7>1. PICK i \in DOMAIN rows : rows[i] = x
              BY <6>2 DEF Range
            <7> QED BY <5>1, <7>1 DEF Range
          <6>3. o \in Range(a)
            BY <5>1 DEF Range
          <6> QED BY <6>1, <6>2, <6>3
        <5> QED BY <5>2 DEF a
      <4> QED BY <2>3, <3>1, <3>2, <3>3, <4>1
    <3>4. CASE job[o] # NoJob
      BY <2>3, <3>1, <3>2, <3>4
    <3> QED BY <3>3, <3>4
  <2> HIDE DEF j, rs
  <2>5. \A p \in Tickets :
          /\ j[p].stage = "none" => j[p] = NoJob
          /\ j[p].stage # "none" => j[p].auth \in Tokens
          /\ j[p].stage = "TRANSMITTING" <=> task[p] # "none"
          /\ task[p] = "fallback" => FallbackOf[p] # {}
    BY <2>1, <2>2, <2>3 DEF Inv, LedgerInv, LedgerOf
  <2>6. up'
    BY <2>1
  <2>7. LedgerInv'
    BY ONLY <2>1, <2>3, <2>4, <2>5, <2>6, PumpLedger
  <2>8. \A p, q \in Tickets :
          p # q /\ task[p] # "none" /\ task[q] # "none" => LanesOf(p) \cap LanesOf(q) = {}
    BY DEF Inv, LanesInv
  <2>9. /\ job' \in [Tickets -> JobType] /\ task' \in [Tickets -> Tasks] /\ rows' = rs
        /\ \A p \in Tickets :
             \/ job'[p] = j[p] /\ task'[p] = task[p]
             \/ /\ j[p].stage = "QUEUED" /\ task[p] = "none"
                /\ job'[p] = [j[p] EXCEPT !.stage = "TRANSMITTING"] /\ task'[p] = "verify"
        /\ LanesInv'
    BY ONLY <2>1, <2>3, <2>8, PumpFacts
  <2>10. \A p \in Tickets : (job'[p].stage = "SUBMITTED" \/ task'[p] = "SUBMITTED")
                              => (job[p].stage = "SUBMITTED" \/ task[p] = "SUBMITTED")
    <3>1. ASSUME NEW p \in Tickets, job'[p] = [j[p] EXCEPT !.stage = "TRANSMITTING"]
          PROVE  job'[p].stage # "SUBMITTED"
      <4>1. j[p] \in JobType
        BY <2>3
      <4> QED BY <3>1, <4>1 DEF JobType
    <3> QED BY <2>2, <2>3, <2>9, <3>1
  <2>11. PaperOfJobs'
    BY <2>1, <2>10 DEF Inv, PaperInv, PaperOfJobs
  <2>12. SlotsInv'
    <3>1. \A p \in Tickets : Sending(p)' => Sending(p)
      BY <2>9 DEF Sending
    <3> QED BY <2>1, <3>1, KeepSlots DEF Inv
  <2>13. PICK s \in {"BRIDGE_ACCEPTED", "UNCERTAIN", "submitting"} :
           s = Outcome(job'[o].stage) /\ (s = "BRIDGE_ACCEPTED" => job'[o].stage = "SUBMITTED")
    BY DEF Outcome
  <2> DEFINE y == [client[t] EXCEPT !.at = s]
  <2>14. /\ y \in ClientType /\ y.ticket = client[t].ticket /\ y.at = s /\ y.shown = client[t].shown
         /\ client' = [client EXCEPT ![t] = y]
    <3>1. client[t] \in ClientType /\ s \in ClientAt
      BY <2>13 DEF Inv, PrintType, ClientAt
    <3> QED BY <2>1, <2>13, <3>1 DEF ClientType
  <2> HIDE DEF y
  <2>15. /\ client' \in [Tokens -> ClientType] /\ ClaimsInv' /\ PaperToldOf'
         /\ \A p \in Tickets : OnDisplay(p) => OnDisplay(p)'
    <3>1. client[t].ticket = {o}
      BY DEF Submit, At
    <3>2. \A p \in Tickets : y.ticket = {p} /\ y.at = "BRIDGE_ACCEPTED" => paper[p] > 0
      BY <2>1, <2>10, <2>13, <2>14, <3>1 DEF Inv, PaperInv, PaperOfJobs
    <3>3. y.at \notin {"none", "claimed"} /\ client[t].at # "none"
      BY <2>1, <2>13, <2>14
    <3> QED BY <2>1, <2>14, <3>2, <3>3, Retold DEF Inv, PaperInv
  <2>16. PrintType'
    BY <2>1, <2>3, <2>9, <2>15 DEF Inv, PrintType
  <2>17. AcceptedIsSubmitted'
    BY <2>1, <2>15 DEF Inv, AcceptedIsSubmitted
  <2> QED BY <2>7, <2>9, <2>11, <2>12, <2>15, <2>16, <2>17 DEF Inv, PaperInv
<1> QED BY <1>0, <1>1

\* A task goes on to its next step.
LEMMA TaskStep ==
  ASSUME Inv, NEW o \in Tickets, NEW w \in Tasks \ {"none"}, Then(o, w), task[o] # "none",
         w = "fallback" => FallbackOf[o] # {}
  PROVE  /\ task' \in [Tickets -> Tasks] /\ \A p \in Tickets : task'[p] = IF p = o THEN w ELSE task[p]
         /\ UNCHANGED <<job, rows, up>> /\ LedgerInv' /\ LanesInv'
<1>1. task' = [task EXCEPT ![o] = w] /\ UNCHANGED <<job, rows, up>>
  BY DEF Then
<1>2. /\ task' \in [Tickets -> Tasks]
      /\ \A p \in Tickets : task'[p] = IF p = o THEN w ELSE task[p]
  BY <1>1 DEF Inv, PrintType
<1>3. LedgerInv'
  <2>1. ASSUME NEW p \in Tickets PROVE LedgerOf(p)'
    BY <1>1, <1>2 DEF Inv, LedgerInv, LedgerOf
  <2>2. Range(rows') = {p \in Tickets : job'[p] # NoJob}
    BY <1>1 DEF Inv, LedgerInv
  <2> QED BY <2>1, <2>2 DEF LedgerInv
<1>4. LanesInv'
  <2>1. ASSUME NEW p \in Tickets, NEW q \in Tickets, p # q, task'[p] # "none", task'[q] # "none"
        PROVE  LanesOf(p) \cap LanesOf(q) = {}
    BY <1>2, <2>1 DEF Inv, LanesInv
  <2> QED BY <2>1 DEF LanesInv, LanesOf
<1> QED BY <1>1, <1>2, <1>3, <1>4

LEMMA ReserveInv == ASSUME Inv, NEW o \in Tickets, Reserve(o) PROVE Inv'
<1>1. PICK w \in {"primary", "UNCERTAIN"} : Then(o, w)
  BY DEF Reserve
<1> DEFINE a == grant[job[o].auth].attempt
<1>2. /\ task[o] = "verify" /\ a \in Slots \ slots[o] /\ Claims(o, job[o].auth)
      /\ slots' = [slots EXCEPT ![o] = @ \cup {a}] /\ UNCHANGED <<ticket, client, grant, paper, faults>>
  BY DEF Reserve, Doing, Reservable
<1>3. w \in Tasks \ {"none"} /\ w # "fallback" /\ task[o] # "none"
  BY <1>1, <1>2 DEF Tasks
<1>4. /\ task' \in [Tickets -> Tasks] /\ \A p \in Tickets : task'[p] = IF p = o THEN w ELSE task[p]
      /\ UNCHANGED <<job, rows, up>> /\ LedgerInv' /\ LanesInv'
  BY <1>1, <1>3, TaskStep
<1>5. /\ ticket[o].status = "CLAIMED" /\ grant[ticket[o].token].attempt = a
  BY <1>2 DEF Claims
<1> HIDE DEF a
<1>6. /\ slots' \in [Tickets -> SUBSET Slots] /\ slots'[o] = slots[o] \cup {a}
      /\ \A p \in Tickets : p # o => slots'[p] = slots[p]
  BY <1>2 DEF Inv, PrintType
<1>7. PrintType'
  BY <1>2, <1>4, <1>6 DEF Inv, PrintType
<1>8. ClaimsInv' /\ PaperToldOf' /\ AcceptedIsSubmitted'
  BY <1>2 DEF Inv, ClaimsInv, PaperInv, PaperToldOf, AcceptedIsSubmitted, OnDisplay
<1>9. PaperOfJobs'
  BY <1>1, <1>2, <1>4 DEF Inv, PaperInv, PaperOfJobs
<1>10. ASSUME NEW p \in Tickets PROVE SlotsOf(p)'
  <2>1. SlotsOf(p)
    BY DEF Inv, SlotsInv
  <2>2. CASE p # o
    <3>1. MayReserve(p)' = MayReserve(p) /\ Sending(p)' = Sending(p)
      BY <1>2, <1>4, <1>6, <2>2 DEF MayReserve, Sending
    <3> QED BY <1>2, <1>6, <2>1, <2>2, <3>1 DEF SlotsOf
  <2>3. CASE p = o
    <3>1. MayReserve(o) /\ ~ MayReserve(o)'
      BY <1>2, <1>5, <1>6 DEF MayReserve
    <3>2. /\ Cardinality(slots'[o]) = Cardinality(slots[o]) + 1 /\ Cardinality(slots[o]) \in Nat
          /\ paper[o] \in Nat /\ ticket[o].retries \in Nat
      <4>1. slots[o] \in SUBSET Slots
        BY DEF Inv, PrintType
      <4>2. paper[o] \in Nat /\ ticket[o].retries \in Nat
        BY DEF Inv, PrintType, TicketType
      <4> QED BY <1>2, <1>6, <4>1, <4>2, SlotCount
    <3>3. paper[o] <= Cardinality(slots[o]) /\ Cardinality(slots[o]) <= ticket[o].retries
      BY <2>1, <2>3, <3>1 DEF SlotsOf
    <3>4. /\ paper'[o] <= Cardinality(slots'[o]) /\ paper'[o] + 1 <= Cardinality(slots'[o])
          /\ Cardinality(slots'[o]) <= 1 + ticket'[o].retries
      BY <1>2, <3>2, <3>3
    <3> QED BY <2>3, <3>1, <3>4 DEF SlotsOf
  <2> QED BY <2>2, <2>3
<1> QED BY <1>4, <1>7, <1>8, <1>9, <1>10 DEF Inv, PaperInv, SlotsInv

LEMMA ReserveFailsInv == ASSUME Inv, NEW o \in Tickets, ReserveFails(o) PROVE Inv'
<1>1. /\ task[o] = "verify" /\ Then(o, "UNCERTAIN")
      /\ UNCHANGED <<ticket, client, grant, slots, paper, faults>>
  BY DEF ReserveFails, Doing, server
<1>2. "UNCERTAIN" \in Tasks \ {"none"} /\ task[o] # "none"
  BY <1>1 DEF Tasks
<1>3. /\ task' \in [Tickets -> Tasks] /\ \A p \in Tickets : task'[p] = IF p = o THEN "UNCERTAIN" ELSE task[p]
      /\ UNCHANGED <<job, rows, up>> /\ LedgerInv' /\ LanesInv'
  BY <1>1, <1>2, TaskStep
<1>4. PrintType'
  BY <1>1, <1>3 DEF Inv, PrintType
<1>5. ClaimsInv' /\ PaperToldOf' /\ AcceptedIsSubmitted'
  BY <1>1 DEF Inv, ClaimsInv, PaperInv, PaperToldOf, AcceptedIsSubmitted, OnDisplay
<1>6. PaperOfJobs'
  BY <1>1, <1>3 DEF Inv, PaperInv, PaperOfJobs
<1>7. SlotsInv'
  <2>1. \A p \in Tickets : Sending(p)' => Sending(p)
    BY <1>3 DEF Sending
  <2> QED BY <1>1, <2>1, KeepSlots DEF Inv
<1> QED BY <1>3, <1>4, <1>5, <1>6, <1>7 DEF Inv, PaperInv

LEMMA SendInv == ASSUME Inv, NEW o \in Tickets, Send(o) PROVE Inv'
<1>1. PICK w \in Tasks \ {"none"}, n \in {0, 1} :
        /\ Then(o, w) /\ paper' = [paper EXCEPT ![o] = @ + n]
        /\ w = "fallback" => FallbackOf[o] # {}
        /\ w = "SUBMITTED" => n = 1
        /\ w \in {"primary", "fallback"} => n = 0
  <2>1. paper = [paper EXCEPT ![o] = @ + 0]
    BY DEF Inv, PrintType
  <2>2. \A w \in {"SUBMITTED", "UNCERTAIN", "NOT_SENT", "fallback"} : w \in Tasks \ {"none"}
    BY DEF Tasks
  <2>3. CASE /\ Then(o, IF Doing(o, "primary") /\ FallbackOf[o] # {} THEN "fallback" ELSE "NOT_SENT")
             /\ UNCHANGED paper
    <3>1. CASE Doing(o, "primary") /\ FallbackOf[o] # {}
      BY <2>1, <2>2, <2>3, <3>1
    <3>2. CASE ~ (Doing(o, "primary") /\ FallbackOf[o] # {})
      BY <2>1, <2>2, <2>3, <3>2
    <3> QED BY <3>1, <3>2
  <2>4. CASE Then(o, "SUBMITTED") /\ paper' = [paper EXCEPT ![o] = @ + 1]
    BY <2>2, <2>4
  <2>5. CASE /\ Then(o, "UNCERTAIN")
             /\ \E n \in {0, 1} : paper' = [paper EXCEPT ![o] = @ + n]
    BY <2>2, <2>5
  <2> QED BY <2>3, <2>4, <2>5 DEF Send
<1>2. /\ task[o] # "none" /\ Sending(o) /\ UNCHANGED <<ticket, client, grant, slots, faults>>
  BY DEF Send, Sending, server
<1>3. /\ task' \in [Tickets -> Tasks] /\ \A p \in Tickets : task'[p] = IF p = o THEN w ELSE task[p]
      /\ UNCHANGED <<job, rows, up>> /\ LedgerInv' /\ LanesInv'
  BY <1>1, <1>2, TaskStep
<1>4. /\ paper' \in [Tickets -> Nat] /\ paper'[o] = paper[o] + n /\ paper[o] \in Nat
      /\ \A p \in Tickets : p # o => paper'[p] = paper[p]
  BY <1>1 DEF Inv, PrintType
<1>5. PrintType'
  BY <1>2, <1>3, <1>4 DEF Inv, PrintType
<1>6. ClaimsInv'
  BY <1>2 DEF Inv, ClaimsInv
<1>7. \A p \in Tickets : paper[p] > 0 => paper'[p] > 0
  BY <1>4
<1>8. PaperToldOf' /\ AcceptedIsSubmitted'
  BY <1>2, <1>7 DEF Inv, PaperInv, PaperToldOf, AcceptedIsSubmitted, OnDisplay
<1>9. PaperOfJobs'
  <2>1. w = "SUBMITTED" => paper'[o] > 0
    BY <1>1, <1>4
  <2> QED BY <1>3, <1>7, <2>1 DEF Inv, PaperInv, PaperOfJobs
<1>10. ASSUME NEW p \in Tickets PROVE SlotsOf(p)'
  <2>1. SlotsOf(p)
    BY DEF Inv, SlotsInv
  <2>2. MayReserve(p)' = MayReserve(p)
    BY <1>2 DEF MayReserve
  <2>3. CASE p # o
    <3>1. Sending(p)' = Sending(p)
      BY <1>3, <2>3 DEF Sending
    <3> QED BY <1>2, <1>4, <2>1, <2>2, <2>3, <3>1 DEF SlotsOf
  <2>4. CASE p = o
    <3>1. Cardinality(slots[o]) \in Nat
      BY SlotCount DEF Inv, PrintType
    <3>2. paper[o] + 1 <= Cardinality(slots[o])
      BY <1>2, <2>1, <2>4 DEF SlotsOf
    <3>3. paper'[o] <= Cardinality(slots'[o])
      BY <1>1, <1>2, <1>4, <3>1, <3>2
    <3>4. Sending(o)' => paper'[o] + 1 <= Cardinality(slots'[o])
      <4>1. Sending(o)' => n = 0
        BY <1>1, <1>3 DEF Sending
      <4> QED BY <1>2, <1>4, <3>1, <3>2, <4>1
    <3> QED BY <1>2, <2>1, <2>2, <2>4, <3>3, <3>4 DEF SlotsOf
  <2> QED BY <2>3, <2>4
<1> QED BY <1>3, <1>5, <1>6, <1>8, <1>9, <1>10 DEF Inv, PaperInv, SlotsInv

\* The bridge looks for work with a ledger and tasks that are in order.
LEMMA PumpInv ==
  ASSUME Inv, NEW j \in [Tickets -> JobType], NEW k \in [Tickets -> Tasks],
         Pumped(j, k, rows), up', UNCHANGED <<ticket, client, grant, slots, paper, faults>>,
         \A o \in Tickets :
           /\ j[o].stage = "none" => j[o] = NoJob
           /\ j[o].stage # "none" => j[o].auth \in Tokens
           /\ j[o].stage = "TRANSMITTING" <=> k[o] # "none"
           /\ k[o] = "none" \/ k[o] = task[o]
           /\ j[o].stage = "SUBMITTED" => job[o].stage = "SUBMITTED" \/ task[o] = "SUBMITTED"
           /\ j[o] # NoJob <=> job[o] # NoJob,
         up' \in BOOLEAN
  PROVE  Inv'
<1>1. rows \in Seq(Tickets) /\ Range(rows) = {o \in Tickets : j[o] # NoJob}
  <2>1. Range(rows) = {o \in Tickets : job[o] # NoJob}
    BY DEF Inv, LedgerInv
  <2>2. {o \in Tickets : job[o] # NoJob} = {o \in Tickets : j[o] # NoJob}
    OBVIOUS
  <2> QED BY <2>1, <2>2 DEF Inv, PrintType
<1>2. \A o \in Tickets :
        /\ j[o].stage = "none" => j[o] = NoJob
        /\ j[o].stage # "none" => j[o].auth \in Tokens
        /\ j[o].stage = "TRANSMITTING" <=> k[o] # "none"
        /\ k[o] = "fallback" => FallbackOf[o] # {}
  <2>1. \A o \in Tickets : task[o] = "fallback" => FallbackOf[o] # {}
    BY DEF Inv, LedgerInv, LedgerOf
  <2> QED BY <2>1
<1>3. j \in [Tickets -> JobType] /\ k \in [Tickets -> Tasks] /\ Pumped(j, k, rows) /\ up'
  OBVIOUS
<1>4. LedgerInv'
  BY ONLY <1>1, <1>2, <1>3, PumpLedger
<1>5. \A o, p \in Tickets :
        o # p /\ k[o] # "none" /\ k[p] # "none" => LanesOf(o) \cap LanesOf(p) = {}
  BY DEF Inv, LanesInv
<1>6. /\ job' \in [Tickets -> JobType] /\ task' \in [Tickets -> Tasks] /\ rows' = rows
      /\ \A o \in Tickets :
           \/ job'[o] = j[o] /\ task'[o] = k[o]
           \/ /\ j[o].stage = "QUEUED" /\ k[o] = "none"
              /\ job'[o] = [j[o] EXCEPT !.stage = "TRANSMITTING"] /\ task'[o] = "verify"
      /\ LanesInv'
  BY ONLY <1>1, <1>3, <1>5, PumpFacts
<1>7. PrintType'
  BY <1>1, <1>6 DEF Inv, PrintType
<1>8. ClaimsInv' /\ PaperToldOf' /\ AcceptedIsSubmitted'
  BY DEF Inv, ClaimsInv, PaperInv, PaperToldOf, AcceptedIsSubmitted, OnDisplay
<1>9. PaperOfJobs'
  <2>1. ASSUME NEW o \in Tickets, job'[o] = [j[o] EXCEPT !.stage = "TRANSMITTING"]
        PROVE  job'[o].stage # "SUBMITTED"
    <3>1. j[o] \in JobType
      OBVIOUS
    <3> QED BY <2>1, <3>1 DEF JobType
  <2>2. \A o \in Tickets : (job'[o].stage = "SUBMITTED" \/ task'[o] = "SUBMITTED")
                             => (job[o].stage = "SUBMITTED" \/ task[o] = "SUBMITTED")
    BY <1>6, <2>1
  <2> QED BY <2>2 DEF Inv, PaperInv, PaperOfJobs
<1>10. SlotsInv'
  <2>1. \A o \in Tickets : Sending(o)' => Sending(o)
    BY <1>6 DEF Sending
  <2> QED BY <2>1, KeepSlots DEF Inv
<1> QED BY <1>4, <1>6, <1>7, <1>8, <1>9, <1>10 DEF Inv, PaperInv

LEMMA RecordInv == ASSUME Inv, NEW o \in Tickets, Record(o) PROVE Inv'
<1> DEFINE x == [job[o] EXCEPT !.stage = task[o]]
           j == [job EXCEPT ![o] = x]
           k == [task EXCEPT ![o] = "none"]
<1>1. /\ task[o] \in {"SUBMITTED", "NOT_SENT", "UNCERTAIN"}
      /\ Pumped([job EXCEPT ![o].stage = task[o]], k, rows)
      /\ UNCHANGED <<ticket, client, grant, slots, paper, faults, up>>
  BY DEF Record, server
<1>2. x \in JobType /\ x.stage = task[o] /\ x.auth = job[o].auth /\ [job EXCEPT ![o].stage = task[o]] = j
  <2>1. job[o] \in JobType /\ task[o] \in Stages
    BY <1>1 DEF Inv, PrintType, Stages
  <2> QED BY <2>1 DEF JobType
<1>3. /\ LedgerOf(o) /\ up /\ job[o].stage = "TRANSMITTING" /\ job[o] # NoJob /\ x # NoJob
  <2>1. LedgerOf(o)
    BY DEF Inv, LedgerInv
  <2>2. up /\ job[o].stage = "TRANSMITTING"
    BY <1>1, <2>1 DEF LedgerOf
  <2> QED BY <1>1, <1>2, <2>1, <2>2 DEF NoJob
<1> HIDE DEF x
<1>4. /\ j \in [Tickets -> JobType] /\ \A p \in Tickets : j[p] = IF p = o THEN x ELSE job[p]
      /\ k \in [Tickets -> Tasks] /\ \A p \in Tickets : k[p] = IF p = o THEN "none" ELSE task[p]
  BY <1>2 DEF Inv, PrintType, Tasks
<1>5. Pumped(j, k, rows) /\ up' /\ up' \in BOOLEAN
  BY <1>1, <1>2, <1>3
<1> HIDE DEF j, k
<1>6. ASSUME NEW p \in Tickets
      PROVE  /\ j[p].stage = "none" => j[p] = NoJob
             /\ j[p].stage # "none" => j[p].auth \in Tokens
             /\ j[p].stage = "TRANSMITTING" <=> k[p] # "none"
             /\ k[p] = "none" \/ k[p] = task[p]
             /\ j[p].stage = "SUBMITTED" => job[p].stage = "SUBMITTED" \/ task[p] = "SUBMITTED"
             /\ j[p] # NoJob <=> job[p] # NoJob
  <2>1. CASE p = o
    BY <1>1, <1>2, <1>3, <1>4, <2>1 DEF LedgerOf
  <2>2. CASE p # o
    <3>1. LedgerOf(p)
      BY DEF Inv, LedgerInv
    <3> QED BY <1>3, <1>4, <2>2, <3>1 DEF LedgerOf
  <2> QED BY <2>1, <2>2
<1> QED BY <1>1, <1>4, <1>5, <1>6, PumpInv

LEMMA StartInv == ASSUME Inv, Start PROVE Inv'
<1> DEFINE x(o) == [job[o] EXCEPT !.stage = "UNCERTAIN"]
           j == [o \in Tickets |-> IF job[o].stage = "TRANSMITTING" THEN x(o) ELSE job[o]]
<1>1. /\ ~ up /\ up' = TRUE /\ Pumped(j, task, rows)
      /\ UNCHANGED <<ticket, client, grant, slots, paper, faults>>
  BY DEF Start, server
<1>2. \A o \in Tickets : x(o) \in JobType /\ x(o).stage = "UNCERTAIN" /\ x(o).auth = job[o].auth
  <2>1. \A o \in Tickets : job[o] \in JobType
    BY DEF Inv, PrintType
  <2>2. "UNCERTAIN" \in Stages
    BY DEF Stages
  <2> QED BY <2>1, <2>2 DEF JobType
<1> HIDE DEF x
<1>3. /\ j \in [Tickets -> JobType] /\ task \in [Tickets -> Tasks]
      /\ \A o \in Tickets : j[o] = IF job[o].stage = "TRANSMITTING" THEN x(o) ELSE job[o]
  BY <1>2 DEF Inv, PrintType
<1> HIDE DEF j
<1>4. ASSUME NEW o \in Tickets
      PROVE  /\ j[o].stage = "none" => j[o] = NoJob
             /\ j[o].stage # "none" => j[o].auth \in Tokens
             /\ j[o].stage = "TRANSMITTING" <=> task[o] # "none"
             /\ task[o] = "none" \/ task[o] = task[o]
             /\ j[o].stage = "SUBMITTED" => job[o].stage = "SUBMITTED" \/ task[o] = "SUBMITTED"
             /\ j[o] # NoJob <=> job[o] # NoJob
  <2>1. LedgerOf(o) /\ NoJob.stage = "none"
    BY DEF Inv, LedgerInv, NoJob
  <2> QED BY <1>1, <1>2, <1>3, <2>1 DEF LedgerOf
<1>5. up' /\ up' \in BOOLEAN
  BY <1>1
<1> QED BY <1>1, <1>3, <1>4, <1>5, PumpInv

LEMMA CrashInv == ASSUME Inv, Crash PROVE Inv'
<1>1. /\ up' = FALSE /\ faults' \in Nat /\ task' = [o \in Tickets |-> "none"]
      /\ UNCHANGED <<ticket, client, grant, slots, paper>>
  <2>1. faults' = faults + 1 /\ faults \in Nat
    BY DEF Inv, PrintType, Crash
  <2> QED BY <2>1 DEF Crash, server
<1>2. /\ job' \in [Tickets -> JobType] /\ rows' \in Seq(Tickets)
      /\ Range(rows') = {o \in Tickets : job'[o] # NoJob}
      /\ \A o \in Tickets : job'[o] = job[o] \/ job'[o] = NoJob
  <2>1. CASE UNCHANGED <<job, rows>>
    BY <2>1 DEF Inv, PrintType, LedgerInv
  <2>2. CASE job' = [o \in Tickets |-> NoJob] /\ rows' = <<>>
    <3>1. Range(<<>>) = {}
      BY DEF Range
    <3> QED BY <2>2, <3>1, Empties
  <2> QED BY <2>1, <2>2 DEF Crash
<1>3. task' \in [Tickets -> Tasks] /\ \A o \in Tickets : task'[o] = "none"
  BY <1>1 DEF Tasks
<1>4. PrintType'
  BY <1>1, <1>2, <1>3 DEF Inv, PrintType
<1>5. NoJob.stage = "none"
  BY DEF NoJob
<1>6. LedgerInv'
  <2>1. ASSUME NEW o \in Tickets PROVE LedgerOf(o)'
    <3>1. LedgerOf(o)
      BY DEF Inv, LedgerInv
    <3> QED BY <1>1, <1>2, <1>3, <1>5, <3>1 DEF LedgerOf
  <2> QED BY <1>2, <2>1 DEF LedgerInv
<1>7. LanesInv'
  BY <1>3 DEF LanesInv
<1>8. ClaimsInv' /\ PaperToldOf' /\ AcceptedIsSubmitted'
  BY <1>1 DEF Inv, ClaimsInv, PaperInv, PaperToldOf, AcceptedIsSubmitted, OnDisplay
<1>9. PaperOfJobs'
  BY <1>1, <1>2, <1>3, <1>5 DEF Inv, PaperInv, PaperOfJobs
<1>10. SlotsInv'
  <2>1. \A o \in Tickets : Sending(o)' => Sending(o)
    BY <1>3 DEF Sending
  <2> QED BY <1>1, <2>1, KeepSlots DEF Inv
<1> QED BY <1>4, <1>6, <1>7, <1>8, <1>9, <1>10 DEF Inv, PaperInv

-----------------------------------------------------------------------------
(* The invariant, and what follows from it                                   *)

LEMMA InvInit == Init => Inv
<1> SUFFICES ASSUME Init PROVE Inv
  OBVIOUS
<1>1. /\ \A o \in Tickets : /\ ticket[o] = Absent /\ slots[o] = {} /\ job[o] = NoJob
                            /\ task[o] = "none" /\ paper[o] = 0
      /\ \A t \in Tokens : client[t] = [ticket |-> {}, at |-> "none", shown |-> FALSE] /\ grant[t] = None
      /\ rows = <<>> /\ up = TRUE
  BY DEF Init
<1>2. PrintType
  <2>1. [ticket |-> {}, at |-> "none", shown |-> FALSE] \in ClientType
    BY DEF ClientType, ClientAt
  <2>2. "none" \in Tasks
    BY DEF Tasks
  <2> QED BY <2>1, <2>2, Empties DEF Init, PrintType
<1>3. /\ NoJob.stage = "none" /\ Absent.status = "absent" /\ Absent.retries = 0
  BY DEF NoJob, Absent
<1>4. LedgerInv
  <2>1. Range(<<>>) = {}
    BY DEF Range
  <2> QED BY <1>1, <1>3, <2>1 DEF LedgerInv, LedgerOf
<1>5. LanesInv /\ PaperInv /\ AcceptedIsSubmitted /\ ClaimsInv
  BY <1>1, <1>3 DEF LanesInv, PaperInv, PaperOfJobs, PaperToldOf, AcceptedIsSubmitted, OnDisplay, ClaimsInv
<1>6. SlotsInv
  <2>1. Cardinality({}) = 0
    BY FS_EmptySet
  <2>2. ASSUME NEW o \in Tickets PROVE SlotsOf(o)
    <3>1. Cardinality(slots[o]) = 0 /\ paper[o] = 0 /\ ticket[o].retries = 0
      BY <1>1, <1>3, <2>1
    <3>2. ~ Sending(o)
      BY <1>1 DEF Sending
    <3> QED BY <3>1, <3>2 DEF SlotsOf
  <2> QED BY <2>2 DEF SlotsInv
<1> QED BY <1>2, <1>4, <1>5, <1>6 DEF Inv

LEMMA InvNext == Inv /\ [Next]_vars => Inv'
<1> SUFFICES ASSUME Inv, [Next]_vars PROVE Inv'
  OBVIOUS
<1>1. CASE UNCHANGED vars
  BY <1>1 DEF vars, Inv, PrintType, LedgerInv, LedgerOf, LanesInv, LanesOf, Lane, ClaimsInv, SlotsInv, SlotsOf,
              MayReserve, Sending, PaperInv, PaperOfJobs, PaperToldOf, AcceptedIsSubmitted, OnDisplay
<1>2. CASE Crash \/ Start
  BY <1>2, CrashInv, StartInv
<1>3. ASSUME NEW o \in Tickets, Queue(o) \/ ReviewRetry(o) \/ ReviewConfirm(o) PROVE Inv'
  BY <1>3, QueueInv, ReviewRetryInv, ReviewConfirmInv
<1>4. ASSUME NEW o \in Tickets, Run(o) PROVE Inv'
  BY <1>4, ReserveInv, ReserveFailsInv, SendInv, RecordInv DEF Run
<1>5. ASSUME NEW o \in Tickets, NEW copy \in Tickets, RequestReprint(o, copy) PROVE Inv'
  BY <1>5, RequestReprintInv
<1>6. ASSUME NEW o \in Tickets, NEW t \in Tokens,
             \/ Claim(o, t) \/ Authorize(o, t) \/ Submit(o, t) \/ Display(o, t) \/ GiveUp(o, t)
             \/ Settle(o, t) \/ Close(o, t)
      PROVE  Inv'
  BY <1>6, ClaimInv, AuthorizeInv, SubmitInv, DisplayInv, LeaveInv, SettleInv
<1> QED BY <1>1, <1>2, <1>3, <1>4, <1>5, <1>6 DEF Next

LEMMA InvAlways == Spec => []Inv
  BY InvInit, InvNext, PTL DEF Spec

\* The ledger and the tasks of a bridge that runs agree, after any crash and restart.
THEOREM LedgerIsInOrder == Spec => []TypeOK
<1>1. Inv => TypeOK
  <2> SUFFICES ASSUME Inv PROVE TypeOK
    OBVIOUS
  <2>1. ASSUME NEW o \in Tickets
        PROVE  /\ ticket[o].status \in Status /\ ticket[o].token \in {0} \cup Tokens
               /\ slots[o] \subseteq Slots
               /\ job[o].stage \in Stages /\ job[o].queued \in 0..3 /\ job[o].used \subseteq Tokens
    <3>1. ticket[o] \in TicketType /\ job[o] \in JobType /\ slots[o] \in SUBSET Slots
      BY DEF Inv, PrintType
    <3> QED BY <3>1 DEF TicketType, JobType
  <2>2. \A o \in Tickets : up => (job[o].stage = "TRANSMITTING" <=> task[o] # "none")
    BY DEF Inv, LedgerInv, LedgerOf
  <2>3. Range(rows) = {o \in Tickets : job[o] # NoJob}
    BY DEF Inv, LedgerInv
  <2> QED BY <2>1, <2>2, <2>3 DEF TypeOK
<1> QED BY <1>1, InvAlways, PTL

\* reserveDelivery and reviewKitchenPrintObligation together bound the copies of a
\* ticket, whatever devices, the network and the bridge do.
THEOREM CopiesAreDecided == Spec => []NoUnreviewedCopy
<1>1. Inv => NoUnreviewedCopy
  <2> SUFFICES ASSUME Inv, NEW o \in Tickets PROVE paper[o] <= 1 + ticket[o].retries
    BY DEF NoUnreviewedCopy
  <2>1. Cardinality(slots[o]) \in Nat
    BY SlotCount DEF Inv, PrintType
  <2>2. paper[o] \in Nat /\ ticket[o].retries \in Nat
    BY DEF Inv, PrintType, TicketType
  <2>3. paper[o] <= Cardinality(slots[o]) /\ Cardinality(slots[o]) <= 1 + ticket[o].retries
    BY DEF Inv, SlotsInv, SlotsOf
  <2> QED BY <2>1, <2>2, <2>3
<1> QED BY <1>1, InvAlways, PTL

\* settleKitchenPrintObligation counts as delivered only what the bridge has sent or
\* the kitchen display shows.
THEOREM DeliveredIsPrinted == Spec => []AcceptedIsSubmitted
<1>1. Inv => AcceptedIsSubmitted
  BY DEF Inv
<1> QED BY <1>1, InvAlways, PTL

\* pump keeps the lanes of two tasks apart, whichever of their two printers each is
\* sending to.
THEOREM LanesAreSerial == Spec => []SerialLanes
<1>1. Inv => SerialLanes
  <2> SUFFICES ASSUME Inv, NEW o \in Tickets, NEW p \in Tickets, o # p,
                      NEW a \in SendingTo(o), NEW b \in SendingTo(p),
                      a = b \/ {a, b} \cap Tcp = {a, b}
               PROVE  FALSE
    BY DEF SerialLanes
  <2>1. /\ task[o] # "none" /\ a \in {PrinterOf[o]} \cup FallbackOf[o]
        /\ task[p] # "none" /\ b \in {PrinterOf[p]} \cup FallbackOf[p]
    BY DEF SendingTo
  <2>2. Lane(a) = Lane(b)
    BY DEF Lane
  <2>3. Lane(a) \in LanesOf(o) \cap LanesOf(p)
    BY <2>1, <2>2 DEF LanesOf
  <2> QED BY <2>1, <2>3 DEF Inv, LanesInv
<1> QED BY <1>1, InvAlways, PTL
=============================================================================
