------------------------ MODULE OfflineReplayProofs -------------------------
(* Proofs about OfflineReplay, for any number of commands, requests at a time,  *)
(* batch limit, lost responses and commits of other terminals.                  *)
EXTENDS OfflineReplay, FiniteSetTheorems, TLAPS

Statuses == {"new", "posted", "saved", "refused", "unknown", "drawing", "numbered",
             "PENDING", "SYNCING", "SYNCED", "CONFLICT", "FAILED"}
Phases   == {"free", "receive", "lookup", "execute", "mark", "answered", "error", "dead"}
Working  == {"receive", "lookup", "execute", "mark"}
Done     == {"accepted", "duplicate"}
Answers  == Done \cup {"conflict"}
Outcomes == Answers \cup {"none", "error", "denied"}
RequestType == [route : {"free", "online", "sync"}, batch : Seq(Commands), pos : Nat, phase : Phases,
                chained : Nat \cup {NoRevision}, blocked : BOOLEAN, outcome : Outcomes, rev : Nat,
                answers : Seq(Answers), awaited : BOOLEAN]
CommitType == [cmd : {Remote} \cup Commands, route : {"online", "sync"}]
RowType == [status : {"none", "SYNCING", "SYNCED", "CONFLICT", "FAILED"}, revision : Nat]

ReplayType ==
  /\ status \in [Commands -> Statuses]
  /\ drawn \in [Commands -> Nat]
  /\ seq \in [Commands -> Nat]
  /\ late \subseteq Commands
  /\ expected \in [Commands -> Nat]
  /\ lastSeq \in Nat
  /\ revisionRef \in Nat
  /\ snapshot \in Nat \cup {NoRevision}
  /\ flush \in Slots \cup {NoSlot}
  /\ req \in [Slots -> RequestType]
  /\ row \in [Commands -> RowType]
  /\ log \in Seq(CommitType)
  /\ faults \in Nat

\* Where a request is in its batch.
Placed(s) ==
  /\ req[s].phase = "free" <=> req[s].route = "free"
  /\ req[s].phase \in Working => req[s].pos \in 1..Len(req[s].batch) /\ Len(req[s].answers) = req[s].pos - 1
  /\ req[s].route = "online" =>
       Len(req[s].batch) = 1 /\ req[s].pos = 1 /\ req[s].phase \notin {"receive", "mark"}
  /\ (req[s].route = "sync" /\ req[s].phase = "answered") => Len(req[s].answers) = Len(req[s].batch)
  /\ req[s].phase = "error" => req[s].outcome \in {"error", "denied"}
  /\ req[s].phase = "mark" => req[s].outcome \notin {"none", "denied"}

\* The commands of a batch are queued, in their order.
Ordered(s) == req[s].route = "sync" =>
  /\ \A i \in 1..Len(req[s].batch) : seq[req[s].batch[i]] # 0
  /\ \A i, j \in 1..Len(req[s].batch) : i < j => seq[req[s].batch[i]] <= seq[req[s].batch[j]]

\* What a request says was done was done.
Truthful(s) ==
  /\ \A i \in 1..Len(req[s].answers) : req[s].answers[i] \in Done => Commits(req[s].batch[i]) # {}
  /\ (/\ req[s].outcome \in Done
      /\ req[s].phase = "mark" \/ (req[s].phase = "answered" /\ req[s].route = "online"))
     => req[s].rev \in Commits(req[s].batch[req[s].pos])

\* j is a commit, by the replay, of a command queued after c, which was queued in turn.
Later(c, j) == \E d \in Commands :
  /\ seq[c] # 0 /\ seq[d] # 0 /\ seq[c] < seq[d] /\ InTurn(c)
  /\ j \in Commits(d) /\ log[j].route = "sync"

\* The revision a request builds on: that of a commit of its own batch, or what was on
\* screen, which is older than any commit of what was queued later.
Based(s) ==
  /\ req[s].chained <= Len(log) /\ req[s].rev <= Len(log)
  /\ (req[s].route = "sync" /\ req[s].phase \in Working /\ req[s].chained # NoRevision) =>
       \E k \in 1..(req[s].pos - 1) : req[s].chained \in Commits(req[s].batch[k])
  /\ req[s].route = "online" =>
       /\ req[s].chained # NoRevision
       /\ \A j \in 1..Len(log) : Later(req[s].batch[1], j) => req[s].chained < j

GoodRequest(s) == Placed(s) /\ Ordered(s) /\ Truthful(s) /\ Based(s)

\* A command is queued once, with the number it drew and a revision that was on screen.
QueueInv ==
  /\ revisionRef <= Len(log) /\ snapshot <= Len(log)
  /\ \A c \in late : seq[c] # 0
  /\ \A c \in Commands :
       /\ expected[c] <= Len(log)
       /\ status[c] \in {"new", "posted", "drawing", "numbered"} => seq[c] = 0
       /\ status[c] \in {"drawing", "numbered"} => drawn[c] # 0
       /\ status[c] \in {"PENDING", "SYNCING"} => seq[c] # 0
       /\ \A j \in Commits(c) : log[j].route = "sync" => seq[c] # 0
       /\ \A j \in 1..Len(log) : Later(c, j) => expected[c] < j

Waits(s) == req[s].route = "online" /\ req[s].awaited

\* One request is awaited for a posted command, and the coordinator waits for its own.
WaitInv ==
  /\ \A s \in Slots : Waits(s) => status[req[s].batch[1]] = "posted"
  /\ \A s, u \in Slots : Waits(s) /\ Waits(u) /\ req[s].batch[1] = req[u].batch[1] => s = u
  /\ flush \in Slots => req[flush].route = "sync" /\ req[flush].awaited

CommittedOnce == \A c \in Commands : \A i, j \in Commits(c) : i = j

Inv == /\ ReplayType /\ \A s \in Slots : GoodRequest(s)
       /\ QueueInv /\ WaitInv /\ CommittedOnce /\ AppliedInSequence /\ AcknowledgedIsApplied

-----------------------------------------------------------------------------
(* The log grows                                                             *)

LEMMA Empty ==
  /\ Free \in RequestType /\ Free.route = "free" /\ Free.phase = "free" /\ Free.answers = <<>>
  /\ Free.chained = NoRevision /\ Free.rev = 0 /\ Free.outcome = "none"
<1>1. /\ "free" \in Phases /\ "none" \in Outcomes /\ <<>> \in Seq(Commands) /\ <<>> \in Seq(Answers)
      /\ NoRevision \in Nat \cup {NoRevision}
  BY DEF Phases, Outcomes
<1> QED BY <1>1 DEF Free, RequestType

LEMMA CommandNumbers == Commands \subseteq Nat \ {0} /\ Remote \notin Commands
<1>1. Cardinality(Commands) \in Nat
  BY ReplayAssumption, FS_CardinalityType
<1>2. Commands = 1..Cardinality(Commands)
  BY ReplayAssumption
<1>3. \A n \in Nat : 1..n \subseteq Nat \ {0} /\ 0 \notin 1..n
  OBVIOUS
<1>4. 1..Cardinality(Commands) \subseteq Nat \ {0} /\ 0 \notin 1..Cardinality(Commands)
  BY ONLY <1>1, <1>3
<1> QED BY ONLY <1>2, <1>4 DEF Remote

\* What is committed stays, what is queued keeps its place, and only a new commit can
\* be one of a command queued later.
Moves ==
  /\ Len(log) <= Len(log') /\ \A i \in 1..Len(log) : log'[i] = log[i]
  /\ \A c \in Commands : seq[c] # 0 => seq'[c] = seq[c]
  /\ \A c \in Commands, j \in 1..Len(log') : Later(c, j)' => Later(c, j) \/ j > Len(log)

LEMMA LogType ==
  ASSUME ReplayType
  PROVE  /\ Len(log) \in Nat /\ \A c : Commits(c) \subseteq 1..Len(log)
         /\ \A i \in 1..Len(log) : log[i].cmd \in {Remote} \cup Commands
<1>1. log \in Seq(CommitType)
  BY DEF ReplayType
<1>2. \A i \in 1..Len(log) : log[i] \in CommitType
  BY <1>1
<1>3. \A e \in CommitType : e.cmd \in {Remote} \cup Commands
  BY DEF CommitType
<1> QED BY <1>1, <1>2, <1>3 DEF Commits

LEMMA CommitsStay ==
  ASSUME ReplayType, Moves, NEW c PROVE Commits(c) \subseteq Commits(c)'
<1>1. Len(log) \in Nat /\ Len(log') >= Len(log)
  BY LogType DEF Moves
<1> QED BY <1>1 DEF Moves, Commits

LEMMA StandingStill ==
  ASSUME ReplayType, UNCHANGED <<seq, late, log>> PROVE Moves
<1>1. \A c \in Commands, j \in 1..Len(log') : Later(c, j)' => Later(c, j)
  BY DEF Later, Commits, InTurn
<1> QED BY <1>1, LogType DEF Moves

\* Enqueue
LEMMA Queueing ==
  ASSUME ReplayType, QueueInv, NEW b \in Commands, seq[b] = 0, drawn[b] # 0,
         seq' = [seq EXCEPT ![b] = drawn[b]],
         late' = IF \E d \in Queued : seq[d] >= drawn[b] THEN late \cup {b} ELSE late, UNCHANGED log
  PROVE  /\ Moves /\ seq' \in [Commands -> Nat] /\ late' \subseteq Commands
         /\ \A c \in late' : seq'[c] # 0
         /\ \A j \in 1..Len(log) : ~ Later(b, j)'
<1>1. /\ seq' \in [Commands -> Nat] /\ seq'[b] = drawn[b] /\ \A c \in Commands : c # b => seq'[c] = seq[c]
      /\ drawn[b] \in Nat /\ \A c \in Commands : seq[c] \in Nat
      /\ late \subseteq Commands /\ late' \subseteq Commands
  BY DEF ReplayType
<1>2. \A c : Commits(c)' = Commits(c)
  BY DEF Commits
<1>3. \A j \in Commits(b) : log[j].route # "sync"
  BY DEF QueueInv
<1>4. /\ b \notin late /\ \A c \in late : seq'[c] = seq[c] /\ seq[c] # 0
      /\ late \subseteq late' /\ \A c \in late' : c = b \/ c \in late
  BY <1>1 DEF QueueInv
<1>5. ASSUME NEW c \in Commands, NEW j \in 1..Len(log'), Later(c, j)' PROVE Later(c, j) /\ c # b
  <2>1. PICK d \in Commands : /\ seq'[c] # 0 /\ seq'[d] # 0 /\ seq'[c] < seq'[d] /\ InTurn(c)'
                              /\ j \in Commits(d) /\ log[j].route = "sync"
    BY <1>2, <1>5 DEF Later
  <2>2. d # b /\ seq'[d] = seq[d]
    BY <1>1, <1>3, <2>1
  <2>3. c # b
    <3> SUFFICES ASSUME c = b PROVE FALSE
      OBVIOUS
    <3>1. d \in Queued /\ seq[d] >= drawn[b]
      BY <1>1, <2>1, <2>2 DEF Queued
    <3>2. b \in late'
      BY <3>1
    <3>3. seq'[b] > seq'[b]
      BY <2>1, <3>2 DEF InTurn
    <3> QED BY <1>1, <3>3
  <2>4. InTurn(c)
    BY <1>1, <1>4, <2>1, <2>3 DEF InTurn
  <2> QED BY <1>1, <2>1, <2>2, <2>3, <2>4 DEF Later
<1>6. Len(log) \in Nat
  BY LogType
<1>7. \A c \in late' : seq'[c] # 0
  BY <1>1, <1>4
<1> QED BY <1>1, <1>5, <1>6, <1>7 DEF Moves

LEMMA Appending ==
  ASSUME ReplayType, NEW e \in CommitType,
         log' = Append(log, e), UNCHANGED <<seq, late>>
  PROVE  /\ Moves /\ log' \in Seq(CommitType)
         /\ Len(log') = Len(log) + 1 /\ log'[Len(log) + 1] = e
         /\ \A c : Commits(c)' = IF c = e.cmd THEN Commits(c) \cup {Len(log) + 1} ELSE Commits(c)
<1>1. /\ log \in Seq(CommitType) /\ Len(log) \in Nat
      /\ log' \in Seq(CommitType)
      /\ Len(log') = Len(log) + 1 /\ log'[Len(log) + 1] = e
      /\ \A i \in 1..Len(log) : log'[i] = log[i]
  BY DEF ReplayType
<1>2. ASSUME NEW c PROVE Commits(c)' = IF c = e.cmd THEN Commits(c) \cup {Len(log) + 1} ELSE Commits(c)
  <2>1. 1..Len(log') = (1..Len(log)) \cup {Len(log) + 1}
    BY <1>1
  <2>2. Commits(c)' = {i \in (1..Len(log)) \cup {Len(log) + 1} : log'[i].cmd = c}
    BY <2>1 DEF Commits
  <2>3. ASSUME NEW i PROVE i \in Commits(c)' <=> i \in Commits(c) \/ (i = Len(log) + 1 /\ c = e.cmd)
    <3>1. Len(log) + 1 \notin 1..Len(log)
      BY <1>1
    <3> QED BY <1>1, <2>2, <3>1 DEF Commits
  <2> QED BY <2>3
<1>3. ASSUME NEW c \in Commands, NEW j \in 1..Len(log'), Later(c, j)' PROVE Later(c, j) \/ j > Len(log)
  <2>1. CASE j = Len(log) + 1
    BY <1>1, <2>1
  <2>2. CASE j \in 1..Len(log)
    <3>1. PICK d \in Commands : /\ seq[c] # 0 /\ seq[d] # 0 /\ seq[c] < seq[d] /\ InTurn(c)
                                /\ j \in Commits(d)' /\ log'[j].route = "sync"
      BY <1>3 DEF Later, InTurn
    <3>2. j \in Commits(d)
      BY <1>1, <1>2, <2>2, <3>1
    <3> QED BY <1>1, <2>2, <3>1, <3>2 DEF Later
  <2> QED BY <1>1, <2>1, <2>2
<1> QED BY <1>1, <1>2, <1>3 DEF Moves

\* A request stays good whoever waits for it.
LEMMA WorkKeeps ==
  ASSUME ReplayType, Moves, NEW u \in Slots, GoodRequest(u),
         req'[u].route = req[u].route, req'[u].batch = req[u].batch, req'[u].pos = req[u].pos,
         req'[u].phase = req[u].phase, req'[u].chained = req[u].chained, req'[u].outcome = req[u].outcome,
         req'[u].rev = req[u].rev, req'[u].answers = req[u].answers
  PROVE  GoodRequest(u)'
<1>0. /\ Len(log) \in Nat /\ Len(log') \in Nat /\ Len(log) <= Len(log') /\ req[u] \in RequestType
      /\ \A c : Commits(c) \subseteq Commits(c)'
  <2>1. Len(log) \in Nat /\ Len(log) <= Len(log')
    BY LogType DEF Moves
  <2>2. \A c : Commits(c) \subseteq Commits(c)'
    BY CommitsStay
  <2> QED BY <2>1, <2>2 DEF ReplayType
<1>1. Placed(u)'
  BY DEF GoodRequest, Placed
<1>2. Ordered(u)'
  <2> SUFFICES ASSUME req[u].route = "sync"
               PROVE  /\ \A i \in 1..Len(req[u].batch) : seq'[req[u].batch[i]] # 0
                      /\ \A i, j \in 1..Len(req[u].batch) : i < j => seq'[req[u].batch[i]] <= seq'[req[u].batch[j]]
    BY DEF Ordered
  <2>1. \A i \in 1..Len(req[u].batch) : req[u].batch[i] \in Commands
    BY <1>0 DEF RequestType
  <2>2. \A i \in 1..Len(req[u].batch) : seq'[req[u].batch[i]] = seq[req[u].batch[i]]
    BY <2>1 DEF GoodRequest, Ordered, Moves
  <2> QED BY <2>2 DEF GoodRequest, Ordered
<1>3. Truthful(u)'
  BY <1>0 DEF GoodRequest, Truthful
<1>4. Based(u)'
  <2>1. req[u].chained <= Len(log') /\ req[u].rev <= Len(log')
    <3>1. req[u].chained \in Int /\ req[u].rev \in Int
      BY <1>0 DEF RequestType, NoRevision
    <3> QED BY <1>0, <3>1 DEF GoodRequest, Based
  <2>2. (req[u].route = "sync" /\ req[u].phase \in Working /\ req[u].chained # NoRevision) =>
          \E k \in 1..(req[u].pos - 1) : req[u].chained \in Commits(req[u].batch[k])'
    BY <1>0 DEF GoodRequest, Based
  <2>3. ASSUME req[u].route = "online", NEW j \in 1..Len(log'), Later(req[u].batch[1], j)'
        PROVE  req[u].chained < j
    <3>1. req[u].batch[1] \in Commands
      BY <1>0, <2>3 DEF GoodRequest, Placed, RequestType
    <3>2. Later(req[u].batch[1], j) \/ j > Len(log)
      BY <2>3, <3>1 DEF Moves
    <3>3. CASE j > Len(log)
      <4>1. req[u].chained \in Int
        BY <1>0 DEF RequestType, NoRevision
      <4> QED BY <1>0, <3>3, <4>1 DEF GoodRequest, Based
    <3>4. CASE Later(req[u].batch[1], j) /\ j \in 1..Len(log)
      BY <2>3, <3>4 DEF GoodRequest, Based
    <3> QED BY <1>0, <3>2, <3>3, <3>4
  <2> QED BY <2>1, <2>2, <2>3 DEF Based, GoodRequest
<1> QED BY <1>1, <1>2, <1>3, <1>4 DEF GoodRequest

LEMMA OthersKeep ==
  ASSUME ReplayType, Moves, NEW u \in Slots, GoodRequest(u), req'[u] = req[u]
  PROVE  GoodRequest(u)'
  BY WorkKeeps

-----------------------------------------------------------------------------
(* Steps that commit nothing                                                 *)

LEMMA NothingCommitted ==
  ASSUME ReplayType, Moves, UNCHANGED log, CommittedOnce, AppliedInSequence
  PROVE  CommittedOnce' /\ AppliedInSequence'
<1>1. \A c : Commits(c)' = Commits(c) /\ Commits(c) \subseteq 1..Len(log)
  BY DEF Commits
<1>2. CommittedOnce'
  BY <1>1 DEF CommittedOnce
<1>3. AppliedInSequence'
  <2> SUFFICES ASSUME NEW c \in Commands, NEW d \in Commands, seq'[c] # 0, seq'[d] # 0, seq'[c] < seq'[d],
                      InTurn(c)', NEW i \in Commits(c), NEW j \in Commits(d), log[j].route = "sync"
               PROVE  i < j
    BY <1>1 DEF AppliedInSequence
  <2>1. Later(c, j)'
    BY <1>1 DEF Later
  <2>2. Later(c, j)
    BY <1>1, <2>1, LogType DEF Moves
  <2> QED BY <2>2 DEF Later, AppliedInSequence
<1> QED BY <1>2, <1>3

\* A handler goes on with a request, or drops it, without committing anything.
LEMMA Serves ==
  ASSUME Inv, NEW s \in Slots, NEW x \in RequestType, req' = [req EXCEPT ![s] = x],
         UNCHANGED <<client, flush, log>>, row' \in [Commands -> RowType], faults' \in Nat,
         GoodRequest(s)',
         x.route = "online" /\ x.awaited => Waits(s) /\ x.batch = req[s].batch,
         flush = s => x.route = "sync" /\ x.awaited,
         \A c \in Commands : row'[c].status = "SYNCED" => row'[c].revision \in Commits(c)
  PROVE  Inv'
<1>1. UNCHANGED <<status, drawn, seq, late, expected, lastSeq, revisionRef, snapshot, flush, log>>
  BY DEF client, queue
<1>2. /\ req' \in [Slots -> RequestType] /\ req'[s] = x /\ \A u \in Slots : u # s => req'[u] = req[u]
  BY DEF Inv, ReplayType
<1>3. ReplayType'
  BY <1>1, <1>2 DEF Inv, ReplayType
<1>4. Moves
  BY <1>1, StandingStill DEF Inv
<1>5. \A u \in Slots : GoodRequest(u)'
  <2>1. ASSUME NEW u \in Slots, u # s PROVE GoodRequest(u)'
    BY <1>2, <1>4, <2>1, OthersKeep DEF Inv
  <2> QED BY <2>1
<1>6. QueueInv'
  BY <1>1 DEF Inv, QueueInv, Later, InTurn, Commits
<1>7. WaitInv'
  <2>1. \A u \in Slots : Waits(u)' => Waits(u) /\ req'[u].batch = req[u].batch
    BY <1>2 DEF Waits
  <2>2. flush' \in Slots => req'[flush'].route = "sync" /\ req'[flush'].awaited
    BY <1>1, <1>2 DEF Inv, WaitInv
  <2>3. \A u \in Slots : Waits(u)' => status'[req'[u].batch[1]] = "posted"
    BY <1>1, <2>1 DEF Inv, WaitInv
  <2>4. \A u, v \in Slots : Waits(u)' /\ Waits(v)' /\ req'[u].batch[1] = req'[v].batch[1] => u = v
    BY <2>1 DEF Inv, WaitInv
  <2> QED BY <2>2, <2>3, <2>4 DEF WaitInv
<1>8. CommittedOnce' /\ AppliedInSequence'
  BY <1>1, <1>4, NothingCommitted DEF Inv
<1>9. AcknowledgedIsApplied'
  <2>1. \A c : Commits(c)' = Commits(c)
    BY <1>1 DEF Commits
  <2> QED BY <1>1, <2>1 DEF Inv, AcknowledgedIsApplied
<1> QED BY <1>3, <1>5, <1>6, <1>7, <1>8, <1>9 DEF Inv

\* The handler is at another place of its batch's command, or commitMutation is over.
Edited(s, x, p, a, v) ==
  /\ x \in RequestType /\ x.phase = p /\ x.outcome = a /\ x.rev = v
  /\ x.route = req[s].route /\ x.batch = req[s].batch /\ x.pos = req[s].pos /\ x.chained = req[s].chained
  /\ x.answers = req[s].answers /\ x.awaited = req[s].awaited

LEMMA Edits ==
  ASSUME ReplayType, NEW s \in Slots, NEW p \in Phases, NEW a \in Outcomes, NEW v \in Nat
  PROVE  /\ Edited(s, [req[s] EXCEPT !.outcome = a, !.rev = v, !.phase = p], p, a, v)
         /\ Edited(s, [req[s] EXCEPT !.phase = p, !.outcome = a], p, a, req[s].rev)
         /\ Edited(s, [req[s] EXCEPT !.phase = p], p, req[s].outcome, req[s].rev)
         /\ req[s].rev \in Nat /\ req[s].outcome \in Outcomes /\ req[s].route \in {"free", "online", "sync"}
<1>1. req[s] \in RequestType
  BY DEF ReplayType
<1>2. Edited(s, [req[s] EXCEPT !.outcome = a, !.rev = v, !.phase = p], p, a, v)
  BY <1>1 DEF RequestType, Edited
<1>3. Edited(s, [req[s] EXCEPT !.phase = p, !.outcome = a], p, a, req[s].rev)
  BY <1>1 DEF RequestType, Edited
<1>4. Edited(s, [req[s] EXCEPT !.phase = p], p, req[s].outcome, req[s].rev)
  BY <1>1 DEF RequestType, Edited
<1> QED BY <1>1, <1>2, <1>3, <1>4 DEF RequestType

LEMMA EditedKeeps ==
  ASSUME ReplayType, Moves, NEW s \in Slots, GoodRequest(s), req[s].phase # "free",
         NEW p \in Phases, NEW a \in Outcomes, NEW v \in Nat, v <= Len(log'), NEW x, Edited(s, x, p, a, v),
         req'[s] = x,
         p # "free", p \in Working => req[s].phase \in Working, p # "receive",
         p = "mark" => req[s].route = "sync", p = "answered" => req[s].route = "online",
         p = "error" => a \in {"error", "denied"}, p = "mark" => a \notin {"none", "denied"},
         (p \in {"mark", "answered"} /\ a \in Done) => v \in Commits(x.batch[x.pos])'
  PROVE  GoodRequest(s)'
<1>1. /\ x \in RequestType /\ x.outcome = a /\ x.rev = v /\ x.phase = p
      /\ x.route = req[s].route /\ x.batch = req[s].batch /\ x.pos = req[s].pos /\ x.chained = req[s].chained
      /\ x.answers = req[s].answers /\ x.awaited = req[s].awaited
  BY DEF Edited
<1>2. /\ Len(log) \in Nat /\ Len(log') \in Nat /\ Len(log) <= Len(log') /\ req[s] \in RequestType
      /\ \A c : Commits(c) \subseteq Commits(c)'
  <2>1. Len(log) \in Nat /\ Len(log) <= Len(log')
    BY LogType DEF Moves
  <2>2. \A c : Commits(c) \subseteq Commits(c)'
    BY CommitsStay
  <2> QED BY <2>1, <2>2 DEF ReplayType
<1>3. Placed(s)'
  <2>1. Placed(s)
    BY DEF GoodRequest
  <2>2. req[s].route # "free"
    BY <2>1 DEF Placed
  <2> QED BY <1>1, <2>1, <2>2 DEF Placed
<1>4. Ordered(s)'
  <2> SUFFICES ASSUME req[s].route = "sync"
               PROVE  /\ \A i \in 1..Len(req[s].batch) : seq'[req[s].batch[i]] # 0
                      /\ \A i, j \in 1..Len(req[s].batch) : i < j => seq'[req[s].batch[i]] <= seq'[req[s].batch[j]]
    BY <1>1 DEF Ordered
  <2>1. \A i \in 1..Len(req[s].batch) : req[s].batch[i] \in Commands
    BY <1>2 DEF RequestType
  <2>2. \A i \in 1..Len(req[s].batch) : seq'[req[s].batch[i]] = seq[req[s].batch[i]]
    BY <2>1 DEF GoodRequest, Ordered, Moves
  <2> QED BY <2>2 DEF GoodRequest, Ordered
<1>5. Truthful(s)'
  <2>1. Truthful(s)
    BY DEF GoodRequest
  <2> QED BY <1>1, <1>2, <2>1 DEF Truthful
<1>6. Based(s)'
  <2>0. Based(s) /\ x.chained \in Int
    BY <1>1, <1>2 DEF GoodRequest, RequestType, NoRevision
  <2>1. x.chained <= Len(log')
    BY <1>1, <1>2, <2>0 DEF Based
  <2>2. (x.route = "sync" /\ x.phase \in Working /\ x.chained # NoRevision) =>
          \E k \in 1..(x.pos - 1) : x.chained \in Commits(x.batch[k])'
    BY <1>1, <1>2, <2>0 DEF Based
  <2>3. ASSUME x.route = "online", NEW j \in 1..Len(log'), Later(x.batch[1], j)'
        PROVE  x.chained < j
    <3>1. x.batch[1] \in Commands
      BY <1>1, <1>2, <2>3 DEF GoodRequest, Placed, RequestType
    <3>2. Later(x.batch[1], j) \/ j > Len(log)
      BY <2>3, <3>1 DEF Moves
    <3>3. CASE j > Len(log)
      BY <1>1, <1>2, <2>0, <3>3 DEF Based
    <3>4. CASE Later(x.batch[1], j) /\ j \in 1..Len(log)
      BY <1>1, <2>0, <2>3, <3>4 DEF Based
    <3> QED BY <1>2, <3>2, <3>3, <3>4
  <2> QED BY <1>1, <2>0, <2>1, <2>2, <2>3 DEF Based
<1> QED BY <1>3, <1>4, <1>5, <1>6 DEF GoodRequest

LEMMA Finishes ==
  ASSUME Inv, NEW s \in Slots, req[s].phase # "free",
         NEW p \in Phases, NEW a \in Outcomes, NEW v \in Nat, v <= Len(log), NEW x, Edited(s, x, p, a, v),
         req' = [req EXCEPT ![s] = x],
         UNCHANGED <<client, flush, log>>, row' \in [Commands -> RowType], faults' \in Nat,
         p # "free", p \in Working => req[s].phase \in Working, p # "receive",
         p = "mark" => req[s].route = "sync", p = "answered" => req[s].route = "online",
         p = "error" => a \in {"error", "denied"}, p = "mark" => a \notin {"none", "denied"},
         (p \in {"mark", "answered"} /\ a \in Done) => v \in Commits(Current(s)),
         \A c \in Commands : row'[c].status = "SYNCED" => row'[c].revision \in Commits(c)
  PROVE  Inv'
<1>1. /\ x \in RequestType /\ x.route = req[s].route /\ x.batch = req[s].batch /\ x.awaited = req[s].awaited
  BY DEF Edited
<1>2. req'[s] = x
  BY DEF Inv, ReplayType
<1>3. Moves /\ Commits(x.batch[x.pos])' = Commits(Current(s)) /\ v <= Len(log')
  <2>1. UNCHANGED <<seq, late, log>>
    BY DEF client, queue
  <2>2. Moves
    BY <2>1, StandingStill DEF Inv
  <2>3. x.batch[x.pos] = Current(s)
    BY DEF Edited, Current
  <2> QED BY <2>1, <2>2, <2>3 DEF Commits
<1>4. GoodRequest(s)'
  BY <1>2, <1>3, EditedKeeps DEF Inv
<1>5. x.route = "online" /\ x.awaited => Waits(s) /\ x.batch = req[s].batch
  BY <1>1 DEF Waits
<1>6. flush = s => x.route = "sync" /\ x.awaited
  BY <1>1 DEF Inv, WaitInv
<1> QED BY <1>1, <1>4, <1>5, <1>6, Serves

\* The current command of a batch is answered.
LEMMA Continues ==
  ASSUME Inv, NEW s \in Slots, req[s].phase \in {"receive", "mark"},
         NEW a \in Answers, NEW v \in Nat, v <= Len(log), a \in Done => v \in Commits(Current(s)),
         req' = [req EXCEPT ![s] = Continue(s, a, v)],
         UNCHANGED <<client, flush, log>>, row' \in [Commands -> RowType], faults' \in Nat,
         \A c \in Commands : row'[c].status = "SYNCED" => row'[c].revision \in Commits(c)
  PROVE  Inv'
<1> DEFINE r == req[s]
           ch == IF a = "conflict" THEN r.chained ELSE v
           ph == IF r.pos = Len(r.batch) THEN "answered" ELSE "receive"
           bl == (a = "conflict")
           an == Append(r.answers, a)
           x == Continue(s, a, v)
<1>1. r \in RequestType
  BY DEF Inv, ReplayType
<1>2. GoodRequest(s) /\ r.route = "sync" /\ r.pos \in 1..Len(r.batch) /\ Len(r.answers) = r.pos - 1
  BY <1>1 DEF Inv, GoodRequest, Placed, Working, RequestType
<1>3. /\ an \in Seq(Answers) /\ Len(an) = r.pos /\ an[r.pos] = a
      /\ \A i \in 1..Len(r.answers) : an[i] = r.answers[i]
      /\ r.pos \in Nat /\ Len(r.batch) \in Nat
  <2>1. r.answers \in Seq(Answers) /\ r.pos \in Nat /\ r.batch \in Seq(Commands)
    BY <1>1 DEF RequestType
  <2> HIDE DEF r
  <2>2. /\ an \in Seq(Answers) /\ Len(an) = Len(r.answers) + 1 /\ an[Len(r.answers) + 1] = a
        /\ \A i \in 1..Len(r.answers) : an[i] = r.answers[i]
    BY <2>1
  <2>3. Len(r.answers) + 1 = r.pos /\ Len(r.batch) \in Nat
    BY <1>2, <2>1
  <2> QED BY <2>1, <2>2, <2>3
<1>4. ch \in Nat \cup {NoRevision} /\ ph \in Phases /\ bl \in BOOLEAN /\ r.pos + 1 \in Nat
  <2>1. r.chained \in Nat \cup {NoRevision}
    BY <1>1 DEF RequestType
  <2>2. ch \in Nat \cup {NoRevision}
    BY <2>1
  <2>3. ph \in Phases
    BY DEF Phases
  <2>4. r.pos + 1 \in Nat
    BY <1>3
  <2> QED BY <2>2, <2>3, <2>4
<1>5. x = [r EXCEPT !.answers = an, !.pos = r.pos + 1, !.blocked = bl, !.chained = ch, !.phase = ph]
  BY DEF Continue
<1> HIDE DEF ch, ph, bl, an, x
<1>6. /\ x \in RequestType /\ x.answers = an /\ x.pos = r.pos + 1 /\ x.chained = ch /\ x.phase = ph
      /\ x.route = "sync" /\ x.batch = r.batch /\ x.awaited = r.awaited /\ x.rev = r.rev /\ x.outcome = r.outcome
  BY <1>1, <1>2, <1>3, <1>4, <1>5 DEF RequestType
<1>7. req' = [req EXCEPT ![s] = x] /\ req'[s] = x
  BY DEF Inv, ReplayType, x
<1> HIDE DEF r
<1>8. UNCHANGED <<seq, late, log>> /\ \A c : Commits(c)' = Commits(c)
  BY DEF client, queue, Commits
<1>9. Placed(s)'
  <2>1. CASE r.pos = Len(r.batch)
    <3>1. x.phase = "answered" /\ Len(x.answers) = Len(x.batch)
      BY <1>3, <1>6, <2>1 DEF ph
    <3> QED BY <1>6, <1>7, <3>1 DEF Placed, Working
  <2>2. CASE r.pos # Len(r.batch)
    <3>1. x.phase = "receive" /\ x.pos \in 1..Len(x.batch) /\ Len(x.answers) = x.pos - 1
      BY <1>2, <1>3, <1>6, <2>2 DEF ph
    <3> QED BY <1>6, <1>7, <3>1 DEF Placed, Working
  <2> QED BY <2>1, <2>2
<1>10. Ordered(s)'
  <2>1. Ordered(s)
    BY <1>2 DEF GoodRequest
  <2> QED BY <1>2, <1>6, <1>7, <1>8, <2>1 DEF Ordered, r
<1>11. Truthful(s)'
  <2>1. Truthful(s)
    BY <1>2 DEF GoodRequest
  <2>2. ASSUME NEW i \in 1..Len(an), an[i] \in Done PROVE Commits(r.batch[i]) # {}
    <3>1. CASE i = r.pos
      BY <1>3, <2>2, <3>1 DEF Current, r
    <3>2. CASE i \in 1..Len(r.answers)
      BY <1>3, <2>1, <2>2, <3>2 DEF Truthful, r
    <3> QED BY <1>2, <1>3, <3>1, <3>2
  <2>3. x.phase # "mark"
    BY <1>6 DEF ph
  <2> QED BY <1>6, <1>7, <1>8, <2>2, <2>3 DEF Truthful
<1>12. Based(s)'
  <2>1. Based(s)
    BY <1>2 DEF GoodRequest
  <2>2. x.chained <= Len(log) /\ x.rev <= Len(log)
    BY <1>6, <2>1 DEF Based, ch, r
  <2>3. ASSUME x.chained # NoRevision PROVE \E k \in 1..(x.pos - 1) : x.chained \in Commits(x.batch[k])
    <3>1. r.pos \in 1..(x.pos - 1) /\ 1..(r.pos - 1) \subseteq 1..(x.pos - 1)
      BY <1>2, <1>3, <1>6
    <3>2. CASE a = "conflict"
      <4>1. r.phase \in Working
        BY DEF r, Working
      <4>2. \E k \in 1..(r.pos - 1) : r.chained \in Commits(r.batch[k])
        BY <1>2, <1>6, <2>1, <2>3, <3>2, <4>1 DEF Based, r, ch
      <4> QED BY <1>6, <3>1, <3>2, <4>2 DEF ch
    <3>3. CASE a # "conflict"
      <4>1. v \in Commits(r.batch[r.pos])
        BY <3>3 DEF Answers, Current, r
      <4> QED BY <1>6, <3>1, <3>3, <4>1 DEF ch
    <3> QED BY <3>2, <3>3
  <2> QED BY <1>6, <1>7, <1>8, <2>2, <2>3 DEF Based
<1>13. GoodRequest(s)'
  BY <1>9, <1>10, <1>11, <1>12 DEF GoodRequest
<1>14. flush = s => x.route = "sync" /\ x.awaited
  BY <1>6 DEF Inv, WaitInv, r
<1> QED BY <1>6, <1>7, <1>13, <1>14, Serves

-----------------------------------------------------------------------------
(* The server's steps                                                        *)

LEMMA RowsKept ==
  ASSUME Inv
  PROVE  /\ row \in [Commands -> RowType] /\ faults \in Nat /\ faults + 1 \in Nat
         /\ \A c \in Commands : row[c].status = "SYNCED" => row[c].revision \in Commits(c)
         /\ \A c \in Commands : row[c] \in RowType
  BY DEF Inv, ReplayType, AcknowledgedIsApplied

\* The current command of a request that is worked on.
LEMMA CurrentCommand ==
  ASSUME Inv, NEW s \in Slots, req[s].phase \in Working
  PROVE  Current(s) \in Commands /\ req[s].phase # "free" /\ req[s].route \in {"online", "sync"}
<1>1. req[s] \in RequestType /\ Placed(s)
  BY DEF Inv, ReplayType, GoodRequest
<1>2. req[s].batch \in Seq(Commands) /\ req[s].pos \in 1..Len(req[s].batch)
  BY <1>1 DEF RequestType, Placed
<1>3. Current(s) \in Commands
  BY <1>2 DEF Current
<1>4. req[s].route \in {"free", "online", "sync"} /\ req[s].phase # "free"
  BY <1>1 DEF RequestType, Working
<1> QED BY <1>1, <1>3, <1>4 DEF Placed

LEMMA SkipInv == ASSUME Inv, NEW s \in Slots, Skip(s) PROVE Inv'
<1>1. /\ req[s].phase \in {"receive", "mark"} /\ req' = [req EXCEPT ![s] = Continue(s, "conflict", 0)]
      /\ UNCHANGED <<client, flush, log>> /\ UNCHANGED <<row, faults>>
  BY DEF Skip, At
<1>2. /\ row' \in [Commands -> RowType] /\ faults' \in Nat
      /\ \A c \in Commands : row'[c].status = "SYNCED" => row'[c].revision \in Commits(c)
  BY <1>1, RowsKept
<1>3. "conflict" \in Answers /\ "conflict" \notin Done /\ 0 \in Nat /\ 0 <= Len(log)
  <2>1. Len(log) \in Nat
    BY LogType DEF Inv
  <2> QED BY <2>1 DEF Answers, Done
<1> QED BY <1>1, <1>2, <1>3, Continues

LEMMA ReceiveInv == ASSUME Inv, NEW s \in Slots, Receive(s) PROVE Inv'
<1> DEFINE c == Current(s)
<1>1. /\ req[s].phase = "receive" /\ UNCHANGED <<client, flush, log>> /\ UNCHANGED faults
      /\ row' = IF row[c].status = "none" THEN [row EXCEPT ![c].status = "SYNCING"] ELSE row
  BY DEF Receive, At
<1>2. c \in Commands /\ req[s].phase \in Working /\ req[s].phase # "free"
  BY <1>1, CurrentCommand DEF Working
<1>3. /\ row' \in [Commands -> RowType] /\ faults' \in Nat
      /\ \A d \in Commands : row'[d].status = "SYNCED" => row'[d].revision \in Commits(d)
  <2>1. CASE row[c].status # "none"
    BY <1>1, <2>1, RowsKept
  <2>2. CASE row[c].status = "none"
    <3> DEFINE x == [row[c] EXCEPT !.status = "SYNCING"]
    <3>1. x \in RowType /\ x.status = "SYNCING" /\ row' = [row EXCEPT ![c] = x]
      <4>1. row[c] \in RowType
        BY <1>2, RowsKept
      <4> QED BY <1>1, <2>2, <4>1 DEF RowType
    <3> HIDE DEF x
    <3>2. /\ row' \in [Commands -> RowType] /\ row'[c] = x
          /\ \A d \in Commands : d # c => row'[d] = row[d]
      BY <1>2, <3>1, RowsKept
    <3> QED BY <1>1, <3>1, <3>2, RowsKept
  <2> QED BY <2>1, <2>2
<1>4. Len(log) \in Nat
  BY LogType DEF Inv
<1>5. CASE row[c].status = "SYNCED"
  <2>1. req' = [req EXCEPT ![s] = Continue(s, "duplicate", row[c].revision)]
    BY <1>5 DEF Receive
  <2>2. row[c].revision \in Commits(Current(s)) /\ row[c].revision \in Nat
    BY <1>2, <1>5, RowsKept DEF RowType
  <2>3. row[c].revision <= Len(log)
    BY <1>4, <2>2 DEF Commits
  <2>4. "duplicate" \in Answers /\ req[s].phase \in {"receive", "mark"}
    BY <1>1 DEF Answers, Done
  <2> HIDE DEF c
  <2> QED BY <1>1, <1>3, <2>1, <2>2, <2>3, <2>4, Continues
<1>6. CASE row[c].status = "CONFLICT"
  <2>1. req' = [req EXCEPT ![s] = Continue(s, "conflict", 0)]
    BY <1>6 DEF Receive
  <2>2. /\ "conflict" \in Answers /\ "conflict" \notin Done /\ req[s].phase \in {"receive", "mark"}
        /\ 0 \in Nat /\ 0 <= Len(log)
    BY <1>1, <1>4 DEF Answers, Done
  <2> QED BY <1>1, <1>3, <2>1, <2>2, Continues
<1>7. CASE row[c].status \notin {"SYNCED", "CONFLICT"}
  <2> DEFINE x == [req[s] EXCEPT !.phase = "lookup"]
  <2>1. req' = [req EXCEPT ![s] = x]
    BY <1>7 DEF Receive, Inv, ReplayType
  <2>2. "lookup" \in Phases /\ "lookup" \in Working
    BY DEF Phases, Working
  <2>3. /\ Edited(s, x, "lookup", req[s].outcome, req[s].rev)
        /\ req[s].rev \in Nat /\ req[s].outcome \in Outcomes /\ req[s].rev <= Len(log)
    <3>1. req[s].outcome \in Outcomes /\ req[s].rev \in Nat
      BY DEF Inv, ReplayType, RequestType
    <3>2. req[s].rev <= Len(log)
      BY DEF Inv, GoodRequest, Based
    <3> QED BY <2>2, <3>1, <3>2, Edits DEF Inv
  <2> HIDE DEF x
  <2> QED BY <1>1, <1>2, <1>3, <2>1, <2>2, <2>3, Finishes
<1> QED BY <1>5, <1>6, <1>7

\* Finish, with an outcome that is true.
LEMMA FinishInv ==
  ASSUME Inv, NEW s \in Slots, req[s].phase \in {"lookup", "execute"},
         NEW a \in Outcomes \ {"none", "denied"}, NEW v \in Nat, v <= Len(log), Finish(s, a, v),
         a \in Done => v \in Commits(Current(s)),
         UNCHANGED <<client, flush, log>>, UNCHANGED row, faults' \in Nat
  PROVE  Inv'
<1> DEFINE p == IF req[s].route = "sync" THEN "mark" ELSE "answered"
           x == [req[s] EXCEPT !.outcome = a, !.rev = v, !.phase = p]
<1>1. p \in Phases \ {"free", "receive", "error"} /\ req[s].phase \in Working /\ req[s].phase # "free"
  BY DEF Phases, Working
<1>2. Edited(s, x, p, a, v) /\ req' = [req EXCEPT ![s] = x]
  <2>1. req' = [req EXCEPT ![s] = x]
    BY DEF Finish, Inv, ReplayType
  <2> QED BY <1>1, <2>1, Edits DEF Inv
<1>3. p = "mark" => req[s].route = "sync"
  OBVIOUS
<1>4. p = "answered" => req[s].route = "online"
  BY <1>1, CurrentCommand
<1>5. /\ row' \in [Commands -> RowType]
      /\ \A c \in Commands : row'[c].status = "SYNCED" => row'[c].revision \in Commits(c)
  BY RowsKept
<1> HIDE DEF x, p
<1> QED BY <1>1, <1>2, <1>3, <1>4, <1>5, Finishes

LEMMA FinishStoredInv ==
  ASSUME Inv, NEW s \in Slots, req[s].phase \in {"lookup", "execute"}, FinishStored(s),
         UNCHANGED <<client, flush, log>>, UNCHANGED row, faults' \in Nat
  PROVE  Inv'
<1>1. PICK i \in Commits(Current(s)) : IF SameHash(Current(s), req[s].route)
                                       THEN Finish(s, "duplicate", i) ELSE Finish(s, "error", 0)
  BY DEF FinishStored
<1>2. Len(log) \in Nat /\ i \in Nat /\ i <= Len(log) /\ 0 <= Len(log)
  <2>1. Len(log) \in Nat /\ i \in 1..Len(log)
    BY LogType DEF Inv, Commits
  <2> QED BY <2>1
<1>3. "duplicate" \in Outcomes \ {"none", "denied"} /\ "error" \in Outcomes \ {"none", "denied"} /\ "error" \notin Done
  BY DEF Outcomes, Answers, Done
<1>4. CASE SameHash(Current(s), req[s].route)
  BY <1>1, <1>2, <1>3, <1>4, FinishInv
<1>5. CASE ~ SameHash(Current(s), req[s].route)
  BY <1>1, <1>2, <1>3, <1>5, FinishInv
<1> QED BY <1>4, <1>5

LEMMA LookupInv == ASSUME Inv, NEW s \in Slots, Lookup(s) PROVE Inv'
<1>1. /\ req[s].phase = "lookup" /\ UNCHANGED <<client, flush, log>> /\ UNCHANGED row /\ faults' \in Nat
      /\ req[s].phase \in {"lookup", "execute"}
  BY RowsKept DEF Lookup, At
<1>2. CASE FinishStored(s)
  BY <1>1, <1>2, FinishStoredInv
<1>3. CASE req' = [req EXCEPT ![s].phase = "execute"]
  <2> DEFINE x == [req[s] EXCEPT !.phase = "execute"]
  <2>1. req' = [req EXCEPT ![s] = x]
    BY <1>3 DEF Inv, ReplayType
  <2>2. "execute" \in Phases /\ "execute" \in Working /\ req[s].phase \in Working /\ req[s].phase # "free"
    BY <1>1 DEF Phases, Working
  <2>3. /\ Edited(s, x, "execute", req[s].outcome, req[s].rev)
        /\ req[s].rev \in Nat /\ req[s].outcome \in Outcomes /\ req[s].rev <= Len(log)
    <3>1. req[s].outcome \in Outcomes /\ req[s].rev \in Nat
      BY DEF Inv, ReplayType, RequestType
    <3>2. req[s].rev <= Len(log)
      BY DEF Inv, GoodRequest, Based
    <3> QED BY <2>2, <3>1, <3>2, Edits DEF Inv
  <2>4. /\ row' \in [Commands -> RowType]
        /\ \A c \in Commands : row'[c].status = "SYNCED" => row'[c].revision \in Commits(c)
    BY <1>1, RowsKept
  <2> HIDE DEF x
  <2> QED BY <1>1, <2>1, <2>2, <2>3, <2>4, Finishes
<1> QED BY <1>2, <1>3 DEF Lookup

LEMMA ExecuteConflictInv == ASSUME Inv, NEW s \in Slots, ExecuteConflict(s) PROVE Inv'
<1>1. /\ req[s].phase \in {"lookup", "execute"} /\ UNCHANGED <<client, flush, log>> /\ UNCHANGED row
      /\ Finish(s, "conflict", Len(log)) /\ faults' \in Nat
  BY RowsKept DEF ExecuteConflict, At, Revision
<1>2. Len(log) \in Nat /\ Len(log) <= Len(log)
  BY LogType DEF Inv
<1>3. "conflict" \in Outcomes \ {"none", "denied"} /\ "conflict" \notin Done
  BY DEF Outcomes, Answers, Done
<1> QED BY <1>1, <1>2, <1>3, FinishInv

LEMMA ExecuteOtherInv ==
  ASSUME Inv, NEW s \in Slots, ExecuteDuplicate(s) \/ ExecuteRejected(s) PROVE Inv'
<1>1. /\ req[s].phase \in {"lookup", "execute"} /\ UNCHANGED <<client, flush, log>> /\ UNCHANGED row
      /\ faults' \in Nat
  BY RowsKept DEF ExecuteDuplicate, ExecuteRejected, At
<1>2. CASE FinishStored(s)
  BY <1>1, <1>2, FinishStoredInv
<1>3. CASE Finish(s, "error", 0)
  <2>1. 0 \in Nat /\ 0 <= Len(log)
    BY LogType DEF Inv
  <2>2. "error" \in Outcomes \ {"none", "denied"} /\ "error" \notin Done
    BY DEF Outcomes, Answers, Done
  <2> QED BY <1>1, <1>3, <2>1, <2>2, FinishInv
<1> QED BY <1>2, <1>3 DEF ExecuteDuplicate, ExecuteRejected

\* A row of offline_commands is replaced.
LEMMA RowWritten ==
  ASSUME Inv, NEW c \in Commands, NEW x \in RowType, row' = [row EXCEPT ![c] = x],
         x.status = "SYNCED" => x.revision \in Commits(c)
  PROVE  /\ row' \in [Commands -> RowType]
         /\ \A d \in Commands : row'[d].status = "SYNCED" => row'[d].revision \in Commits(d)
<1>1. row' \in [Commands -> RowType] /\ row'[c] = x /\ \A d \in Commands : d # c => row'[d] = row[d]
  BY RowsKept
<1> QED BY <1>1, RowsKept

\* The row the UPDATE writes.
LEMMA MarkedRow ==
  ASSUME Inv, NEW s \in Slots, req[s].phase = "mark"
  PROVE  /\ req[s].outcome \in Outcomes /\ req[s].rev \in Nat /\ req[s].rev <= Len(log)
         /\ req[s].outcome \in Done => req[s].rev \in Commits(Current(s))
         /\ Marked(s) \in [Commands -> RowType]
         /\ \A d \in Commands : Marked(s)[d].status = "SYNCED" => Marked(s)[d].revision \in Commits(d)
<1> DEFINE c == Current(s)
<1>1. c \in Commands /\ row[c] \in RowType /\ row \in [Commands -> RowType]
  BY CurrentCommand, RowsKept DEF Working
<1>2. /\ req[s].outcome \in Outcomes /\ req[s].rev \in Nat /\ req[s].rev <= Len(log)
      /\ req[s].outcome \in Done => req[s].rev \in Commits(c)
  <2>1. req[s].outcome \in Outcomes /\ req[s].rev \in Nat
    BY DEF Inv, ReplayType, RequestType
  <2>2. Truthful(s) /\ Based(s)
    BY DEF Inv, GoodRequest
  <2> QED BY <2>1, <2>2 DEF Truthful, Based, Current
<1>3. PICK y \in RowType : Marked(s) = [row EXCEPT ![c] = y] /\ (y.status = "SYNCED" => y.revision \in Commits(c))
  <2>1. CASE req[s].outcome \in Done
    <3> DEFINE x == [status |-> "SYNCED", revision |-> req[s].rev]
    <3>1. x \in RowType /\ x.revision = req[s].rev
      BY <1>2 DEF RowType
    <3>2. Marked(s) = [row EXCEPT ![c] = x]
      BY <2>1 DEF Marked, Done
    <3> HIDE DEF x
    <3> QED BY <1>2, <2>1, <3>1, <3>2
  <2>2. CASE req[s].outcome = "conflict"
    <3> DEFINE x == [row[c] EXCEPT !.status = "CONFLICT"]
    <3>1. x \in RowType /\ x.status = "CONFLICT"
      BY <1>1 DEF RowType
    <3>2. Marked(s) = [row EXCEPT ![c] = x]
      BY <2>2, <1>1 DEF Marked
    <3> HIDE DEF x
    <3> QED BY <3>1, <3>2
  <2>3. CASE req[s].outcome \notin Done \cup {"conflict"}
    <3> DEFINE x == [row[c] EXCEPT !.status = "FAILED"]
    <3>1. x \in RowType /\ x.status = "FAILED"
      BY <1>1 DEF RowType
    <3>2. Marked(s) = [row EXCEPT ![c] = x]
      BY <2>3, <1>1 DEF Marked, Done
    <3> HIDE DEF x
    <3> QED BY <3>1, <3>2
  <2> QED BY <2>1, <2>2, <2>3
<1> HIDE DEF c
<1>4. /\ Marked(s) \in [Commands -> RowType] /\ Marked(s)[c] = y
      /\ \A d \in Commands : d # c => Marked(s)[d] = row[d]
  BY <1>1, <1>3
<1>5. \A d \in Commands : Marked(s)[d].status = "SYNCED" => Marked(s)[d].revision \in Commits(d)
  BY <1>3, <1>4, RowsKept
<1> QED BY <1>2, <1>4, <1>5 DEF c

LEMMA MarkInv == ASSUME Inv, NEW s \in Slots, Mark(s) PROVE Inv'
<1> DEFINE c == Current(s)
<1>1. /\ req[s].phase = "mark" /\ UNCHANGED <<client, flush, log>> /\ UNCHANGED faults /\ row' = Marked(s)
  BY DEF Mark, At
<1>2. c \in Commands /\ req[s].phase \in Working /\ req[s].phase # "free"
  BY <1>1, CurrentCommand DEF Working
<1>3. /\ req[s].outcome \in Outcomes /\ req[s].rev \in Nat /\ req[s].rev <= Len(log)
      /\ req[s].outcome \in Done => req[s].rev \in Commits(c)
  BY <1>1, MarkedRow
<1>5. /\ row' \in [Commands -> RowType] /\ faults' \in Nat
      /\ \A d \in Commands : row'[d].status = "SYNCED" => row'[d].revision \in Commits(d)
  BY <1>1, MarkedRow, RowsKept
<1>6. CASE req[s].outcome = "error"
  <2> DEFINE x == [req[s] EXCEPT !.phase = "error"]
  <2>1. req' = [req EXCEPT ![s] = x]
    BY <1>6 DEF Mark, Inv, ReplayType
  <2>2. "error" \in Phases /\ "error" \notin Working
    BY DEF Phases, Working
  <2>3. Edited(s, x, "error", req[s].outcome, req[s].rev)
    BY <1>3, <2>2, Edits DEF Inv
  <2> HIDE DEF x
  <2> QED BY <1>1, <1>2, <1>3, <1>5, <1>6, <2>1, <2>2, <2>3, Finishes
<1>7. CASE req[s].outcome \in Answers
  <2>1. req' = [req EXCEPT ![s] = Continue(s, req[s].outcome, req[s].rev)] /\ req[s].phase \in {"receive", "mark"}
    BY <1>1, <1>7 DEF Mark, Answers, Done
  <2> QED BY <1>1, <1>3, <1>5, <1>7, <2>1, Continues
<1>8. CASE req[s].outcome \in {"none", "denied"}
  BY <1>1, <1>8 DEF Inv, GoodRequest, Placed
<1> QED BY <1>3, <1>6, <1>7, <1>8 DEF Outcomes

\* The handler answers with an error.
LEMMA ErrorInv ==
  ASSUME Inv, NEW s \in Slots, NEW a \in {"error", "denied"},
         req' = [req EXCEPT ![s].phase = "error", ![s].outcome = a],
         req[s].phase # "free", UNCHANGED <<client, flush, log>>,
         row' \in [Commands -> RowType], faults' \in Nat,
         \A c \in Commands : row'[c].status = "SYNCED" => row'[c].revision \in Commits(c)
  PROVE  Inv'
<1> DEFINE x == [req[s] EXCEPT !.phase = "error", !.outcome = a]
<1>1. req' = [req EXCEPT ![s] = x]
  BY DEF Inv, ReplayType
<1>2. "error" \in Phases /\ "error" \notin Working /\ a \in Outcomes
  BY DEF Phases, Working, Outcomes
<1>3. req[s].rev \in Nat /\ req[s].rev <= Len(log)
  BY DEF Inv, ReplayType, RequestType, GoodRequest, Based
<1>4. Edited(s, x, "error", a, req[s].rev)
  BY <1>2, <1>3, Edits DEF Inv
<1> HIDE DEF x
<1> QED BY <1>1, <1>2, <1>3, <1>4, Finishes

\* The request fails, for the whole batch.
LEMMA FailInv ==
  ASSUME Inv, NEW s \in Slots,
         RefuseNumbers(s) \/ ReceiveRefused(s) \/ MarkFails(s) \/ Deny(s) \/ FollowUpFails(s)
  PROVE  Inv'
<1>1. PICK a \in {"error", "denied"} : req' = [req EXCEPT ![s].phase = "error", ![s].outcome = a]
  BY DEF RefuseNumbers, ReceiveRefused, MarkFails, Deny, FollowUpFails
<1>2. /\ UNCHANGED <<client, flush, log>> /\ faults' \in {faults, faults + 1}
      /\ req[s].phase \in {"mark", "receive", "answered"}
  BY DEF RefuseNumbers, ReceiveRefused, MarkFails, Deny, FollowUpFails, At
<1>3. /\ row' \in [Commands -> RowType] /\ faults' \in Nat
      /\ \A c \in Commands : row'[c].status = "SYNCED" => row'[c].revision \in Commits(c)
  <2>1. CASE UNCHANGED row
    BY <1>2, <2>1, RowsKept
  <2>2. CASE MarkFails(s) /\ row' = Marked(s)
    BY <1>2, <2>2, MarkedRow, RowsKept DEF MarkFails, At
  <2> QED BY <2>1, <2>2 DEF RefuseNumbers, ReceiveRefused, MarkFails, Deny, FollowUpFails
<1> QED BY <1>1, <1>2, <1>3, ErrorInv

\* The catch block takes the failure of the UPDATE for the outcome of the command.
LEMMA MarkMistakenInv == ASSUME Inv, NEW s \in Slots, MarkMistaken(s) PROVE Inv'
<1> DEFINE c == Current(s)
<1>1. /\ req[s].phase = "mark" /\ UNCHANGED <<client, flush, log>> /\ faults' = faults + 1
  BY DEF MarkMistaken, At
<1>2. PICK mark \in {"CONFLICT", "FAILED"} :
        /\ row' = [row EXCEPT ![c].status = mark]
        /\ req' = [req EXCEPT ![s] = IF mark = "CONFLICT" THEN Continue(s, "conflict", 0)
                                     ELSE [@ EXCEPT !.phase = "error", !.outcome = "error"]]
  BY DEF MarkMistaken
<1>3. c \in Commands /\ row[c] \in RowType /\ row \in [Commands -> RowType] /\ faults' \in Nat
  BY <1>1, CurrentCommand, RowsKept DEF Working
<1>4. /\ row' \in [Commands -> RowType]
      /\ \A d \in Commands : row'[d].status = "SYNCED" => row'[d].revision \in Commits(d)
  <2> DEFINE x == [row[c] EXCEPT !.status = mark]
  <2>1. x \in RowType /\ x.status = mark /\ row' = [row EXCEPT ![c] = x]
    BY <1>2, <1>3 DEF RowType
  <2> HIDE DEF x, c
  <2> QED BY <1>3, <2>1, RowWritten
<1>5. CASE mark = "CONFLICT"
  <2>1. req' = [req EXCEPT ![s] = Continue(s, "conflict", 0)] /\ req[s].phase \in {"receive", "mark"}
    BY <1>1, <1>2, <1>5
  <2>2. "conflict" \in Answers /\ "conflict" \notin Done /\ 0 \in Nat /\ 0 <= Len(log)
    <3>1. Len(log) \in Nat
      BY LogType DEF Inv
    <3> QED BY <3>1 DEF Answers, Done
  <2> QED BY <1>1, <1>3, <1>4, <2>1, <2>2, Continues
<1>6. CASE mark = "FAILED"
  <2>1. req' = [req EXCEPT ![s].phase = "error", ![s].outcome = "error"]
    BY <1>2, <1>6
  <2> QED BY <1>1, <1>3, <1>4, <2>1, ErrorInv
<1> QED BY <1>5, <1>6

LEMMA StopInv == ASSUME Inv, NEW s \in Slots, Stop(s) PROVE Inv'
<1>1. /\ UNCHANGED <<client, flush, log>> /\ UNCHANGED row /\ faults' = faults + 1 /\ req[s].phase # "free"
      /\ req' = [req EXCEPT ![s].phase = "dead"]
  BY DEF Stop
<1>2. /\ row' \in [Commands -> RowType] /\ faults' \in Nat
      /\ \A c \in Commands : row'[c].status = "SYNCED" => row'[c].revision \in Commits(c)
  BY <1>1, RowsKept
<1> DEFINE x == [req[s] EXCEPT !.phase = "dead"]
<1>3. req' = [req EXCEPT ![s] = x]
  BY <1>1 DEF Inv, ReplayType
<1>4. "dead" \in Phases /\ "dead" \notin Working
  BY DEF Phases, Working
<1>5. req[s].rev \in Nat /\ req[s].rev <= Len(log) /\ req[s].outcome \in Outcomes
  BY DEF Inv, ReplayType, RequestType, GoodRequest, Based
<1>6. Edited(s, x, "dead", req[s].outcome, req[s].rev)
  BY <1>4, <1>5, Edits DEF Inv
<1> HIDE DEF x
<1> QED BY <1>1, <1>2, <1>3, <1>4, <1>5, <1>6, Finishes

LEMMA FreeIsGood ==
  ASSUME ReplayType, NEW s \in Slots, req'[s] = Free, Len(log') \in Nat PROVE GoodRequest(s)'
<1>1. Len(<<>>) = 0
  OBVIOUS
<1>2. -1 <= Len(log') /\ 0 <= Len(log')
  OBVIOUS
<1>3. Placed(s)'
  BY Empty DEF Placed, Working
<1>4. Ordered(s)' /\ Truthful(s)'
  BY <1>1, Empty DEF Ordered, Truthful, Done
<1>5. Based(s)'
  BY <1>2, Empty DEF Based, NoRevision
<1> QED BY <1>3, <1>4, <1>5 DEF GoodRequest

LEMMA DiscardInv == ASSUME Inv, NEW s \in Slots, Discard(s) PROVE Inv'
<1>1. /\ UNCHANGED <<client, flush, log>> /\ UNCHANGED <<row, faults>> /\ req' = [req EXCEPT ![s] = Free]
      /\ ~ req[s].awaited
  BY DEF Discard
<1>2. /\ row' \in [Commands -> RowType] /\ faults' \in Nat
      /\ \A c \in Commands : row'[c].status = "SYNCED" => row'[c].revision \in Commits(c)
  BY <1>1, RowsKept
<1>3. GoodRequest(s)'
  <2>1. req'[s] = Free /\ Len(log') \in Nat
    BY <1>1, LogType DEF Inv, ReplayType
  <2> QED BY <2>1, FreeIsGood DEF Inv
<1>4. flush # s
  BY <1>1 DEF Inv, WaitInv
<1> QED BY <1>1, <1>2, <1>3, <1>4, Empty, Serves

-----------------------------------------------------------------------------
(* Steps that commit                                                         *)

LEMMA RemoteCommitInv == ASSUME Inv, RemoteCommit PROVE Inv'
<1> DEFINE e == [cmd |-> Remote, route |-> "online"]
<1>1. e \in CommitType /\ e.cmd = Remote
  BY DEF CommitType
<1>2. /\ log' = Append(log, e) /\ UNCHANGED <<status, drawn, seq, late, expected, lastSeq, revisionRef, snapshot>>
      /\ UNCHANGED <<flush, req, row, faults>>
  BY DEF RemoteCommit, client, queue
<1> HIDE DEF e
<1>3. /\ Moves /\ log' \in Seq(CommitType) /\ Len(log') = Len(log) + 1
      /\ \A c : Commits(c)' = IF c = e.cmd THEN Commits(c) \cup {Len(log) + 1} ELSE Commits(c)
  BY <1>1, <1>2, Appending DEF Inv
<1>4. \A c \in Commands : Commits(c)' = Commits(c) /\ Commits(c) \subseteq 1..Len(log)
  BY <1>1, <1>3, CommandNumbers, LogType DEF Inv
<1>5. \A i \in 1..Len(log) : log'[i] = log[i]
  BY <1>3 DEF Moves
<1>6. ReplayType'
  BY <1>2, <1>3 DEF Inv, ReplayType
<1>7. \A u \in Slots : GoodRequest(u)'
  BY <1>2, <1>3, OthersKeep DEF Inv
<1>8. \A c \in Commands : \A j : Later(c, j)' <=> Later(c, j)
  BY <1>2, <1>4, <1>5 DEF Later, InTurn
<1>9. QueueInv'
  <2>1. Len(log) \in Nat
    BY LogType DEF Inv
  <2>2. revisionRef <= Len(log') /\ snapshot <= Len(log')
    <3>1. revisionRef \in Int /\ snapshot \in Int
      BY DEF Inv, ReplayType, NoRevision
    <3> QED BY <1>3, <2>1, <3>1 DEF Inv, QueueInv
  <2>3. ASSUME NEW c \in Commands
        PROVE  (/\ expected[c] <= Len(log)
                /\ status[c] \in {"new", "posted", "drawing", "numbered"} => seq[c] = 0
                /\ status[c] \in {"drawing", "numbered"} => drawn[c] # 0
                /\ status[c] \in {"PENDING", "SYNCING"} => seq[c] # 0
                /\ \A j \in Commits(c) : log[j].route = "sync" => seq[c] # 0
                /\ \A j \in 1..Len(log) : Later(c, j) => expected[c] < j)'
    <3>1. expected[c] \in Nat
      BY DEF Inv, ReplayType
    <3>2. expected[c] <= Len(log')
      BY <1>3, <2>1, <3>1 DEF Inv, QueueInv
    <3>3. ASSUME NEW j \in 1..Len(log'), Later(c, j) PROVE expected[c] < j
      <4>1. j \in 1..Len(log)
        BY <1>4, <3>3 DEF Later
      <4> QED BY <3>3, <4>1 DEF Inv, QueueInv
    <3>4. \A j \in Commits(c) : log'[j].route = "sync" => seq[c] # 0
      BY <1>4, <1>5 DEF Inv, QueueInv
    <3> QED BY <1>2, <1>4, <1>8, <3>2, <3>3, <3>4 DEF Inv, QueueInv
  <2> QED BY <1>2, <2>2, <2>3 DEF Inv, QueueInv
<1>10. WaitInv'
  BY <1>2 DEF Inv, WaitInv, Waits
<1>11. CommittedOnce' /\ AcknowledgedIsApplied'
  BY <1>2, <1>4 DEF Inv, CommittedOnce, AcknowledgedIsApplied
<1>12. AppliedInSequence'
  BY <1>2, <1>4, <1>5 DEF Inv, AppliedInSequence, InTurn
<1> QED BY <1>6, <1>7, <1>9, <1>10, <1>11, <1>12 DEF Inv

\* A command that is not stale was queued after every command the replay has committed:
\* the revision it builds on is that of a commit of an older command of its batch, or was
\* on screen when it was queued or posted.
LEMMA FreshIsLast ==
  ASSUME Inv, NEW s \in Slots, req[s].phase = "execute", ~ Stale(s), NEW j \in 1..Len(log), Later(Current(s), j)
  PROVE  FALSE
<1> DEFINE c == Current(s)
<1>1. /\ c \in Commands /\ req[s].route \in {"online", "sync"} /\ req[s].phase \in Working
      /\ Len(log) \in Nat /\ req[s] \in RequestType
  BY CurrentCommand, LogType DEF Inv, ReplayType, Working
<1>2. ExpectedBy(s) = Len(log)
  BY DEF Stale, Revision
<1>3. Placed(s) /\ Ordered(s) /\ Based(s)
  BY DEF Inv, GoodRequest
<1>4. j <= Len(log) /\ j \in Nat
  BY <1>1
<1>5. CASE req[s].route = "online"
  <2>1. c = req[s].batch[1]
    BY <1>3, <1>5 DEF Placed, Current
  <2>2. req[s].chained < j /\ req[s].chained = Len(log)
    BY <1>2, <1>3, <1>5, <2>1 DEF Based, ExpectedBy
  <2> QED BY <1>1, <1>4, <2>2
<1>6. CASE req[s].route = "sync" /\ req[s].chained = NoRevision
  <2>1. expected[c] = Len(log)
    BY <1>2, <1>6 DEF ExpectedBy
  <2>2. expected[c] < j
    BY <1>1 DEF Inv, QueueInv
  <2> QED BY <1>1, <1>4, <2>1, <2>2
<1>7. CASE req[s].route = "sync" /\ req[s].chained # NoRevision
  <2>1. PICK k \in 1..(req[s].pos - 1) : req[s].chained \in Commits(req[s].batch[k])
    BY <1>1, <1>3, <1>7 DEF Based
  <2> DEFINE b == req[s].batch[k]
  <2>2. req[s].pos \in 1..Len(req[s].batch) /\ k \in 1..Len(req[s].batch) /\ k < req[s].pos
    <3>1. req[s].pos \in 1..Len(req[s].batch) /\ Len(req[s].batch) \in Nat
      BY <1>1, <1>3 DEF Placed, RequestType
    <3> QED BY <2>1, <3>1
  <2>3. b \in Commands /\ seq[b] # 0 /\ seq[b] <= seq[c]
    <3>1. b \in Commands
      BY <1>1, <2>2 DEF RequestType
    <3> QED BY <1>3, <1>7, <2>2, <3>1 DEF Ordered, Current
  <2>4. PICK d \in Commands : /\ seq[c] # 0 /\ seq[d] # 0 /\ seq[c] < seq[d] /\ InTurn(c)
                              /\ j \in Commits(d) /\ log[j].route = "sync"
    BY DEF Later
  <2>5. seq[b] < seq[d] /\ InTurn(b)
    <3>1. /\ seq[b] \in Nat /\ seq[c] \in Nat /\ seq[d] \in Nat
          /\ \A e \in late : seq[e] \in Nat
      BY <1>1, <2>3, <2>4 DEF Inv, ReplayType
    <3>2. seq[b] < seq[d]
      BY <2>3, <2>4, <3>1
    <3>3. \A e \in late : seq[e] > seq[c]
      BY <2>4 DEF InTurn
    <3>4. \A e \in late : seq[e] > seq[b]
      BY <2>3, <3>1, <3>3
    <3> QED BY <3>2, <3>4 DEF InTurn
  <2>6. req[s].chained < j
    BY <2>1, <2>3, <2>4, <2>5 DEF Inv, AppliedInSequence
  <2>7. req[s].chained = Len(log)
    BY <1>2, <1>7 DEF ExpectedBy
  <2> QED BY <1>1, <1>4, <2>6, <2>7
<1> QED BY <1>1, <1>5, <1>6, <1>7

LEMMA ExecuteInv == ASSUME Inv, NEW s \in Slots, Execute(s) PROVE Inv'
<1> DEFINE c == Current(s)
           e == [cmd |-> c, route |-> req[s].route]
           n == Len(log) + 1
           p == IF req[s].route = "sync" THEN "mark" ELSE "answered"
           x == [req[s] EXCEPT !.outcome = "accepted", !.rev = n, !.phase = p]
<1>1. /\ req[s].phase = "execute" /\ ~ Stale(s) /\ Commits(c) = {} /\ log' = Append(log, e)
      /\ UNCHANGED <<status, drawn, seq, late, expected, lastSeq, revisionRef, snapshot>> /\ UNCHANGED <<flush, row, faults>>
      /\ req' = [req EXCEPT ![s] = x]
  <2>1. req' = [req EXCEPT ![s] = x]
    BY DEF Execute, Finish, Inv, ReplayType
  <2> QED BY <2>1 DEF Execute, At, client, queue
<1>2. /\ c \in Commands /\ req[s].route \in {"online", "sync"} /\ req[s].phase \in Working /\ req[s].phase # "free"
      /\ Len(log) \in Nat /\ n \in Nat
  BY <1>1, CurrentCommand, LogType DEF Inv, Working
<1>3. e \in CommitType /\ e.cmd = c /\ e.route = req[s].route
  BY <1>2 DEF CommitType
<1>4. /\ p \in Phases \ {"free", "receive", "error"} /\ "accepted" \in Outcomes /\ "accepted" \notin {"none", "denied"}
      /\ (p = "mark" => req[s].route = "sync") /\ (p = "answered" => req[s].route = "online")
  BY <1>2 DEF Phases, Outcomes, Answers, Done
<1>5. Edited(s, x, p, "accepted", n)
  BY <1>2, <1>4, Edits DEF Inv
<1>6. c = x.batch[x.pos]
  BY <1>5 DEF Edited, Current
<1> HIDE DEF x, p, e, c
<1>7. /\ Moves /\ log' \in Seq(CommitType) /\ Len(log') = n /\ log'[n] = e
      /\ \A d : Commits(d)' = IF d = c THEN Commits(d) \cup {n} ELSE Commits(d)
  BY <1>1, <1>3, Appending DEF Inv
<1> HIDE DEF n
<1>8. /\ \A d : Commits(d) \subseteq 1..Len(log)
      /\ \A i \in 1..Len(log) : log'[i] = log[i] /\ i # n /\ i < n
  <2>1. \A i \in 1..Len(log) : log'[i] = log[i]
    BY <1>7 DEF Moves
  <2> QED BY <1>2, <2>1, LogType DEF Inv, n
<1>9. req' \in [Slots -> RequestType] /\ req'[s] = x /\ \A u \in Slots : u # s => req'[u] = req[u]
  BY <1>1, <1>5 DEF Inv, ReplayType, Edited
<1>10. ReplayType'
  BY <1>1, <1>7, <1>9 DEF Inv, ReplayType
<1>11. \A u \in Slots : GoodRequest(u)'
  <2>1. ASSUME NEW u \in Slots, u # s PROVE GoodRequest(u)'
    BY <1>7, <1>9, <2>1, OthersKeep DEF Inv
  <2>2. GoodRequest(s)'
    <3>0. PICK y, m : y = x /\ m = n
      OBVIOUS
    <3>1. m \in Commits(y.batch[y.pos])'
      BY <1>6, <1>7, <3>0
    <3>2. m <= Len(log') /\ m \in Nat /\ Edited(s, y, p, "accepted", m) /\ req'[s] = y
      BY <1>2, <1>5, <1>7, <1>9, <3>0
    <3> QED BY <1>2, <1>4, <1>7, <3>1, <3>2, EditedKeeps DEF Inv
  <2> QED BY <2>1, <2>2
<1>12. \A j \in 1..Len(log) : ~ Later(c, j)
  BY <1>1, FreshIsLast DEF c
<1>13. QueueInv'
  <2>2. revisionRef <= Len(log') /\ snapshot <= Len(log')
    <3>1. revisionRef \in Int /\ snapshot \in Int
      BY DEF Inv, ReplayType, NoRevision
    <3> QED BY <1>2, <1>7, <3>1 DEF Inv, QueueInv, n
  <2>3. ASSUME NEW d \in Commands
        PROVE  (/\ expected[d] <= Len(log)
                /\ status[d] \in {"new", "posted", "drawing", "numbered"} => seq[d] = 0
                /\ status[d] \in {"drawing", "numbered"} => drawn[d] # 0
                /\ status[d] \in {"PENDING", "SYNCING"} => seq[d] # 0
                /\ \A j \in Commits(d) : log[j].route = "sync" => seq[d] # 0
                /\ \A j \in 1..Len(log) : Later(d, j) => expected[d] < j)'
    <3>1. expected[d] \in Nat
      BY DEF Inv, ReplayType
    <3>2. expected[d] <= Len(log) /\ expected[d] <= Len(log')
      BY <1>2, <1>7, <3>1 DEF Inv, QueueInv, n
    <3>3. ASSUME NEW j \in 1..Len(log'), Later(d, j)' PROVE expected[d] < j
      <4>1. Later(d, j) \/ j > Len(log)
        BY <1>7, <3>3 DEF Moves
      <4>2. CASE j > Len(log)
        BY <1>2, <3>1, <3>2, <4>2
      <4>3. CASE Later(d, j) /\ j \in 1..Len(log)
        BY <4>3 DEF Inv, QueueInv
      <4> QED BY <1>2, <4>1, <4>2, <4>3
    <3>4. ASSUME NEW j \in Commits(d)', log'[j].route = "sync" PROVE seq[d] # 0
      <4>1. CASE j \in Commits(d)
        BY <1>8, <3>4, <4>1 DEF Inv, QueueInv
      <4>2. CASE j = n /\ d = c
        <5>1. req[s].route = "sync"
          BY <1>3, <1>7, <3>4, <4>2
        <5>2. req[s].pos \in 1..Len(req[s].batch) /\ Ordered(s)
          BY <1>2 DEF Inv, GoodRequest, Placed
        <5> QED BY <4>2, <5>1, <5>2 DEF Ordered, c, Current
      <4> QED BY <1>7, <3>4, <4>1, <4>2
    <3>5. /\ (status[d] \in {"new", "posted", "drawing", "numbered"} => seq[d] = 0)
          /\ (status[d] \in {"drawing", "numbered"} => drawn[d] # 0)
          /\ (status[d] \in {"PENDING", "SYNCING"} => seq[d] # 0)
      BY DEF Inv, QueueInv
    <3> QED BY <1>1, <3>2, <3>3, <3>4, <3>5
  <2> QED BY <1>1, <2>2, <2>3 DEF Inv, QueueInv
<1>14. WaitInv'
  <2>1. x.route = req[s].route /\ x.batch = req[s].batch /\ x.awaited = req[s].awaited
    BY <1>5 DEF Edited
  <2>2. \A u \in Slots : /\ Waits(u)' <=> Waits(u)
                         /\ req'[u].batch = req[u].batch /\ req'[u].route = req[u].route
                         /\ req'[u].awaited = req[u].awaited
    BY <1>9, <2>1 DEF Waits
  <2> QED BY <1>1, <2>2 DEF Inv, WaitInv
<1>15. CommittedOnce'
  <2> SUFFICES ASSUME NEW d \in Commands, NEW i \in Commits(d)', NEW j \in Commits(d)' PROVE i = j
    BY DEF CommittedOnce
  <2>1. CASE d = c
    BY <1>1, <1>7, <2>1
  <2>2. CASE d # c
    BY <1>7, <2>2 DEF Inv, CommittedOnce
  <2> QED BY <2>1, <2>2
<1>16. AppliedInSequence'
  <2> SUFFICES ASSUME NEW b \in Commands, NEW d \in Commands, seq[b] # 0, seq[d] # 0, seq[b] < seq[d],
                      InTurn(b), NEW i \in Commits(b)', NEW j \in Commits(d)', log'[j].route = "sync"
               PROVE  i < j
    BY <1>1 DEF AppliedInSequence, InTurn
  <2>1. b # d
    <3>1. seq[b] \in Nat /\ seq[d] \in Nat
      BY DEF Inv, ReplayType
    <3> QED BY <3>1
  <2>2. CASE j \in Commits(d)
    <3>1. Later(b, j)
      BY <1>8, <2>2 DEF Later
    <3>2. b # c
      BY <1>8, <1>12, <2>2, <3>1
    <3>3. i \in Commits(b)
      BY <1>7, <3>2
    <3> QED BY <1>8, <2>2, <3>3 DEF Inv, AppliedInSequence
  <2>3. CASE j = n /\ d = c
    <3>1. i \in Commits(b)
      BY <1>7, <2>1, <2>3
    <3> QED BY <1>8, <2>3, <3>1
  <2> QED BY <1>7, <2>2, <2>3
<1>17. AcknowledgedIsApplied'
  <2>1. \A d : Commits(d) \subseteq Commits(d)'
    BY <1>7
  <2> QED BY <1>1, <2>1 DEF Inv, AcknowledgedIsApplied
<1> QED BY <1>10, <1>11, <1>13, <1>14, <1>15, <1>16, <1>17 DEF Inv

-----------------------------------------------------------------------------
(* The POS                                                                   *)

\* A step that changes only what is shown of commands, and the number or the revision of
\* a command that is not queued yet.
LEMMA StatusQueue ==
  ASSUME Inv, UNCHANGED <<seq, late, log>>, revisionRef' <= Len(log), snapshot' <= Len(log),
         \A c \in Commands :
           /\ expected'[c] = expected[c] \/ (seq[c] = 0 /\ expected'[c] <= Len(log))
           /\ status'[c] \in {"new", "posted", "drawing", "numbered"} => seq[c] = 0
           /\ status'[c] \in {"drawing", "numbered"} => drawn'[c] # 0
           /\ status'[c] \in {"PENDING", "SYNCING"} => seq[c] # 0
  PROVE  Moves /\ QueueInv'
<1>1. Moves
  BY StandingStill DEF Inv
<1>2. \A c \in Commands, j \in 1..Len(log) : Later(c, j)' => Later(c, j) /\ seq[c] # 0
  BY DEF Later, InTurn, Commits
<1>3. \A c \in Commands : /\ expected'[c] <= Len(log)
                          /\ \A j \in 1..Len(log) : Later(c, j)' => expected'[c] < j
  BY <1>2 DEF Inv, QueueInv
<1>4. \A c \in Commands : \A j \in Commits(c)' : log[j].route = "sync" => seq[c] # 0
  BY DEF Inv, QueueInv, Commits
<1>5. \A c \in late : seq[c] # 0
  BY DEF Inv, QueueInv
<1> QED BY <1>1, <1>3, <1>4, <1>5 DEF QueueInv

\* A step of the POS that no request takes part in.
LEMMA DeviceOnly ==
  ASSUME Inv, UNCHANGED <<flush, req, row, log, faults>>, Moves, QueueInv',
         status' \in [Commands -> Statuses], drawn' \in [Commands -> Nat], seq' \in [Commands -> Nat],
         late' \subseteq Commands, expected' \in [Commands -> Nat], lastSeq' \in Nat,
         revisionRef' \in Nat, snapshot' \in Nat \cup {NoRevision},
         \A c \in Commands : /\ status[c] = "posted" => status'[c] = "posted"
                             /\ status'[c] \in {"saved", "SYNCED"} => Commits(c) # {}
  PROVE  Inv'
<1>1. ReplayType'
  BY DEF Inv, ReplayType
<1>2. \A u \in Slots : GoodRequest(u)'
  BY OthersKeep DEF Inv
<1>3. WaitInv'
  <2>1. ASSUME NEW u \in Slots, Waits(u) PROVE req[u].batch[1] \in Commands
    <3>1. Len(req[u].batch) = 1 /\ req[u].batch \in Seq(Commands)
      BY <2>1 DEF Inv, GoodRequest, Placed, Waits, ReplayType, RequestType
    <3> QED BY <3>1
  <2> QED BY <2>1 DEF Inv, WaitInv, Waits
<1>4. CommittedOnce' /\ AppliedInSequence'
  BY NothingCommitted DEF Inv
<1>5. AcknowledgedIsApplied'
  <2>1. \A c : Commits(c)' = Commits(c)
    BY DEF Commits
  <2> QED BY <2>1 DEF Inv, AcknowledgedIsApplied
<1> QED BY <1>1, <1>2, <1>3, <1>4, <1>5 DEF Inv

\* nextSequence reads the last number for a command that is issued or lost.
LEMMA DrawQueue ==
  ASSUME Inv, NEW b \in Commands, status[b] \in {"new", "posted"}, Draw(b), UNCHANGED log
  PROVE  /\ Moves /\ QueueInv' /\ status' \in [Commands -> Statuses] /\ drawn' \in [Commands -> Nat]
         /\ seq' \in [Commands -> Nat] /\ late' \subseteq Commands /\ expected' \in [Commands -> Nat]
         /\ lastSeq' \in Nat /\ revisionRef' \in Nat /\ snapshot' \in Nat \cup {NoRevision}
         /\ \A c \in Commands : status'[c] = IF c = b THEN "drawing" ELSE status[c]
<1>1. /\ status' = [status EXCEPT ![b] = "drawing"] /\ drawn' = [drawn EXCEPT ![b] = lastSeq + 1]
      /\ UNCHANGED <<seq, late, expected, lastSeq, revisionRef, snapshot>>
  BY DEF Draw
<1>2. /\ lastSeq \in Nat /\ status' \in [Commands -> Statuses] /\ drawn' \in [Commands -> Nat]
      /\ \A c \in Commands : status'[c] = IF c = b THEN "drawing" ELSE status[c]
      /\ \A c \in Commands : drawn'[c] = IF c = b THEN lastSeq + 1 ELSE drawn[c]
      /\ seq[b] = 0
  BY <1>1 DEF Inv, ReplayType, Statuses, QueueInv
<1>3. lastSeq + 1 # 0
  BY <1>2
<1>4. Moves /\ QueueInv'
  <2>1. \A c \in Commands :
           /\ status'[c] \in {"new", "posted", "drawing", "numbered"} => seq[c] = 0
           /\ status'[c] \in {"drawing", "numbered"} => drawn'[c] # 0
           /\ status'[c] \in {"PENDING", "SYNCING"} => seq[c] # 0
    BY <1>2, <1>3 DEF Inv, QueueInv, queue
  <2>2. revisionRef' <= Len(log) /\ snapshot' <= Len(log)
    BY <1>1 DEF Inv, QueueInv
  <2> QED BY <1>1, <2>1, <2>2, StatusQueue DEF queue
<1> QED BY <1>1, <1>2, <1>4 DEF Inv, ReplayType

LEMMA IssueOfflineInv == ASSUME Inv, NEW b \in Commands, IssueOffline(b) PROVE Inv'
<1>1. status[b] = "new" /\ Draw(b) /\ UNCHANGED <<flush, req, row, log, faults>>
  BY DEF IssueOffline
<1>2. /\ Moves /\ QueueInv' /\ status' \in [Commands -> Statuses] /\ drawn' \in [Commands -> Nat]
      /\ seq' \in [Commands -> Nat] /\ late' \subseteq Commands /\ expected' \in [Commands -> Nat]
      /\ lastSeq' \in Nat /\ revisionRef' \in Nat /\ snapshot' \in Nat \cup {NoRevision}
      /\ \A c \in Commands : status'[c] = IF c = b THEN "drawing" ELSE status[c]
  BY <1>1, DrawQueue
<1>3. \A c \in Commands : /\ status[c] = "posted" => status'[c] = "posted"
                          /\ status'[c] \in {"saved", "SYNCED"} => Commits(c) # {}
  BY <1>1, <1>2 DEF Inv, AcknowledgedIsApplied
<1> QED BY <1>1, <1>2, <1>3, DeviceOnly

LEMMA NumberInv == ASSUME Inv, NEW b \in Commands, Number(b) PROVE Inv'
<1>1. /\ status[b] = "drawing" /\ status' = [status EXCEPT ![b] = "numbered"]
      /\ lastSeq' = drawn[b] /\ expected' = [expected EXCEPT ![b] = revisionRef]
      /\ UNCHANGED <<drawn, seq, late, revisionRef, snapshot>> /\ UNCHANGED <<flush, req, row, log, faults>>
  BY DEF Number
<1>2. /\ status' \in [Commands -> Statuses] /\ expected' \in [Commands -> Nat] /\ lastSeq' \in Nat
      /\ \A c \in Commands : status'[c] = IF c = b THEN "numbered" ELSE status[c]
      /\ \A c \in Commands : expected'[c] = IF c = b THEN revisionRef ELSE expected[c]
      /\ seq[b] = 0 /\ drawn[b] # 0 /\ revisionRef <= Len(log) /\ snapshot <= Len(log)
  BY <1>1 DEF Inv, ReplayType, Statuses, QueueInv
<1>3. Moves /\ QueueInv'
  <2>1. \A c \in Commands :
           /\ expected'[c] = expected[c] \/ (seq[c] = 0 /\ expected'[c] <= Len(log))
           /\ status'[c] \in {"new", "posted", "drawing", "numbered"} => seq[c] = 0
           /\ status'[c] \in {"drawing", "numbered"} => drawn'[c] # 0
           /\ status'[c] \in {"PENDING", "SYNCING"} => seq[c] # 0
    BY <1>1, <1>2 DEF Inv, QueueInv, queue
  <2> QED BY <1>1, <1>2, <2>1, StatusQueue DEF queue
<1>4. \A c \in Commands : /\ status[c] = "posted" => status'[c] = "posted"
                          /\ status'[c] \in {"saved", "SYNCED"} => Commits(c) # {}
  BY <1>1, <1>2 DEF Inv, AcknowledgedIsApplied
<1>5. /\ drawn' \in [Commands -> Nat] /\ seq' \in [Commands -> Nat] /\ late' \subseteq Commands
      /\ revisionRef' \in Nat /\ snapshot' \in Nat \cup {NoRevision}
  BY <1>1 DEF Inv, ReplayType
<1> QED BY <1>1, <1>2, <1>3, <1>4, <1>5, DeviceOnly

LEMMA EnqueueInv == ASSUME Inv, NEW b \in Commands, Enqueue(b) PROVE Inv'
<1>1. /\ status[b] = "numbered" /\ status' = [status EXCEPT ![b] = "PENDING"]
      /\ seq' = [seq EXCEPT ![b] = drawn[b]]
      /\ late' = IF \E d \in Queued : seq[d] >= drawn[b] THEN late \cup {b} ELSE late
      /\ UNCHANGED <<drawn, expected, lastSeq, revisionRef, snapshot>> /\ UNCHANGED <<flush, req, row, log, faults>>
  BY DEF Enqueue
<1>2. /\ seq[b] = 0 /\ drawn[b] # 0 /\ status' \in [Commands -> Statuses]
      /\ \A c \in Commands : status'[c] = IF c = b THEN "PENDING" ELSE status[c]
      /\ \A c \in Commands : seq'[c] = IF c = b THEN drawn[b] ELSE seq[c]
  BY <1>1 DEF Inv, ReplayType, Statuses, QueueInv
<1>3. /\ Moves /\ seq' \in [Commands -> Nat] /\ late' \subseteq Commands
      /\ \A c \in late' : seq'[c] # 0
      /\ \A j \in 1..Len(log) : ~ Later(b, j)'
  BY <1>1, <1>2, Queueing DEF Inv
<1>4. QueueInv'
  <2>1. revisionRef' <= Len(log') /\ snapshot' <= Len(log')
    BY <1>1 DEF Inv, QueueInv
  <2>2. \A c \in Commands :
           /\ status'[c] \in {"new", "posted", "drawing", "numbered"} => seq'[c] = 0
           /\ status'[c] \in {"drawing", "numbered"} => drawn'[c] # 0
           /\ status'[c] \in {"PENDING", "SYNCING"} => seq'[c] # 0
    BY <1>1, <1>2 DEF Inv, QueueInv
  <2>3. \A c \in Commands : \A j \in Commits(c)' : log'[j].route = "sync" => seq'[c] # 0
    BY <1>1, <1>2 DEF Inv, QueueInv, Commits
  <2>4. ASSUME NEW c \in Commands, NEW j \in 1..Len(log'), Later(c, j)' PROVE expected'[c] < j
    <3>1. c # b
      BY <1>1, <1>3, <2>4
    <3>2. Len(log) \in Nat /\ j \in 1..Len(log)
      BY <1>1, <2>4, LogType DEF Inv
    <3>3. Later(c, j)
      BY <1>3, <2>4, <3>2 DEF Moves
    <3> QED BY <1>1, <3>2, <3>3 DEF Inv, QueueInv
  <2>5. \A c \in Commands : expected'[c] <= Len(log')
    BY <1>1 DEF Inv, QueueInv
  <2> QED BY <1>3, <2>1, <2>2, <2>3, <2>4, <2>5 DEF QueueInv
<1>5. \A c \in Commands : /\ status[c] = "posted" => status'[c] = "posted"
                          /\ status'[c] \in {"saved", "SYNCED"} => Commits(c) # {}
  BY <1>1, <1>2 DEF Inv, AcknowledgedIsApplied
<1>6. /\ drawn' \in [Commands -> Nat] /\ expected' \in [Commands -> Nat] /\ lastSeq' \in Nat
      /\ revisionRef' \in Nat /\ snapshot' \in Nat \cup {NoRevision}
  BY <1>1 DEF Inv, ReplayType
<1> QED BY <1>1, <1>2, <1>3, <1>4, <1>5, <1>6, DeviceOnly

LEMMA WaitsFor ==
  ASSUME Inv, NEW u \in Slots, Waits(u)
  PROVE  /\ req[u].batch[1] \in Commands /\ status[req[u].batch[1]] = "posted" /\ seq[req[u].batch[1]] = 0
         /\ flush # u /\ Current(u) = req[u].batch[1]
<1>1. status[req[u].batch[1]] = "posted"
  BY DEF Inv, WaitInv
<1>2. Len(req[u].batch) = 1 /\ req[u].pos = 1 /\ req[u].batch \in Seq(Commands)
  BY DEF Inv, GoodRequest, Placed, Waits, ReplayType, RequestType
<1>3. req[u].batch[1] \in Commands
  BY <1>2
<1>4. flush # u
  BY DEF Inv, WaitInv, Waits
<1> QED BY <1>1, <1>2, <1>3, <1>4 DEF Inv, QueueInv, Current

\* A step of the POS with one request.
LEMMA Shows ==
  ASSUME Inv, NEW s \in Slots, NEW x \in RequestType, req' = [req EXCEPT ![s] = x],
         UNCHANGED <<row, log>>, Moves, QueueInv', GoodRequest(s)', WaitInv',
         status' \in [Commands -> Statuses], drawn' \in [Commands -> Nat], seq' \in [Commands -> Nat],
         late' \subseteq Commands, expected' \in [Commands -> Nat], lastSeq' \in Nat, revisionRef' \in Nat, snapshot' \in Nat \cup {NoRevision},
         flush' \in Slots \cup {NoSlot}, faults' \in Nat,
         \A c \in Commands : status'[c] \in {"saved", "SYNCED"} => Commits(c) # {}
  PROVE  Inv'
<1>1. req' \in [Slots -> RequestType] /\ \A u \in Slots : u # s => req'[u] = req[u]
  BY DEF Inv, ReplayType
<1>2. ReplayType'
  BY <1>1 DEF Inv, ReplayType
<1>3. \A u \in Slots : GoodRequest(u)'
  <2>1. ASSUME NEW u \in Slots, u # s PROVE GoodRequest(u)'
    BY <1>1, <2>1, OthersKeep DEF Inv
  <2> QED BY <2>1
<1>4. CommittedOnce' /\ AppliedInSequence'
  BY NothingCommitted DEF Inv
<1>5. AcknowledgedIsApplied'
  <2>1. \A c : Commits(c)' = Commits(c)
    BY DEF Commits
  <2> QED BY <2>1 DEF Inv, AcknowledgedIsApplied
<1> QED BY <1>2, <1>3, <1>4, <1>5 DEF Inv

Posted(x, route, p, batch, expect) ==
  /\ x \in RequestType /\ x.route = route /\ x.batch = batch /\ x.pos = 1 /\ x.chained = expect
  /\ x.phase = p /\ x.outcome = "none" /\ x.rev = 0 /\ x.answers = <<>> /\ x.awaited

LEMMA Requests ==
  ASSUME NEW batch \in Seq(Commands), NEW expect \in Nat \cup {NoRevision}
  PROVE  /\ Posted(Request("online", batch, expect), "online", "lookup", batch, expect)
         /\ Posted(Request("sync", batch, expect), "sync", "receive", batch, expect)
<1>1. "receive" \in Phases /\ "lookup" \in Phases /\ 1 \in Nat /\ TRUE \in BOOLEAN
  BY DEF Phases
<1>2. ASSUME NEW x, NEW route \in {"online", "sync"}, NEW p \in Phases,
             x = [Free EXCEPT !.route = route, !.batch = batch, !.pos = 1, !.chained = expect,
                              !.phase = p, !.awaited = TRUE]
      PROVE  Posted(x, route, p, batch, expect)
  <2>1. /\ x \in RequestType /\ x.route = route /\ x.batch = batch /\ x.pos = 1 /\ x.chained = expect
        /\ x.phase = p /\ x.outcome = "none" /\ x.rev = 0 /\ x.answers = <<>>
    BY <1>1, <1>2, Empty DEF RequestType
  <2>2. x.awaited
    BY <1>2 DEF Free
  <2> QED BY <2>1, <2>2 DEF Posted
<1>3. Posted(Request("online", batch, expect), "online", "lookup", batch, expect)
  BY <1>1, <1>2 DEF Request
<1>4. Posted(Request("sync", batch, expect), "sync", "receive", batch, expect)
  BY <1>1, <1>2 DEF Request
<1> QED BY <1>3, <1>4

LEMMA IssueOnlineInv == ASSUME Inv, NEW b \in Commands, NEW s \in Slots, IssueOnline(b, s) PROVE Inv'
<1>1. /\ status[b] = "new" /\ req[s] = Free /\ status' = [status EXCEPT ![b] = "posted"]
      /\ req' = [req EXCEPT ![s] = Request("online", <<b>>, revisionRef)]
      /\ UNCHANGED <<queue, revisionRef, snapshot, flush, row, log, faults>>
  BY DEF IssueOnline, FreeSlots
<1> DEFINE x == Request("online", <<b>>, revisionRef)
<1>2. /\ x \in RequestType /\ x.route = "online" /\ x.batch = <<b>> /\ x.pos = 1 /\ x.chained = revisionRef
      /\ x.phase = "lookup" /\ x.outcome = "none" /\ x.rev = 0 /\ x.answers = <<>> /\ x.awaited
  <2>1. revisionRef \in Nat \cup {NoRevision} /\ <<b>> \in Seq(Commands)
    BY DEF Inv, ReplayType
  <2>2. Posted(x, "online", "lookup", <<b>>, revisionRef)
    BY <2>1, Requests
  <2> HIDE DEF x
  <2> QED BY <2>2 DEF Posted
<1> HIDE DEF x
<1>3. /\ req' \in [Slots -> RequestType] /\ req'[s] = x /\ \A u \in Slots : u # s => req'[u] = req[u]
      /\ status' \in [Commands -> Statuses]
      /\ \A c \in Commands : status'[c] = IF c = b THEN "posted" ELSE status[c]
      /\ Len(log) \in Nat /\ UNCHANGED <<drawn, seq, late, expected, lastSeq>>
  BY <1>1, <1>2, LogType DEF Inv, ReplayType, Statuses, x, queue
<1>4. seq[b] = 0
  BY <1>1 DEF Inv, QueueInv
<1>5. Moves /\ QueueInv'
  <2>1. \A c \in Commands : /\ status'[c] \in {"new", "posted", "drawing", "numbered"} => seq[c] = 0
                            /\ status'[c] \in {"drawing", "numbered"} => drawn'[c] # 0
                            /\ status'[c] \in {"PENDING", "SYNCING"} => seq[c] # 0
    BY <1>1, <1>3, <1>4 DEF Inv, QueueInv, queue
  <2>2. revisionRef' <= Len(log) /\ snapshot' <= Len(log)
    BY <1>1 DEF Inv, QueueInv
  <2> QED BY <1>1, <2>1, <2>2, StatusQueue DEF queue
<1>6. GoodRequest(s)'
  <2>1. /\ Len(x.batch) = 1 /\ x.batch[1] = b /\ Len(x.answers) = 0
        /\ x.pos \in 1..Len(x.batch) /\ Len(x.answers) = x.pos - 1
    BY <1>2
  <2>2. Placed(s)'
    BY <1>2, <1>3, <2>1 DEF Placed
  <2>3. Ordered(s)' /\ Truthful(s)'
    BY <1>2, <1>3, <2>1 DEF Ordered, Truthful, Done
  <2>4. \A j : ~ Later(b, j)'
    BY <1>3, <1>4 DEF Later
  <2>5. revisionRef <= Len(log) /\ revisionRef # NoRevision /\ 0 <= Len(log)
    BY <1>3 DEF Inv, QueueInv, ReplayType, NoRevision
  <2>6. Based(s)'
    BY <1>1, <1>2, <1>3, <2>1, <2>4, <2>5 DEF Based
  <2> QED BY <2>2, <2>3, <2>6 DEF GoodRequest
<1>7. WaitInv'
  <2>1. ASSUME NEW u \in Slots, u # s, Waits(u)'
        PROVE  Waits(u) /\ req'[u].batch[1] # b /\ status'[req'[u].batch[1]] = "posted"
    <3>1. Waits(u) /\ req'[u] = req[u]
      BY <1>3, <2>1 DEF Waits
    <3> QED BY <1>1, <1>3, <3>1, WaitsFor
  <2>2. req'[s].batch[1] = b /\ status'[b] = "posted"
    BY <1>2, <1>3
  <2>3. \A u, v \in Slots : Waits(u)' /\ Waits(v)' /\ req'[u].batch[1] = req'[v].batch[1] => u = v
    <3> SUFFICES ASSUME NEW u \in Slots, NEW v \in Slots, Waits(u)', Waits(v)',
                        req'[u].batch[1] = req'[v].batch[1]
                 PROVE  u = v
      OBVIOUS
    <3>1. CASE u = s \/ v = s
      BY <2>1, <2>2, <3>1
    <3>2. CASE u # s /\ v # s
      BY <1>3, <2>1, <3>2 DEF Inv, WaitInv
    <3> QED BY <3>1, <3>2
  <2>4. flush' # s /\ flush' = flush
    BY <1>1, Empty DEF Inv, WaitInv
  <2>5. flush' \in Slots => req'[flush'].route = "sync" /\ req'[flush'].awaited
    BY <1>3, <2>4 DEF Inv, WaitInv
  <2>6. \A u \in Slots : Waits(u)' => status'[req'[u].batch[1]] = "posted"
    BY <2>1, <2>2
  <2> QED BY <2>3, <2>5, <2>6 DEF WaitInv
<1>8. \A c \in Commands : status'[c] \in {"saved", "SYNCED"} => Commits(c) # {}
  BY <1>3 DEF Inv, AcknowledgedIsApplied
<1>9. /\ drawn' \in [Commands -> Nat] /\ seq' \in [Commands -> Nat]
      /\ late' \subseteq Commands /\ expected' \in [Commands -> Nat] /\ lastSeq' \in Nat /\ revisionRef' \in Nat
      /\ snapshot' \in Nat \cup {NoRevision} /\ flush' \in Slots \cup {NoSlot} /\ faults' \in Nat
  BY <1>1, <1>3 DEF Inv, ReplayType
<1>10. req' = [req EXCEPT ![s] = x]
  BY <1>1 DEF x
<1> QED BY <1>1, <1>2, <1>3, <1>5, <1>6, <1>7, <1>8, <1>9, <1>10, Shows

\* Nobody waits for a request any more, or the coordinator starts to.
LEMMA WaitsChange ==
  ASSUME Inv, NEW s \in Slots, NEW x \in RequestType, req' = [req EXCEPT ![s] = x],
         ~ (x.route = "online" /\ x.awaited),
         flush' = s => x.route = "sync" /\ x.awaited, flush' \in {s, flush, NoSlot},
         \A c \in Commands : status[c] = "posted" =>
            status'[c] = "posted" \/ (Waits(s) /\ c = req[s].batch[1])
  PROVE  WaitInv'
<1>1. req'[s] = x /\ \A u \in Slots : u # s => req'[u] = req[u]
  BY DEF Inv, ReplayType
<1>2. \A u \in Slots : Waits(u)' => u # s /\ Waits(u) /\ req'[u] = req[u]
  BY <1>1 DEF Waits
<1>3. ASSUME NEW u \in Slots, Waits(u)' PROVE status'[req'[u].batch[1]] = "posted"
  <2>1. u # s /\ Waits(u) /\ req'[u] = req[u]
    BY <1>2, <1>3
  <2>2. req[u].batch[1] \in Commands /\ status[req[u].batch[1]] = "posted"
    BY <2>1, WaitsFor
  <2>3. ~ (Waits(s) /\ req[u].batch[1] = req[s].batch[1])
    BY <2>1 DEF Inv, WaitInv
  <2> QED BY <2>1, <2>2, <2>3
<1>4. \A u, v \in Slots : Waits(u)' /\ Waits(v)' /\ req'[u].batch[1] = req'[v].batch[1] => u = v
  BY <1>2 DEF Inv, WaitInv
<1>5. flush' \in Slots => req'[flush'].route = "sync" /\ req'[flush'].awaited
  BY <1>1, ReplayAssumption DEF Inv, WaitInv, NoSlot
<1> QED BY <1>3, <1>4, <1>5 DEF WaitInv

LEMMA OnlineAnsweredInv == ASSUME Inv, NEW s \in Slots, OnlineAnswered(s) PROVE Inv'
<1> DEFINE c == req[s].batch[1]
           word == IF req[s].outcome \in {"accepted", "duplicate"} THEN "saved" ELSE "refused"
<1>1. /\ Waits(s) /\ req[s].phase \in {"answered", "error"} /\ status' = [status EXCEPT ![c] = word]
      /\ revisionRef' = (IF req[s].outcome = "error" THEN revisionRef ELSE req[s].rev)
      /\ req' = [req EXCEPT ![s] = Free] /\ UNCHANGED <<queue, snapshot, flush, row, log, faults>>
  BY DEF OnlineAnswered, Waits
<1>2. c \in Commands /\ status[c] = "posted" /\ seq[c] = 0 /\ flush # s /\ Current(s) = c
  BY <1>1, WaitsFor
<1>3. word \in {"saved", "refused"} /\ (word = "saved" => Commits(c) # {})
  <2>1. ASSUME word = "saved" PROVE Commits(c) # {}
    <3>1. req[s].outcome \in Done
      BY <2>1 DEF Done
    <3>2. req[s].phase = "answered" /\ req[s].route = "online"
      BY <1>1, <3>1 DEF Inv, GoodRequest, Placed, Done, Waits
    <3>3. req[s].rev \in Commits(Current(s))
      BY <3>1, <3>2 DEF Inv, GoodRequest, Truthful, Current
    <3> QED BY <1>2, <3>3
  <2> QED BY <2>1
<1> HIDE DEF word, c
<1>4. /\ status' \in [Commands -> Statuses]
      /\ \A d \in Commands : status'[d] = IF d = c THEN word ELSE status[d]
  BY <1>1, <1>2, <1>3 DEF Inv, ReplayType, Statuses
<1>5. revisionRef' \in Nat /\ revisionRef' <= Len(log) /\ snapshot' <= Len(log)
  <2>1. req[s].rev \in Nat /\ req[s].rev <= Len(log) /\ revisionRef \in Nat /\ revisionRef <= Len(log)
    BY DEF Inv, ReplayType, RequestType, GoodRequest, Based, QueueInv
  <2> QED BY <1>1, <2>1 DEF Inv, QueueInv
<1>6. Moves /\ QueueInv'
  <2>1. \A d \in Commands : /\ status'[d] \in {"new", "posted", "drawing", "numbered"} => seq[d] = 0
                            /\ status'[d] \in {"drawing", "numbered"} => drawn'[d] # 0
                            /\ status'[d] \in {"PENDING", "SYNCING"} => seq[d] # 0
    BY <1>1, <1>3, <1>4 DEF Inv, QueueInv, queue
  <2> QED BY <1>1, <1>5, <2>1, StatusQueue DEF queue
<1>7. WaitInv'
  <2>1. \A d \in Commands : status[d] = "posted" =>
            status'[d] = "posted" \/ (Waits(s) /\ d = req[s].batch[1])
    BY <1>1, <1>4 DEF c
  <2> QED BY <1>1, <1>2, <2>1, Empty, WaitsChange
<1>8. GoodRequest(s)'
  <2>1. req'[s] = Free /\ Len(log') \in Nat
    BY <1>1, LogType DEF Inv, ReplayType
  <2> QED BY <2>1, FreeIsGood DEF Inv
<1>9. \A d \in Commands : status'[d] \in {"saved", "SYNCED"} => Commits(d) # {}
  BY <1>3, <1>4 DEF Inv, AcknowledgedIsApplied
<1>10. /\ drawn' \in [Commands -> Nat] /\ seq' \in [Commands -> Nat]
       /\ late' \subseteq Commands /\ expected' \in [Commands -> Nat] /\ lastSeq' \in Nat
       /\ snapshot' \in Nat \cup {NoRevision} /\ flush' \in Slots \cup {NoSlot} /\ faults' \in Nat
  BY <1>1 DEF Inv, ReplayType, queue
<1> QED BY <1>1, <1>4, <1>5, <1>6, <1>7, <1>8, <1>9, <1>10, Empty, Shows

\* A request goes on although nobody waits for it.
LEMMA Unawaited ==
  ASSUME Inv, NEW s \in Slots, Moves, req' = [req EXCEPT ![s].awaited = FALSE]
  PROVE  \E x \in RequestType : req' = [req EXCEPT ![s] = x] /\ ~ x.awaited /\ GoodRequest(s)'
<1> DEFINE x == [req[s] EXCEPT !.awaited = FALSE]
<1>1. /\ x \in RequestType /\ x.route = req[s].route /\ x.batch = req[s].batch /\ x.pos = req[s].pos
      /\ x.phase = req[s].phase /\ x.chained = req[s].chained /\ x.outcome = req[s].outcome
      /\ x.rev = req[s].rev /\ x.answers = req[s].answers
  BY DEF Inv, ReplayType, RequestType
<1>2. ~ x.awaited
  BY DEF Inv, ReplayType, RequestType
<1>3. req' = [req EXCEPT ![s] = x] /\ req'[s] = x
  BY DEF Inv, ReplayType
<1> HIDE DEF x
<1>4. GoodRequest(s)'
  BY <1>1, <1>3, WorkKeeps DEF Inv
<1> QED BY <1>1, <1>2, <1>3, <1>4

LEMMA OnlineLostInv == ASSUME Inv, NEW s \in Slots, OnlineLost(s) PROVE Inv'
<1> DEFINE b == req[s].batch[1]
<1>1. /\ Waits(s) /\ Draw(b) /\ req' = [req EXCEPT ![s].awaited = FALSE]
      /\ UNCHANGED <<flush, row, log>>
      /\ faults' = IF req[s].phase = "dead" THEN faults ELSE faults + 1
  BY DEF OnlineLost, Waits
<1>2. b \in Commands /\ status[b] = "posted" /\ seq[b] = 0 /\ flush # s
  BY <1>1, WaitsFor
<1>3. /\ Moves /\ QueueInv' /\ status' \in [Commands -> Statuses] /\ drawn' \in [Commands -> Nat]
      /\ seq' \in [Commands -> Nat] /\ late' \subseteq Commands /\ expected' \in [Commands -> Nat]
      /\ lastSeq' \in Nat /\ revisionRef' \in Nat /\ snapshot' \in Nat \cup {NoRevision}
      /\ \A c \in Commands : status'[c] = IF c = b THEN "drawing" ELSE status[c]
  <2> HIDE DEF b
  <2> QED BY <1>1, <1>2, DrawQueue
<1>4. PICK x \in RequestType : req' = [req EXCEPT ![s] = x] /\ ~ x.awaited /\ GoodRequest(s)'
  BY <1>1, <1>3, Unawaited
<1>5. WaitInv'
  <2>1. \A d \in Commands : status[d] = "posted" =>
            status'[d] = "posted" \/ (Waits(s) /\ d = req[s].batch[1])
    BY <1>1, <1>3
  <2> QED BY <1>1, <1>2, <1>4, <2>1, WaitsChange
<1>6. \A d \in Commands : status'[d] \in {"saved", "SYNCED"} => Commits(d) # {}
  BY <1>3 DEF Inv, AcknowledgedIsApplied
<1>7. flush' \in Slots \cup {NoSlot} /\ faults' \in Nat
  BY <1>1 DEF Inv, ReplayType
<1> QED BY <1>1, <1>3, <1>4, <1>5, <1>6, <1>7, Shows

LEMMA OnlineAbandonedInv == ASSUME Inv, NEW s \in Slots, OnlineAbandoned(s) PROVE Inv'
<1> DEFINE b == req[s].batch[1]
<1>1. /\ Waits(s) /\ status' = [status EXCEPT ![b] = "unknown"] /\ req' = [req EXCEPT ![s].awaited = FALSE]
      /\ UNCHANGED <<flush, row, log>> /\ UNCHANGED <<queue, revisionRef, snapshot>>
      /\ faults' = IF req[s].phase = "dead" THEN faults ELSE faults + 1
  BY DEF OnlineAbandoned, Waits
<1>2. b \in Commands /\ flush # s
  BY <1>1, WaitsFor
<1> HIDE DEF b
<1>3. /\ status' \in [Commands -> Statuses]
      /\ \A d \in Commands : status'[d] = IF d = b THEN "unknown" ELSE status[d]
  BY <1>1, <1>2 DEF Inv, ReplayType, Statuses
<1>4. Moves /\ QueueInv'
  <2>1. \A d \in Commands : /\ status'[d] \in {"new", "posted", "drawing", "numbered"} => seq[d] = 0
                            /\ status'[d] \in {"drawing", "numbered"} => drawn'[d] # 0
                            /\ status'[d] \in {"PENDING", "SYNCING"} => seq[d] # 0
    BY <1>1, <1>3 DEF Inv, QueueInv, queue
  <2>2. revisionRef' <= Len(log) /\ snapshot' <= Len(log)
    BY <1>1 DEF Inv, QueueInv
  <2> QED BY <1>1, <2>1, <2>2, StatusQueue DEF queue
<1>5. PICK x \in RequestType : req' = [req EXCEPT ![s] = x] /\ ~ x.awaited /\ GoodRequest(s)'
  BY <1>1, <1>4, Unawaited
<1>6. WaitInv'
  <2>1. \A d \in Commands : status[d] = "posted" =>
            status'[d] = "posted" \/ (Waits(s) /\ d = req[s].batch[1])
    BY <1>1, <1>3 DEF b
  <2> QED BY <1>1, <1>2, <1>5, <2>1, WaitsChange
<1>7. \A d \in Commands : status'[d] \in {"saved", "SYNCED"} => Commits(d) # {}
  BY <1>3 DEF Inv, AcknowledgedIsApplied
<1>8. /\ drawn' \in [Commands -> Nat] /\ seq' \in [Commands -> Nat]
      /\ late' \subseteq Commands /\ expected' \in [Commands -> Nat] /\ lastSeq' \in Nat /\ revisionRef' \in Nat
      /\ snapshot' \in Nat \cup {NoRevision} /\ flush' \in Slots \cup {NoSlot} /\ faults' \in Nat
  BY <1>1 DEF Inv, ReplayType, queue
<1> QED BY <1>1, <1>3, <1>4, <1>5, <1>6, <1>7, <1>8, Shows

LEMMA BatchIsNonEmpty == ASSUME Replayable # {} PROVE BatchSize \in Nat /\ BatchSize >= 1
<1>1. IsFiniteSet(Replayable)
  <2>1. Replayable \subseteq Commands
    BY DEF Replayable
  <2> QED BY <2>1, ReplayAssumption, FS_Subset
<1>2. Cardinality(Replayable) \in Nat /\ Cardinality(Replayable) # 0
  BY <1>1, FS_CardinalityType, FS_EmptySet
<1>3. BatchLimit \in Nat \ {0}
  BY ReplayAssumption
<1> QED BY <1>2, <1>3 DEF BatchSize

LEMMA FlushInv == ASSUME Inv, NEW s \in Slots, Flush(s) PROVE Inv'
<1>1. /\ flush = NoSlot /\ req[s] = Free /\ Replayable # {} /\ flush' = s
      /\ UNCHANGED <<queue, revisionRef, snapshot, row, log, faults>>
  BY DEF Flush, FreeSlots
<1>2. PICK batch \in [1..BatchSize -> Replayable] :
        /\ BySequence(batch) /\ req' = [req EXCEPT ![s] = Request("sync", batch, NoRevision)]
        /\ status' = [c \in Commands |-> IF c \in Range(batch) THEN "SYNCING" ELSE status[c]]
  BY DEF Flush
<1>3. BatchSize \in Nat /\ BatchSize >= 1
  BY <1>1, BatchIsNonEmpty
<1>4. /\ batch \in Seq(Commands) /\ Len(batch) = BatchSize /\ DOMAIN batch = 1..BatchSize
      /\ \A i \in 1..BatchSize : batch[i] \in Replayable
  <2>1. Replayable \subseteq Commands
    BY DEF Replayable
  <2> QED BY <1>3, <2>1
<1>5. \A c \in Replayable : c \in Commands /\ seq[c] # 0
  BY DEF Inv, QueueInv, Replayable
<1>6. \A c \in Range(batch) : c \in Replayable
  BY <1>4 DEF Range
<1>7. PICK x : x = Request("sync", batch, NoRevision) /\ Posted(x, "sync", "receive", batch, NoRevision)
  BY <1>4, Requests
<1>8. /\ x \in RequestType /\ x.route = "sync" /\ x.batch = batch /\ x.pos = 1 /\ x.chained = NoRevision
      /\ x.phase = "receive" /\ x.outcome = "none" /\ x.rev = 0 /\ x.answers = <<>>
      /\ req' = [req EXCEPT ![s] = x]
  BY <1>2, <1>7 DEF Posted
<1>9. x.awaited
  BY <1>7 DEF Posted
<1>10. req'[s] = x /\ Len(log) \in Nat /\ UNCHANGED <<drawn, seq, late, expected, lastSeq>>
  BY <1>1, <1>8, LogType DEF Inv, ReplayType, queue
<1>11. /\ status' \in [Commands -> Statuses]
       /\ \A d \in Commands : status'[d] = IF d \in Range(batch) THEN "SYNCING" ELSE status[d]
  BY <1>2 DEF Inv, ReplayType, Statuses
<1>12. Moves /\ QueueInv'
  <2>1. \A d \in Commands : /\ status'[d] \in {"new", "posted", "drawing", "numbered"} => seq[d] = 0
                            /\ status'[d] \in {"drawing", "numbered"} => drawn'[d] # 0
                            /\ status'[d] \in {"PENDING", "SYNCING"} => seq[d] # 0
    BY <1>1, <1>5, <1>6, <1>11 DEF Inv, QueueInv, queue
  <2>2. revisionRef' <= Len(log) /\ snapshot' <= Len(log)
    BY <1>1 DEF Inv, QueueInv
  <2> QED BY <1>1, <2>1, <2>2, StatusQueue DEF queue
<1>13. GoodRequest(s)'
  <2>1. Len(x.answers) = 0 /\ x.pos \in 1..Len(x.batch) /\ Len(x.answers) = x.pos - 1
    BY <1>3, <1>4, <1>8
  <2>2. Placed(s)'
    BY <1>8, <1>10, <2>1 DEF Placed
  <2>3. Ordered(s)'
    <3>1. \A i \in 1..Len(batch) : seq[batch[i]] # 0
      BY <1>4, <1>5
    <3>2. \A i, j \in 1..Len(batch) : i < j => seq[batch[i]] <= seq[batch[j]]
      BY <1>2, <1>4 DEF BySequence
    <3> QED BY <1>8, <1>10, <3>1, <3>2 DEF Ordered
  <2>4. Truthful(s)'
    BY <1>8, <1>10, <2>1 DEF Truthful, Done
  <2>5. Based(s)'
    BY <1>1, <1>8, <1>10 DEF Based, NoRevision
  <2> QED BY <2>2, <2>3, <2>4, <2>5 DEF GoodRequest
<1>14. WaitInv'
  <2>1. \A d \in Commands : status[d] = "posted" => status'[d] = "posted"
    BY <1>5, <1>6, <1>11 DEF Inv, QueueInv
  <2>2. ~ (x.route = "online" /\ x.awaited)
    BY <1>8
  <2>3. flush' = s => x.route = "sync" /\ x.awaited
    BY <1>8, <1>9
  <2>4. flush' \in {s, flush, NoSlot}
    BY <1>1
  <2>5. \A d \in Commands : status[d] = "posted" =>
            status'[d] = "posted" \/ (Waits(s) /\ d = req[s].batch[1])
    BY <2>1
  <2>6. x \in RequestType /\ req' = [req EXCEPT ![s] = x]
    BY <1>8
  <2> QED BY ONLY Inv, s \in Slots, <2>2, <2>3, <2>4, <2>5, <2>6, WaitsChange
<1>15. \A d \in Commands : status'[d] \in {"saved", "SYNCED"} => Commits(d) # {}
  BY <1>11 DEF Inv, AcknowledgedIsApplied
<1>16. /\ drawn' \in [Commands -> Nat] /\ seq' \in [Commands -> Nat]
      /\ late' \subseteq Commands /\ expected' \in [Commands -> Nat] /\ lastSeq' \in Nat /\ revisionRef' \in Nat
       /\ snapshot' \in Nat \cup {NoRevision} /\ flush' \in Slots \cup {NoSlot} /\ faults' \in Nat
  BY <1>1, <1>10 DEF Inv, ReplayType
<1> QED BY <1>1, <1>8, <1>11, <1>12, <1>13, <1>14, <1>15, <1>16, Shows

\* The coordinator's request is over, and the queue shows the outcome.
LEMMA FlushOver ==
  ASSUME Inv, flush \in Slots, status' \in [Commands -> Statuses],
         \A d \in Commands : \/ status'[d] = status[d]
                             \/ /\ d \in Range(req[flush].batch) /\ status'[d] \in {"SYNCED", "CONFLICT", "FAILED"}
                                /\ status'[d] = "SYNCED" => Commits(d) # {},
         req' = [req EXCEPT ![flush] = Free], flush' = NoSlot,
         UNCHANGED <<queue, revisionRef, snapshot, row, log, faults>>
  PROVE  Inv'
<1>1. PICK s \in Slots : s = flush
  OBVIOUS
<1>2. req[s].route = "sync" /\ req[s].batch \in Seq(Commands)
  BY <1>1 DEF Inv, WaitInv, ReplayType, RequestType
<1>3. \A d \in Range(req[s].batch) : d \in Commands /\ seq[d] # 0
  BY <1>2 DEF Range, Inv, GoodRequest, Ordered
<1>4. Moves /\ QueueInv'
  <2>1. \A d \in Commands : /\ status'[d] \in {"new", "posted", "drawing", "numbered"} => seq[d] = 0
                            /\ status'[d] \in {"drawing", "numbered"} => drawn'[d] # 0
                            /\ status'[d] \in {"PENDING", "SYNCING"} => seq[d] # 0
    BY DEF Inv, QueueInv, queue
  <2>2. revisionRef' <= Len(log) /\ snapshot' <= Len(log)
    BY DEF Inv, QueueInv
  <2> QED BY <2>1, <2>2, StatusQueue DEF queue
<1>5. WaitInv'
  <2>1. \A d \in Commands : status[d] = "posted" => status'[d] = "posted"
    BY <1>1, <1>3 DEF Inv, QueueInv
  <2>2. flush' \notin Slots
    BY ReplayAssumption DEF NoSlot
  <2> QED BY <1>1, <2>1, <2>2, Empty, WaitsChange
<1>6. GoodRequest(s)'
  <2>1. req'[s] = Free /\ Len(log') \in Nat
    BY <1>1, LogType DEF Inv, ReplayType
  <2> QED BY <2>1, FreeIsGood DEF Inv
<1>7. \A d \in Commands : status'[d] \in {"saved", "SYNCED"} => Commits(d) # {}
  BY DEF Inv, AcknowledgedIsApplied
<1>8. /\ drawn' \in [Commands -> Nat] /\ seq' \in [Commands -> Nat]
      /\ late' \subseteq Commands /\ expected' \in [Commands -> Nat] /\ lastSeq' \in Nat /\ revisionRef' \in Nat
      /\ snapshot' \in Nat \cup {NoRevision} /\ flush' \in Slots \cup {NoSlot} /\ faults' \in Nat
  BY DEF Inv, ReplayType, queue
<1> QED BY <1>1, <1>4, <1>5, <1>6, <1>7, <1>8, Empty, Shows

LEMMA FlushAnsweredInv == ASSUME Inv, FlushAnswered PROVE Inv'
<1>1. /\ flush \in Slots /\ req[flush].phase = "answered"
      /\ status' = [c \in Commands |-> IF c \in Range(req[flush].batch)
                                       THEN Acknowledged(AnswerTo(flush, c)) ELSE status[c]]
      /\ req' = [req EXCEPT ![flush] = Free] /\ flush' = NoSlot
      /\ UNCHANGED <<queue, revisionRef, snapshot, row, log, faults>>
  BY DEF FlushAnswered
<1>2. PICK s \in Slots : s = flush
  BY <1>1
<1>3. /\ req[s].batch \in Seq(Commands) /\ Len(req[s].answers) = Len(req[s].batch)
      /\ \A i \in 1..Len(req[s].answers) : req[s].answers[i] \in Done => Commits(req[s].batch[i]) # {}
  BY <1>1, <1>2 DEF Inv, WaitInv, ReplayType, RequestType, GoodRequest, Placed, Truthful
<1>4. \A a : /\ Acknowledged(a) \in {"SYNCED", "CONFLICT", "FAILED"}
             /\ Acknowledged(a) = "SYNCED" => a \in Done
  BY DEF Acknowledged, Done
<1>5. ASSUME NEW d \in Range(req[s].batch), AnswerTo(s, d) \in Done PROVE Commits(d) # {}
  <2>1. \E i \in 1..Len(req[s].batch) : req[s].batch[i] = d
    BY <1>3 DEF Range
  <2>2. PICK i \in 1..Len(req[s].batch) : req[s].batch[i] = d /\ AnswerTo(s, d) = req[s].answers[i]
    BY <2>1 DEF AnswerTo
  <2> QED BY <1>3, <1>5, <2>2
<1>6. ASSUME NEW d \in Commands
      PROVE  /\ status'[d] \in Statuses
             /\ \/ status'[d] = status[d]
                \/ /\ d \in Range(req[flush].batch) /\ status'[d] \in {"SYNCED", "CONFLICT", "FAILED"}
                   /\ status'[d] = "SYNCED" => Commits(d) # {}
  <2>1. CASE d \in Range(req[s].batch)
    <3>1. status'[d] = Acknowledged(AnswerTo(s, d))
      BY <1>1, <1>2, <2>1
    <3> QED BY <1>2, <1>4, <1>5, <2>1, <3>1 DEF Statuses
  <2>2. CASE d \notin Range(req[s].batch)
    BY <1>1, <1>2, <2>2 DEF Inv, ReplayType
  <2> QED BY <2>1, <2>2
<1>7. status' \in [Commands -> Statuses]
  BY <1>1, <1>6
<1> QED BY <1>1, <1>6, <1>7, FlushOver

LEMMA FlushRefusedInv == ASSUME Inv, FlushRefused PROVE Inv'
<1>1. /\ flush \in Slots /\ req' = [req EXCEPT ![flush] = Free] /\ flush' = NoSlot
      /\ UNCHANGED <<queue, revisionRef, snapshot, row, log, faults>>
      /\ status' = [c \in Commands |-> IF c \in Range(req[flush].batch) /\ req[flush].outcome = "denied"
                                       THEN "FAILED" ELSE status[c]]
  BY DEF FlushRefused
<1>2. status' \in [Commands -> Statuses]
  BY <1>1 DEF Inv, ReplayType, Statuses
<1>3. \A d \in Commands : \/ status'[d] = status[d]
                          \/ /\ d \in Range(req[flush].batch) /\ status'[d] \in {"SYNCED", "CONFLICT", "FAILED"}
                             /\ status'[d] = "SYNCED" => Commits(d) # {}
  BY <1>1
<1> QED BY <1>1, <1>2, <1>3, FlushOver

LEMMA FlushLostInv == ASSUME Inv, FlushLost PROVE Inv'
<1>1. /\ flush \in Slots /\ req' = [req EXCEPT ![flush].awaited = FALSE] /\ flush' = NoSlot
      /\ faults' = (IF req[flush].phase = "dead" THEN faults ELSE faults + 1)
      /\ UNCHANGED <<status, queue, revisionRef, snapshot, row, log>> /\ UNCHANGED <<drawn, seq, late, expected, lastSeq>>
  BY DEF FlushLost, client, queue
<1>2. PICK s \in Slots : s = flush
  BY <1>1
<1>3. Moves /\ QueueInv'
  <2>1. \A d \in Commands : /\ status'[d] \in {"new", "posted", "drawing", "numbered"} => seq[d] = 0
                            /\ status'[d] \in {"drawing", "numbered"} => drawn'[d] # 0
                            /\ status'[d] \in {"PENDING", "SYNCING"} => seq[d] # 0
    BY <1>1 DEF Inv, QueueInv, queue
  <2>2. revisionRef' <= Len(log) /\ snapshot' <= Len(log)
    BY <1>1 DEF Inv, QueueInv
  <2> QED BY <1>1, <2>1, <2>2, StatusQueue DEF queue
<1>4. PICK x \in RequestType : req' = [req EXCEPT ![s] = x] /\ ~ x.awaited /\ GoodRequest(s)'
  BY <1>1, <1>2, <1>3, Unawaited
<1>5. WaitInv'
  <2>1. flush' \notin Slots
    BY <1>1, ReplayAssumption DEF NoSlot
  <2> QED BY <1>1, <1>4, <2>1, WaitsChange
<1>6. \A d \in Commands : status'[d] \in {"saved", "SYNCED"} => Commits(d) # {}
  BY <1>1 DEF Inv, AcknowledgedIsApplied
<1>7. /\ drawn' \in [Commands -> Nat] /\ seq' \in [Commands -> Nat]
      /\ late' \subseteq Commands /\ expected' \in [Commands -> Nat] /\ lastSeq' \in Nat /\ revisionRef' \in Nat
      /\ snapshot' \in Nat \cup {NoRevision} /\ flush' \in Slots \cup {NoSlot} /\ faults' \in Nat
      /\ status' \in [Commands -> Statuses]
  BY <1>1 DEF Inv, ReplayType
<1> QED BY <1>1, <1>3, <1>4, <1>5, <1>6, <1>7, Shows

\* A background refresh changes what is on screen only.
LEMMA RefreshInv ==
  ASSUME Inv, RefreshRead \/ RefreshApply PROVE Inv'
<1>1. UNCHANGED <<status, drawn, seq, late, expected, lastSeq, flush, req, row, log, faults>> /\ UNCHANGED queue
  BY DEF RefreshRead, RefreshApply, queue
<1>2. Len(log) \in Nat /\ revisionRef \in Nat /\ revisionRef <= Len(log) /\ snapshot \in Nat \cup {-1}
      /\ snapshot <= Len(log)
  BY LogType DEF Inv, ReplayType, QueueInv, NoRevision
<1>3. /\ revisionRef' \in Nat /\ revisionRef' <= Len(log)
      /\ snapshot' \in Nat \cup {-1} /\ snapshot' <= Len(log)
  BY <1>2 DEF RefreshRead, RefreshApply, NoRevision, Revision
<1>4. ReplayType'
  BY <1>1, <1>3 DEF Inv, ReplayType, NoRevision
<1>5. Moves /\ QueueInv'
  <2>1. \A d \in Commands : /\ status'[d] \in {"new", "posted", "drawing", "numbered"} => seq[d] = 0
                            /\ status'[d] \in {"drawing", "numbered"} => drawn'[d] # 0
                            /\ status'[d] \in {"PENDING", "SYNCING"} => seq[d] # 0
    BY <1>1 DEF Inv, QueueInv, queue
  <2> QED BY <1>1, <1>3, <2>1, StatusQueue DEF queue
<1>6. \A u \in Slots : GoodRequest(u)'
  BY <1>1, <1>5, OthersKeep DEF Inv
<1>7. WaitInv'
  BY <1>1 DEF Inv, WaitInv, Waits
<1>8. CommittedOnce' /\ AppliedInSequence'
  BY <1>1, <1>5, NothingCommitted DEF Inv
<1>9. AcknowledgedIsApplied'
  BY <1>1 DEF Inv, AcknowledgedIsApplied, Commits
<1> QED BY <1>4, <1>5, <1>6, <1>7, <1>8, <1>9 DEF Inv

-----------------------------------------------------------------------------
(* The theorems                                                              *)

LEMMA InvInit == ASSUME Init PROVE Inv
<1>1. log = <<>> /\ Len(log) = 0 /\ \A c : Commits(c) = {}
  BY DEF Init, Commits
<1>2. ReplayType
  BY <1>1, Empty DEF Init, ReplayType, Statuses, RowType, NoRevision
<1>3. ASSUME NEW s \in Slots PROVE GoodRequest(s)
  <2>1. req[s] = Free /\ Len(<<>>) = 0
    BY DEF Init
  <2>2. Placed(s)
    BY <2>1, Empty DEF Placed, Working
  <2>3. Ordered(s) /\ Truthful(s)
    BY <2>1, Empty DEF Ordered, Truthful, Done
  <2>4. Based(s)
    BY <1>1, <2>1, Empty DEF Based, NoRevision
  <2> QED BY <2>2, <2>3, <2>4 DEF GoodRequest
<1>4. QueueInv
  <2>1. revisionRef <= Len(log) /\ snapshot <= Len(log)
    BY <1>1 DEF Init, NoRevision
  <2> QED BY <1>1, <2>1 DEF Init, QueueInv
<1>5. WaitInv
  <2>1. flush \notin Slots
    BY ReplayAssumption DEF Init, NoSlot
  <2> QED BY <2>1, Empty DEF Init, WaitInv, Waits
<1>6. CommittedOnce /\ AppliedInSequence
  BY <1>1 DEF CommittedOnce, AppliedInSequence
<1>7. AcknowledgedIsApplied
  BY DEF Init, AcknowledgedIsApplied
<1> QED BY <1>2, <1>3, <1>4, <1>5, <1>6, <1>7 DEF Inv

LEMMA InvNext == ASSUME Inv, [Next]_vars PROVE Inv'
<1>1. CASE UNCHANGED vars
  <2>1. UNCHANGED <<client, flush, req, row, log, faults>> /\ UNCHANGED <<status, queue, revisionRef, snapshot>>
        /\ UNCHANGED <<drawn, seq, late, expected, lastSeq>>
    BY <1>1 DEF vars, client, queue
  <2>2. ReplayType' /\ QueueInv'
    BY <2>1 DEF Inv, ReplayType, QueueInv, Later, InTurn, Commits
  <2>3. Moves
    BY <2>1, StandingStill DEF Inv
  <2>4. \A u \in Slots : GoodRequest(u)'
    BY <2>1, <2>3, OthersKeep DEF Inv
  <2>5. WaitInv'
    BY <2>1 DEF Inv, WaitInv, Waits
  <2>6. CommittedOnce' /\ AppliedInSequence'
    BY <2>1, <2>3, NothingCommitted DEF Inv
  <2>7. AcknowledgedIsApplied'
    BY <2>1 DEF Inv, AcknowledgedIsApplied, Commits
  <2> QED BY <2>2, <2>4, <2>5, <2>6, <2>7 DEF Inv
<1>2. CASE RemoteCommit
  BY <1>2, RemoteCommitInv
<1>3. ASSUME NEW c \in Commands, IssueOffline(c) \/ Number(c) \/ Enqueue(c)
                                \/ \E s \in Slots : IssueOnline(c, s)
      PROVE  Inv'
  BY <1>3, IssueOfflineInv, NumberInv, EnqueueInv, IssueOnlineInv
<1>4. ASSUME NEW s \in Slots, OnlineAnswered(s) \/ OnlineLost(s) \/ OnlineAbandoned(s) \/ Flush(s) PROVE Inv'
  BY <1>4, OnlineAnsweredInv, OnlineLostInv, OnlineAbandonedInv, FlushInv
<1>5. CASE FlushAnswered \/ FlushRefused \/ FlushLost \/ RefreshRead \/ RefreshApply
  BY <1>5, FlushAnsweredInv, FlushRefusedInv, FlushLostInv, RefreshInv
<1>6. ASSUME NEW s \in Slots, ServerStep(s) PROVE Inv'
  BY <1>6, FailInv, SkipInv, ReceiveInv, LookupInv, ExecuteInv, ExecuteConflictInv, ExecuteOtherInv, MarkInv
     DEF ServerStep
<1>7. ASSUME NEW s \in Slots, Deny(s) \/ MarkFails(s) \/ MarkMistaken(s) \/ FollowUpFails(s)
                             \/ Stop(s) \/ Discard(s)
      PROVE  Inv'
  BY <1>7, FailInv, MarkMistakenInv, StopInv, DiscardInv
<1> QED BY <1>1, <1>2, <1>3, <1>4, <1>5, <1>6, <1>7 DEF Next

LEMMA InvAlways == Spec => []Inv
<1>1. Init => Inv
  BY InvInit
<1>2. Inv /\ [Next]_vars => Inv'
  BY InvNext
<1> QED BY <1>1, <1>2, PTL DEF Spec

\* However often a command is posted, by however many handlers at once and by both
\* routes, whichever responses are lost and wherever handlers stop, mutation_commits
\* holds one commit of it at most.
THEOREM CommandsTakeEffectOnce == Spec => []AppliedOnce
<1>1. ASSUME CommittedOnce PROVE AppliedOnce
  <2> SUFFICES ASSUME NEW c \in Commands PROVE Cardinality(Commits(c)) <= 1
    BY DEF AppliedOnce
  <2>1. CASE Commits(c) = {}
    BY <2>1, FS_EmptySet
  <2>2. CASE Commits(c) # {}
    <3>1. PICK i : Commits(c) = {i}
      BY <1>1, <2>2 DEF CommittedOnce
    <3>2. Cardinality({i}) = 1
      BY FS_Singleton
    <3> QED BY <3>1, <3>2
  <2> QED BY <2>1, <2>2
<1>2. Inv => AppliedOnce
  BY <1>1 DEF Inv
<1> QED BY <1>2, InvAlways, PTL

\* A command that a sync request commits comes after every commit of a command the
\* device queued before it, unless that one's number, or a higher one, was in the queue
\* before it: a batch never reorders the queue, and neither does the handler of a flush
\* that the device gave up, running beside the next one.
THEOREM ReplayKeepsTheOrder == Spec => []AppliedInSequence
<1>1. Inv => AppliedInSequence
  BY DEF Inv
<1> QED BY <1>1, InvAlways, PTL

\* A command the POS shows as saved or synchronised is committed, and a row of
\* offline_commands that says SYNCED holds the revision of its commit.
THEOREM SavedIsCommitted == Spec => []AcknowledgedIsApplied
<1>1. Inv => AcknowledgedIsApplied
  BY DEF Inv
<1> QED BY <1>1, InvAlways, PTL

=============================================================================
