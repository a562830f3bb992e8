--------------------------- MODULE OfflineReplay ---------------------------
(***************************************************************************)
(* One POS device and the server it synchronises with: commands issued      *)
(* online or queued in IndexedDB, batches of queued commands posted to      *)
(* /api/seramet/offline/sync, the rows of offline_commands, and the         *)
(* authoritative store.  Responses are lost, handlers outlive the client    *)
(* that waits for them, and servers stop between two statements.  A command *)
(* is queued in three transactions of IndexedDB, between which others are.  *)
(*                                                                          *)
(* The store is the one AuthoritativeStore describes, with commitMutation   *)
(* cut at the point that matters here: the look-up of the idempotency key   *)
(* and the rest (read at a stable revision, compare, batch) are two steps.  *)
(***************************************************************************)
EXTENDS Integers, Sequences, FiniteSets, Functions

CONSTANTS Commands,     \* 1..n, in the order the cashier issues them
          Online,       \* the commands issued while the POS is connected
          Rejected,     \* the commands a business rule of the engine refuses
          Slots,        \* requests the server can be working on at a time
          BatchLimit,   \* commands in a sync request (50 in the code)
          MaxRemote,    \* bound: commits by other terminals
          MaxFaults     \* bound: lost responses and stopped handlers

ASSUME ReplayAssumption ==
  /\ IsFiniteSet(Commands) /\ Commands = 1..Cardinality(Commands)
  /\ Online \subseteq Commands /\ Rejected \subseteq Commands /\ "none" \notin Slots
  /\ BatchLimit \in Nat \ {0} /\ MaxRemote \in Nat /\ MaxFaults \in Nat

Remote     == 0         \* a commit of another terminal
NoRevision == -1
NoSlot     == "none"

VARIABLES
  status,      \* syncStatus of a queued command, or where an online one is
  drawn,       \* the sequence number nextSequence found for it (0: none)
  seq,         \* the clientSequence it is stored with (0: not queued)
  late,        \* commands stored when one had their number, or a higher one, already
  expected,    \* its expectedRevision
  lastSeq,     \* device-state: the sequence number written last
  revisionRef, \* the revision of the snapshot on screen
  snapshot,    \* the revision of the snapshot a refresh has read
  flush,       \* the request the replay coordinator waits for
  req,         \* what the server is working on
  row,         \* offline_commands: status and revision per command
  log,         \* mutation_commits in order: which command, by which route
  faults       \* losses and stops so far

queue  == <<drawn, seq, late, expected, lastSeq>>
client == <<status, queue, revisionRef, snapshot>>
vars   == <<client, flush, req, row, log, faults>>

Free == [route |-> "free", batch |-> <<>>, pos |-> 0, phase |-> "free",
         chained |-> NoRevision, blocked |-> FALSE, outcome |-> "none", rev |-> 0,
         answers |-> <<>>, awaited |-> FALSE]

Init ==
  /\ status = [c \in Commands |-> "new"]
  /\ drawn = [c \in Commands |-> 0]
  /\ seq = [c \in Commands |-> 0]
  /\ late = {}
  /\ expected = [c \in Commands |-> 0]
  /\ lastSeq = 0
  /\ revisionRef = 0
  /\ snapshot = NoRevision
  /\ flush = NoSlot
  /\ req = [s \in Slots |-> Free]
  /\ row = [c \in Commands |-> [status |-> "none", revision |-> 0]]
  /\ log = <<>>
  /\ faults = 0

-----------------------------------------------------------------------------
(* The store.                                                                 *)

Revision == Len(log)
Commits(c) == {i \in 1..Len(log) : log[i].cmd = c}

\* The request hash is taken of {action, payload} by the mutate route and of
\* {type, payload} by the sync route: two requests for one command have the
\* same hash when they came by the same route.
SameHash(c, route) == \A i \in Commits(c) : log[i].route = route

RemoteCommit ==
  /\ Cardinality(Commits(Remote)) < MaxRemote
  /\ log' = Append(log, [cmd |-> Remote, route |-> "online"])
  /\ UNCHANGED <<client, flush, req, row, faults>>

-----------------------------------------------------------------------------
(* The POS: mutate, the offline queue and the replay coordinator.             *)

InOrder(c) == \A d \in Commands : d < c => status[d] # "new"
FreeSlots  == {s \in Slots : req[s] = Free}
Request(route, batch, expect) ==
  [Free EXCEPT !.route = route, !.batch = batch, !.pos = 1, !.chained = expect,
               !.phase = IF route = "sync" THEN "receive" ELSE "lookup",
               !.awaited = TRUE]

\* createOfflineCommand: nextSequence reads the last number in one transaction ...
Draw(c) ==
  /\ status' = [status EXCEPT ![c] = "drawing"]
  /\ drawn' = [drawn EXCEPT ![c] = lastSeq + 1]
  /\ UNCHANGED <<seq, late, expected, lastSeq, revisionRef, snapshot>>

\* ... and writes the next one in another; the expected revision is read then.
Number(c) ==
  /\ status[c] = "drawing"
  /\ status' = [status EXCEPT ![c] = "numbered"]
  /\ lastSeq' = drawn[c]
  /\ expected' = [expected EXCEPT ![c] = revisionRef]
  /\ UNCHANGED <<drawn, seq, late, revisionRef, snapshot, flush, req, row, log, faults>>

Queued == {c \in Commands : seq[c] # 0}

\* enqueue puts the command into the queue.
Enqueue(c) ==
  /\ status[c] = "numbered"
  /\ status' = [status EXCEPT ![c] = "PENDING"]
  /\ seq' = [seq EXCEPT ![c] = drawn[c]]
  /\ late' = IF \E d \in Queued : seq[d] >= drawn[c] THEN late \cup {c} ELSE late
  /\ UNCHANGED <<drawn, expected, lastSeq, revisionRef, snapshot, flush, req, row, log, faults>>

IssueOffline(c) ==
  /\ status[c] = "new" /\ InOrder(c) /\ c \notin Online
  /\ Draw(c)
  /\ UNCHANGED <<flush, req, row, log, faults>>

IssueOnline(c, s) ==
  /\ status[c] = "new" /\ InOrder(c) /\ c \in Online
  /\ s \in FreeSlots
  /\ status' = [status EXCEPT ![c] = "posted"]
  /\ req' = [req EXCEPT ![s] = Request("online", <<c>>, revisionRef)]
  /\ UNCHANGED <<queue, revisionRef, snapshot, flush, row, log, faults>>

\* The response of mutate: the command is saved, or refused on the screen; the
\* state that came with it is adopted, after a CONFLICT too.
OnlineAnswered(s) ==
  LET c == req[s].batch[1] IN
  /\ req[s].route = "online" /\ req[s].awaited
  /\ req[s].phase \in {"answered", "error"}
  /\ status' = [status EXCEPT ![c] =
                  IF req[s].outcome \in {"accepted", "duplicate"} THEN "saved" ELSE "refused"]
  /\ revisionRef' = IF req[s].outcome = "error" THEN revisionRef ELSE req[s].rev
  /\ req' = [req EXCEPT ![s] = Free]
  /\ UNCHANGED <<queue, snapshot, flush, row, log, faults>>

\* No response: the command is to be queued under the key it was sent with, while the
\* server may still be working on it.
OnlineLost(s) ==
  /\ req[s].route = "online" /\ req[s].awaited
  /\ req[s].phase = "dead" \/ faults < MaxFaults
  /\ faults' = IF req[s].phase = "dead" THEN faults ELSE faults + 1
  /\ Draw(req[s].batch[1])
  /\ req' = [req EXCEPT ![s].awaited = FALSE]
  /\ UNCHANGED <<flush, row, log>>

\* No response, and the session was not verified for five minutes or the command
\* may not be queued: the cashier is shown an error.
OnlineAbandoned(s) ==
  /\ req[s].route = "online" /\ req[s].awaited
  /\ req[s].phase = "dead" \/ faults < MaxFaults
  /\ faults' = IF req[s].phase = "dead" THEN faults ELSE faults + 1
  /\ status' = [status EXCEPT ![req[s].batch[1]] = "unknown"]
  /\ req' = [req EXCEPT ![s].awaited = FALSE]
  /\ UNCHANGED <<queue, revisionRef, snapshot, flush, row, log>>

Unresolved == {c \in Commands : status[c] \in {"PENDING", "SYNCING", "FAILED", "CONFLICT"}}
\* Mutant: commands marked SYNCING by a flush that was lost are not replayed.
ReplayablePending == {c \in Commands : status[c] = "PENDING"}

Replayable == {c \in Commands : status[c] \in {"PENDING", "SYNCING"}}
BatchSize  == IF Cardinality(Replayable) < BatchLimit THEN Cardinality(Replayable) ELSE BatchLimit

\* Mutant: the newest commands first.
NewestFirst(batch) ==
  /\ \A i, j \in DOMAIN batch : i < j => seq[batch[i]] > seq[batch[j]]
  /\ \A c \in Replayable \ Range(batch), i \in DOMAIN batch : seq[batch[i]] > seq[c]

\* The oldest, by client sequence; the server sorts what it receives the same way.
BySequence(batch) ==
  /\ \A i, j \in DOMAIN batch : i < j => batch[i] # batch[j] /\ seq[batch[i]] <= seq[batch[j]]
  /\ \A c \in Replayable \ Range(batch), i \in DOMAIN batch : seq[batch[i]] <= seq[c]

Flush(s) ==
  /\ flush = NoSlot /\ s \in FreeSlots /\ Replayable # {}
  /\ flush' = s
  /\ \E batch \in [1..BatchSize -> Replayable] :
       /\ BySequence(batch)
       /\ req' = [req EXCEPT ![s] = Request("sync", batch, NoRevision)]
       /\ status' = [c \in Commands |-> IF c \in Range(batch) THEN "SYNCING" ELSE status[c]]
  /\ UNCHANGED <<queue, revisionRef, snapshot, row, log, faults>>

\* acknowledgedSyncStatus
Acknowledged(answer) ==
  CASE answer \in {"accepted", "duplicate"} -> "SYNCED"
    [] answer = "conflict" -> "CONFLICT"
    [] OTHER -> "FAILED"

AnswerTo(s, c) == req[s].answers[CHOOSE i \in 1..Len(req[s].batch) : req[s].batch[i] = c]

FlushAnswered ==
  /\ flush \in Slots /\ req[flush].phase = "answered"
  /\ status' = [c \in Commands |-> IF c \in Range(req[flush].batch)
                                   THEN Acknowledged(AnswerTo(flush, c)) ELSE status[c]]
  /\ req' = [req EXCEPT ![flush] = Free]
  /\ flush' = NoSlot
  /\ UNCHANGED <<queue, revisionRef, snapshot, row, log, faults>>

\* Any HTTP error leaves the commands to be replayed, but for 401 and 403.
FlushRefused ==
  /\ flush \in Slots /\ req[flush].phase = "error"
  /\ status' = [c \in Commands |->
                  IF c \in Range(req[flush].batch) /\ req[flush].outcome = "denied"
                  THEN "FAILED" ELSE status[c]]
  /\ req' = [req EXCEPT ![flush] = Free]
  /\ flush' = NoSlot
  /\ UNCHANGED <<queue, revisionRef, snapshot, row, log, faults>>

\* A timeout or a transport error: the commands stay SYNCING.
FlushLost ==
  /\ flush \in Slots
  /\ req[flush].phase = "dead" \/ faults < MaxFaults
  /\ faults' = IF req[flush].phase = "dead" THEN faults ELSE faults + 1
  /\ req' = [req EXCEPT ![flush].awaited = FALSE]
  /\ flush' = NoSlot
  /\ UNCHANGED <<client, row, log>>

\* syncFromBackend, one at a time: read the server's state ...
RefreshRead ==
  /\ snapshot = NoRevision /\ Revision # revisionRef
  /\ snapshot' = Revision
  /\ UNCHANGED <<status, queue, revisionRef, flush, req, row, log, faults>>

\* mutationInFlightRef: an online command that waits for its response or, after it was
\* lost, for its place in the queue.
InFlight == {c \in Online : status[c] \in {"posted", "drawing", "numbered"}}

\* Mutant: an older snapshot is applied too.
MayApplyAny == Unresolved = {} /\ InFlight = {}

\* mayApplyRemoteSnapshot
MayApply == Unresolved = {} /\ InFlight = {} /\ snapshot >= revisionRef

\* ... and show it when it is back, unless a command is unresolved or in flight or
\* the screen is newer.
RefreshApply ==
  /\ snapshot # NoRevision
  /\ revisionRef' = IF MayApply THEN snapshot ELSE revisionRef
  /\ snapshot' = NoRevision
  /\ UNCHANGED <<status, queue, flush, req, row, log, faults>>

-----------------------------------------------------------------------------
(* The server: handleOfflineSyncApi, processCommand and the mutate route.     *)

Current(s) == req[s].batch[req[s].pos]
At(s, phase) == req[s].phase = phase

\* The handler's state after the current command was answered.
Continue(s, answer, rev) ==
  [req[s] EXCEPT !.answers = Append(@, answer), !.pos = @ + 1,
                 !.blocked = (answer = "conflict"),
                 !.chained = IF answer = "conflict" THEN @ ELSE rev,
                 !.phase = IF req[s].pos = Len(req[s].batch) THEN "answered" ELSE "receive"]

\* Two commands of the batch have one clientSequence: 400, before any is looked at.
Clash(s) == \E c, d \in Range(req[s].batch) : c # d /\ seq[c] = seq[d]

RefuseNumbers(s) ==
  /\ At(s, "receive") /\ Clash(s)
  /\ req' = [req EXCEPT ![s].phase = "error", ![s].outcome = "error"]
  /\ UNCHANGED <<client, flush, row, log, faults>>

\* UNIQUE (tenant_id, device_id, client_sequence) of offline_commands: the row of
\* another command has the number.
NumberTaken(c) == \E d \in Commands \ {c} : row[d].status # "none" /\ seq[d] = seq[c]

\* The INSERT fails: 500 for the batch.
ReceiveRefused(s) ==
  LET c == Current(s) IN
  /\ At(s, "receive") /\ ~Clash(s) /\ ~req[s].blocked
  /\ row[c].status = "none" /\ NumberTaken(c)
  /\ req' = [req EXCEPT ![s].phase = "error", ![s].outcome = "error"]
  /\ UNCHANGED <<client, flush, row, log, faults>>

\* After a conflict the rest of the batch is answered without being looked at.
Skip(s) ==
  /\ At(s, "receive") /\ ~Clash(s) /\ req[s].blocked
  /\ req' = [req EXCEPT ![s] = Continue(s, "conflict", 0)]
  /\ UNCHANGED <<client, flush, row, log, faults>>

\* Mutant: the row is written as SYNCED before the command is executed.
ReceiveEarly(s) ==
  /\ At(s, "receive") /\ ~Clash(s) /\ ~req[s].blocked
  /\ row' = IF row[Current(s)].status = "none"
            THEN [row EXCEPT ![Current(s)].status = "SYNCED"] ELSE row
  /\ req' = [req EXCEPT ![s] = IF row[Current(s)].status = "SYNCED"
                               THEN Continue(s, "duplicate", row[Current(s)].revision)
                               ELSE [@ EXCEPT !.phase = "lookup"]]
  /\ UNCHANGED <<client, flush, log, faults>>

\* Insert the row of the command unless it is there, and act on what it says.
Receive(s) ==
  LET c == Current(s) IN
  /\ At(s, "receive") /\ ~Clash(s) /\ ~req[s].blocked
  /\ row[c].status # "none" \/ ~NumberTaken(c)
  /\ row' = IF row[c].status = "none" THEN [row EXCEPT ![c].status = "SYNCING"] ELSE row
  /\ req' = [req EXCEPT ![s] =
       CASE row[c].status = "SYNCED"   -> Continue(s, "duplicate", row[c].revision)
         [] row[c].status = "CONFLICT" -> Continue(s, "conflict", 0)
         [] OTHER                      -> [@ EXCEPT !.phase = "lookup"]]
  /\ UNCHANGED <<client, flush, log, faults>>

\* The session or a permission was withdrawn (401, 403) or the payment policy or a
\* query refuses (409, 500): for the whole batch, whatever of it is committed.
Deny(s) ==
  /\ At(s, "receive") /\ faults < MaxFaults
  /\ faults' = faults + 1
  /\ \E outcome \in {"denied", "error"} :
       req' = [req EXCEPT ![s].phase = "error", ![s].outcome = outcome]
  /\ UNCHANGED <<client, flush, row, log>>

\* What commitMutation ended with; the sync route still has to store it.
Finish(s, outcome, rev) ==
  req' = [req EXCEPT ![s].outcome = outcome, ![s].rev = rev,
                     ![s].phase = IF req[s].route = "sync" THEN "mark" ELSE "answered"]

\* The command is committed already: its answer, or DUPLICATE for another hash.
FinishStored(s) ==
  \E i \in Commits(Current(s)) :
    IF SameHash(Current(s), req[s].route) THEN Finish(s, "duplicate", i)
                                          ELSE Finish(s, "error", 0)

\* readMutationCommit
Lookup(s) ==
  /\ At(s, "lookup")
  /\ \/ FinishStored(s)
     \/ Commits(Current(s)) = {} /\ req' = [req EXCEPT ![s].phase = "execute"]
  /\ UNCHANGED <<client, flush, row, log, faults>>

\* chainedRevision ?? command.expectedRevision
ExpectedBy(s) == IF req[s].chained = NoRevision THEN expected[Current(s)] ELSE req[s].chained
Stale(s) == ExpectedBy(s) # Revision

\* Mutant: mutation_commits has no UNIQUE (tenant_id, idempotency_key).
ExecuteTwice(s) ==
  /\ At(s, "execute") /\ Current(s) \notin Rejected
  /\ log' = Append(log, [cmd |-> Current(s), route |-> req[s].route])
  /\ Finish(s, "accepted", Len(log) + 1)
  /\ UNCHANGED <<client, flush, row, faults>>

Execute(s) ==
  /\ At(s, "execute")
  /\ ~Stale(s) /\ Commits(Current(s)) = {} /\ Current(s) \notin Rejected
  /\ log' = Append(log, [cmd |-> Current(s), route |-> req[s].route])
  /\ Finish(s, "accepted", Len(log) + 1)
  /\ UNCHANGED <<client, flush, row, faults>>

\* The state that was read is not the expected one, or the batch lost a race.
ExecuteConflict(s) ==
  /\ At(s, "execute")
  /\ Stale(s) \/ (faults < MaxFaults /\ Commits(Current(s)) = {})
  /\ faults' = IF Stale(s) THEN faults ELSE faults + 1
  /\ Finish(s, "conflict", Revision)
  /\ UNCHANGED <<client, flush, row, log>>

\* The other handler of the same command committed it after the look-up; the
\* refused batch leads to a second look-up.
ExecuteDuplicate(s) ==
  /\ At(s, "execute")
  /\ FinishStored(s)
  /\ UNCHANGED <<client, flush, row, log, faults>>

\* A business rule refuses the command: VALIDATION_FAILED.
ExecuteRejected(s) ==
  /\ At(s, "execute")
  /\ ~Stale(s) /\ Current(s) \in Rejected
  /\ Finish(s, "error", 0)
  /\ UNCHANGED <<client, flush, row, log, faults>>

\* UPDATE offline_commands, with no condition on the status it replaces.
Marked(s) ==
  LET c == Current(s) IN
  [row EXCEPT ![c] =
     CASE req[s].outcome \in {"accepted", "duplicate"} ->
            [status |-> "SYNCED", revision |-> req[s].rev]
       [] req[s].outcome = "conflict" -> [@ EXCEPT !.status = "CONFLICT"]
       [] OTHER                       -> [@ EXCEPT !.status = "FAILED"]]

Mark(s) ==
  /\ At(s, "mark")
  /\ row' = Marked(s)
  /\ req' = [req EXCEPT ![s] = IF req[s].outcome = "error"
                               THEN [@ EXCEPT !.phase = "error"]
                               ELSE Continue(s, req[s].outcome, req[s].rev)]
  /\ UNCHANGED <<client, flush, log, faults>>

\* The UPDATE throws, with or without its effect, and so does the one of the catch block.
MarkFails(s) ==
  /\ At(s, "mark") /\ faults < MaxFaults
  /\ faults' = faults + 1
  /\ row' \in {row, Marked(s)}
  /\ req' = [req EXCEPT ![s].phase = "error", ![s].outcome = "error"]
  /\ UNCHANGED <<client, flush, log>>

\* The UPDATE that follows a commit throws, and the catch block takes it for the outcome of
\* the command: a serialization failure is a CONFLICT, anything else a failure.
MarkMistaken(s) ==
  /\ At(s, "mark") /\ req[s].outcome \in {"accepted", "duplicate"} /\ faults < MaxFaults
  /\ faults' = faults + 1
  /\ \E mark \in {"CONFLICT", "FAILED"} :
       /\ row' = [row EXCEPT ![Current(s)].status = mark]
       /\ req' = [req EXCEPT ![s] = IF mark = "CONFLICT" THEN Continue(s, "conflict", 0)
                                    ELSE [@ EXCEPT !.phase = "error", !.outcome = "error"]]
  /\ UNCHANGED <<client, flush, log>>

\* The mutate route fails after the commit, capturing domain events or queueing the
\* management recalculation: the response is an error.
FollowUpFails(s) ==
  /\ req[s].route = "online" /\ At(s, "answered") /\ req[s].outcome = "accepted"
  /\ req[s].awaited /\ faults < MaxFaults
  /\ faults' = faults + 1
  /\ req' = [req EXCEPT ![s].phase = "error", ![s].outcome = "error"]
  /\ UNCHANGED <<client, flush, row, log>>

\* The isolate stops between two statements.
Stop(s) ==
  /\ req[s].phase \in {"receive", "lookup", "execute", "mark"} /\ faults < MaxFaults
  /\ faults' = faults + 1
  /\ req' = [req EXCEPT ![s].phase = "dead"]
  /\ UNCHANGED <<client, flush, row, log>>

\* Nobody waits for the response any more.
Discard(s) ==
  /\ req[s].phase \in {"answered", "error", "dead"} /\ ~req[s].awaited
  /\ req' = [req EXCEPT ![s] = Free]
  /\ UNCHANGED <<client, flush, row, log, faults>>

ServerStep(s) == \/ RefuseNumbers(s) \/ Skip(s) \/ ReceiveRefused(s) \/ Receive(s) \/ Lookup(s)
                 \/ Execute(s) \/ ExecuteConflict(s) \/ ExecuteDuplicate(s) \/ ExecuteRejected(s) \/ Mark(s)

Next ==
  \/ RemoteCommit
  \/ \E c \in Commands : \/ IssueOffline(c) \/ Number(c) \/ Enqueue(c)
                         \/ \E s \in Slots : IssueOnline(c, s)
  \/ \E s \in Slots : OnlineAnswered(s) \/ OnlineLost(s) \/ OnlineAbandoned(s) \/ Flush(s)
  \/ FlushAnswered \/ FlushRefused \/ FlushLost \/ RefreshRead \/ RefreshApply
  \/ \E s \in Slots : \/ ServerStep(s) \/ Deny(s) \/ MarkFails(s) \/ MarkMistaken(s)
                      \/ FollowUpFails(s) \/ Stop(s) \/ Discard(s)

\* Handlers run on; responses that are not lost arrive; every verification of
\* the connection (at most a minute apart while online) flushes the queue again.
Fairness ==
  /\ \A s \in Slots : WF_vars(ServerStep(s)) /\ WF_vars(Discard(s)) /\ WF_vars(Flush(s))
                      /\ WF_vars(OnlineAnswered(s))
                      /\ WF_vars(OnlineLost(s) /\ req[s].phase = "dead")
  /\ \A c \in Commands : WF_vars(Number(c)) /\ WF_vars(Enqueue(c))
  /\ WF_vars(FlushAnswered) /\ WF_vars(FlushRefused)
  /\ WF_vars(FlushLost /\ req[flush].phase = "dead")

Spec     == Init /\ [][Next]_vars
FairSpec == Spec /\ Fairness

-----------------------------------------------------------------------------
\* However often a command is posted, and by however many handlers at once, it
\* takes effect at most once.
AppliedOnce == \A c \in Commands : Cardinality(Commits(c)) <= 1

\* No command was stored late with the number of c or one below.
InTurn(c) == \A e \in late : seq[e] > seq[c]

\* A command that the replay commits takes effect after every command that was
\* queued before it, or those never do; unless nextSequence was overtaken.
AppliedInSequence ==
  \A c, d \in Commands :
    (seq[c] # 0 /\ seq[d] # 0 /\ seq[c] < seq[d] /\ InTurn(c)) =>
      \A i \in Commits(c), j \in Commits(d) : log[j].route = "sync" => i < j

\* A command the POS shows as saved or synchronised is committed, and the server
\* remembers the revision of its commit.
AcknowledgedIsApplied ==
  /\ \A c \in Commands : status[c] \in {"saved", "SYNCED"} => Commits(c) # {}
  /\ \A c \in Commands : row[c].status = "SYNCED" => row[c].revision \in Commits(c)

\* An in-flight background read never overwrites a newer mutation: a snapshot that
\* is put on screen holds every command that was acknowledged before.
SnapshotKeepsSaved ==
  [][(snapshot # NoRevision /\ snapshot' = NoRevision /\ revisionRef' # revisionRef) =>
       \A c \in Commands : status[c] \in {"saved", "SYNCED"} =>
         \A i \in Commits(c) : i <= revisionRef']_vars

\* What the next flush may post.
NextBatch == {c \in Replayable : Cardinality({d \in Replayable : seq[d] < seq[c]}) < BatchLimit}

\* The sync route refuses the command whenever it is posted: for a business rule, for the
\* hash of the route that committed it, or for its number.
Refused(c) == \/ c \in Rejected \/ ~SameHash(c, "sync")
              \/ \E d \in Queued \ {c} : seq[d] = seq[c]

\* Every queued command is eventually resolved on the device: synchronised, or
\* kept as a conflict or a failure for review; unless one that the server refuses
\* has come to the head of the queue.
QueueDrains ==
  \A c \in Commands : c \in Replayable ~>
    \/ status[c] \in {"SYNCED", "CONFLICT", "FAILED"}
    \/ \E d \in NextBatch : Refused(d)
=============================================================================
