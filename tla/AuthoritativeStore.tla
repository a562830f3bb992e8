------------------------- MODULE AuthoritativeStore -------------------------
(***************************************************************************)
(* AuthoritativeTransactionRepository: one tenant's entity rows, its read   *)
(* model and the mutation_commits table, under concurrent requests.         *)
(*                                                                          *)
(* commitMutation is optimistic: it reads a state at a revision, computes   *)
(* the next state, and hands the database one batch whose INSERT into       *)
(* mutation_commits is refused when the idempotency key or the base         *)
(* revision was already used.  Every await of the code is a step of its     *)
(* own; only the batch (BEGIN ... SERIALIZABLE ... COMMIT) is atomic.       *)
(* saveState, used by the integration runtime, persists a state the caller  *)
(* computed from an earlier loadState, with a fresh key and no base.        *)
(***************************************************************************)
EXTENDS Integers, FiniteSets

CONSTANTS Mutations,     \* calls of commitMutation; a retry is another call
          Saves,         \* calls of loadState ... saveState
          KeyOf,         \* [Mutations -> idempotency key]
          BodyOf,        \* [Mutations -> request body], what requestHash hashes
          Entities,      \* entity ids of the tenant's state
          Values,        \* payloads of an entity
          Absent,        \* the entity has no row
          Mutate(_, _)   \* applyServerMutation(state, body): the next state

Requests == Mutations \cup Saves

\* saveState draws a random key (server:<uuid>): no other request has it.
Key(r)  == IF r \in Mutations THEN KeyOf[r] ELSE r
Body(r) == IF r \in Mutations THEN BodyOf[r] ELSE r

States     == [Entities -> Values]
EmptyState == [e \in Entities |-> Absent]

ASSUME RequestsAssumption ==
  /\ Mutations \cap Saves = {}
  /\ \A r \in Mutations : KeyOf[r] \notin Saves
ASSUME AbsentAssumption == Absent \in Values
ASSUME MutateAssumption ==
  \A s \in States, r \in Requests : Mutate(s, Body(r)) \in States

NoRevision  == -1         \* expectedRevision was not sent
MaxAttempts == 3          \* loops of loadStateAtStableRevision

VARIABLES
  rows,        \* authoritative_records: [version, value] per entity, version 0 = no row
  readModel,   \* tenant_state_read_models: [revision, state]
  commits,     \* mutation_commits
  pc,          \* where each request is
  expected,    \* input.expectedRevision
  attempt,     \* loops of loadStateAtStableRevision so far
  base,        \* the revision a mutation's state was read at (baseRevision)
  loaded,      \* the state it was computed from, then the state to persist
  reads,       \* which of persistState's two parallel reads are back
  seen,        \* currentRows of persistState
  observed,    \* observedRevision of persistState
  reply        \* what the caller is told (pending while pc = "recover")

store == <<rows, readModel, commits>>
vars  == <<rows, readModel, commits, pc, expected, attempt, base, loaded, reads,
           seen, observed, reply>>

NoReply == [kind |-> "none", revision |-> 0]
StateOf(rs) == [e \in Entities |-> rs[e].value]

Init ==
  /\ rows = [e \in Entities |-> [version |-> 0, value |-> Absent]]
  /\ readModel = [revision |-> 0, state |-> EmptyState]
  /\ commits = {}
  /\ pc = [r \in Requests |-> "idle"]
  /\ expected = [r \in Requests |-> NoRevision]
  /\ attempt = [r \in Requests |-> 0]
  /\ base = [r \in Requests |-> 0]
  /\ loaded = [r \in Requests |-> EmptyState]
  /\ reads = [r \in Requests |-> {}]
  /\ seen = [r \in Requests |-> rows]
  /\ observed = [r \in Requests |-> 0]
  /\ reply = [r \in Requests |-> NoReply]

-----------------------------------------------------------------------------
Goto(r, from, to) == /\ pc[r] = from
                     /\ pc' = [pc EXCEPT ![r] = to]
Tell(r, kind, revision) ==
  reply' = [reply EXCEPT ![r] = [kind |-> kind, revision |-> revision]]

\* The client may send the revision of any state it has been shown.
ReceiveMutation(r) ==
  /\ r \in Mutations
  /\ Goto(r, "idle", "lookup")
  /\ \E known \in {NoRevision} \cup 0..readModel.revision :
       expected' = [expected EXCEPT ![r] = known]
  /\ UNCHANGED <<store, attempt, base, loaded, reads, seen, observed, reply>>

ReceiveSave(r) ==
  /\ r \in Saves
  /\ Goto(r, "idle", "load")
  /\ UNCHANGED <<store, expected, attempt, base, loaded, reads, seen, observed, reply>>

\* readMutationCommit: the stored answer of the key, or nothing.
CommitsOf(r) == {c \in commits : c.key = Key(r)}

\* Mutant: the stored answer is returned whatever body was sent under the key.
AnswerStoredUnchecked(r) == \E c \in CommitsOf(r) : Tell(r, "duplicate", c.new)

\* The answer to a key that is already committed: its first answer if the body
\* is the same, and DUPLICATE if another body was sent under the key.
AnswerStored(r) ==
  \E c \in CommitsOf(r) :
    IF c.body = Body(r) THEN Tell(r, "duplicate", c.new) ELSE Tell(r, "DUPLICATE", 0)

LookupHit(r) ==
  /\ Goto(r, "lookup", "done")
  /\ AnswerStored(r)
  /\ UNCHANGED <<store, expected, attempt, base, loaded, reads, seen, observed>>

LookupMiss(r) ==
  /\ Goto(r, "lookup", "before")
  /\ CommitsOf(r) = {}
  /\ UNCHANGED <<store, expected, attempt, base, loaded, reads, seen, observed, reply>>

\* loadStateAtStableRevision: revision, rows, revision.
ReadBefore(r) ==
  /\ Goto(r, "before", "load")
  /\ base' = [base EXCEPT ![r] = readModel.revision]
  /\ UNCHANGED <<store, expected, attempt, loaded, reads, seen, observed, reply>>

LoadState(r) ==
  /\ Goto(r, "load", IF r \in Mutations THEN "after" ELSE "prepare")
  /\ loaded' = [loaded EXCEPT ![r] = StateOf(rows)]
  /\ UNCHANGED <<store, expected, attempt, base, reads, seen, observed, reply>>

ReadAfterStable(r) ==
  /\ Goto(r, "after", "prepare")
  /\ readModel.revision = base[r]
  /\ UNCHANGED <<store, expected, attempt, base, loaded, reads, seen, observed, reply>>

ReadAfterMoved(r) ==
  /\ readModel.revision # base[r]
  /\ attempt' = [attempt EXCEPT ![r] = @ + 1]
  /\ \/ /\ attempt[r] + 1 < MaxAttempts
        /\ Goto(r, "after", "before")
        /\ UNCHANGED reply
     \/ /\ attempt[r] + 1 >= MaxAttempts
        /\ Goto(r, "after", "done")
        /\ Tell(r, "CONFLICT", 0)
  /\ UNCHANGED <<store, expected, base, loaded, reads, seen, observed>>

ExpectedMatches(r) == expected[r] \in {NoRevision, base[r]}

\* The client's view is not the one the command would be applied to.
RefuseStale(r) ==
  /\ r \in Mutations
  /\ Goto(r, "prepare", "done")
  /\ ~ExpectedMatches(r)
  /\ Tell(r, "CONFLICT", 0)
  /\ UNCHANGED <<store, expected, attempt, base, loaded, reads, seen, observed>>

\* authoritativeMutationInput or applyServerMutation throws a business rule.
RefuseRule(r) ==
  /\ r \in Mutations
  /\ Goto(r, "prepare", "done")
  /\ ExpectedMatches(r)
  /\ Tell(r, "VALIDATION_FAILED", 0)
  /\ UNCHANGED <<store, expected, attempt, base, loaded, reads, seen, observed>>

\* The next state is computed in memory; persistState begins.
Apply(r) ==
  /\ Goto(r, "prepare", "persist")
  /\ r \in Mutations => ExpectedMatches(r)
  /\ loaded' = [loaded EXCEPT ![r] = Mutate(@, Body(r))]
  /\ UNCHANGED <<store, expected, attempt, base, reads, seen, observed, reply>>

\* Promise.all([loadRows, revision]): two queries, in either order.
PersistReadRows(r) ==
  /\ pc[r] = "persist" /\ "rows" \notin reads[r]
  /\ reads' = [reads EXCEPT ![r] = @ \cup {"rows"}]
  /\ seen' = [seen EXCEPT ![r] = rows]
  /\ UNCHANGED <<store, pc, expected, attempt, base, loaded, observed, reply>>

PersistReadRevision(r) ==
  /\ pc[r] = "persist" /\ "revision" \notin reads[r]
  /\ reads' = [reads EXCEPT ![r] = @ \cup {"revision"}]
  /\ observed' = [observed EXCEPT ![r] = readModel.revision]
  /\ UNCHANGED <<store, pc, expected, attempt, base, loaded, seen, reply>>

ReadsBack(r) == reads[r] = {"rows", "revision"}
\* Mutant: commitMutation forgets to pass requiredBaseRevision.
BaseRevisionNotRequired(r) == observed[r]

\* input.requiredBaseRevision ?? observedRevision
BaseRevision(r) == IF r \in Mutations THEN base[r] ELSE observed[r]

\* An error out of persistState: commitMutation looks the key up once more
\* before it lets the error out, saveState does not.
ErrorTo(r) == IF r \in Mutations THEN "recover" ELSE "done"

PersistMoved(r) ==
  /\ Goto(r, "persist", ErrorTo(r))
  /\ ReadsBack(r) /\ observed[r] # BaseRevision(r)
  /\ Tell(r, "CONFLICT", 0)
  /\ UNCHANGED <<store, expected, attempt, base, loaded, reads, seen, observed>>

-----------------------------------------------------------------------------
\* Mutant: entities that left the state keep their rows.
WriteRowNoDelete(row, was, value) ==
  IF value \notin {was.value, Absent} /\ row.version \in {0, was.version}
  THEN [version |-> row.version + 1, value |-> value] ELSE row

\* What the batch does to one row: no statement when the payload is the one
\* that was read, else an INSERT, or an UPDATE or DELETE guarded by the version
\* that was read, which changes nothing when another writer moved it.
WriteRow(row, was, value) ==
  CASE value = was.value -> row
    [] value # was.value /\ row.version = was.version /\ value = Absent ->
         [version |-> 0, value |-> Absent]
    [] value # was.value /\ value # Absent /\ row.version \in {0, was.version} ->
         [version |-> row.version + 1, value |-> value]
    [] OTHER -> row

\* Mutant: the table has no UNIQUE (tenant_id, idempotency_key).
ConstraintsBaseOnly(r) == \A c \in commits : c.base # BaseRevision(r)

\* UNIQUE (tenant_id, idempotency_key) and UNIQUE (tenant_id, base_revision).
ConstraintsHold(r) ==
  \A c \in commits : c.key # Key(r) /\ c.base # BaseRevision(r)

\* Mutant: the revision the client sent is recorded as the base.
CommitRowExpected(r) ==
  [key |-> Key(r), body |-> Body(r), base |-> expected[r],
   new |-> BaseRevision(r) + 1, state |-> loaded[r], by |-> r]

CommitRow(r) ==
  [key |-> Key(r), body |-> Body(r), base |-> BaseRevision(r),
   new |-> BaseRevision(r) + 1, state |-> loaded[r], by |-> r]

\* The statements of the batch: the mutation commit, every changed row, and the
\* read model, whose upsert is guarded by the base revision.
WriteBatch(r) ==
  /\ ReadsBack(r) /\ observed[r] = BaseRevision(r)
  /\ ConstraintsHold(r)
  /\ commits' = commits \cup {CommitRow(r)}
  /\ rows' = [e \in Entities |-> WriteRow(rows[e], seen[r][e], loaded[r][e])]
  /\ readModel' = IF readModel.revision = BaseRevision(r)
                  THEN [revision |-> BaseRevision(r) + 1, state |-> loaded[r]]
                  ELSE readModel

BatchCommits(r) ==
  /\ Goto(r, "persist", "return")
  /\ WriteBatch(r)
  /\ UNCHANGED <<expected, attempt, base, loaded, reads, seen, observed, reply>>

\* COMMIT succeeded and the connection broke before the client heard of it.
BatchCommitsUnheard(r) ==
  /\ Goto(r, "persist", ErrorTo(r))
  /\ WriteBatch(r)
  /\ Tell(r, "FAILED", 0)
  /\ UNCHANGED <<expected, attempt, base, loaded, reads, seen, observed>>

\* A UNIQUE constraint refuses the batch; all of it is rolled back.
BatchRefused(r) ==
  /\ Goto(r, "persist", ErrorTo(r))
  /\ ReadsBack(r) /\ observed[r] = BaseRevision(r)
  /\ ~ConstraintsHold(r)
  /\ Tell(r, IF r \in Mutations THEN "CONFLICT" ELSE "FAILED", 0)
  /\ UNCHANGED <<store, expected, attempt, base, loaded, reads, seen, observed>>

\* A serialization failure (CONFLICT) or another database error rolls it back.
BatchAborted(r) ==
  /\ Goto(r, "persist", ErrorTo(r))
  /\ ReadsBack(r) /\ observed[r] = BaseRevision(r)
  /\ \E kind \in {"CONFLICT", "FAILED"} : Tell(r, kind, 0)
  /\ UNCHANGED <<store, expected, attempt, base, loaded, reads, seen, observed>>

RecoverHit(r) ==
  /\ Goto(r, "recover", "done")
  /\ AnswerStored(r)
  /\ UNCHANGED <<store, expected, attempt, base, loaded, reads, seen, observed>>

RecoverMiss(r) ==
  /\ Goto(r, "recover", "done")
  /\ CommitsOf(r) = {}
  /\ UNCHANGED <<store, expected, attempt, base, loaded, reads, seen, observed, reply>>

\* Mutant: the caller is told the base revision instead of the new one.
ReturnBase(r) ==
  /\ Goto(r, "return", "done")
  /\ Tell(r, "accepted", BaseRevision(r))
  /\ UNCHANGED <<store, expected, attempt, base, loaded, reads, seen, observed>>

Return(r) ==
  /\ Goto(r, "return", "done")
  /\ Tell(r, "accepted", BaseRevision(r) + 1)
  /\ UNCHANGED <<store, expected, attempt, base, loaded, reads, seen, observed>>

\* The isolate is stopped or a query fails: the client learns nothing.
Interrupt(r) ==
  /\ pc[r] \notin {"idle", "done"}
  /\ pc' = [pc EXCEPT ![r] = "done"]
  /\ Tell(r, "FAILED", 0)
  /\ UNCHANGED <<store, expected, attempt, base, loaded, reads, seen, observed>>

Next == \E r \in Requests :
  \/ ReceiveMutation(r)  \/ ReceiveSave(r)
  \/ LookupHit(r)        \/ LookupMiss(r)
  \/ ReadBefore(r)       \/ LoadState(r)
  \/ ReadAfterStable(r)  \/ ReadAfterMoved(r)
  \/ RefuseStale(r)      \/ RefuseRule(r)       \/ Apply(r)
  \/ PersistReadRows(r)  \/ PersistReadRevision(r)
  \/ PersistMoved(r)
  \/ BatchCommits(r)     \/ BatchCommitsUnheard(r)
  \/ BatchRefused(r)     \/ BatchAborted(r)
  \/ RecoverHit(r)       \/ RecoverMiss(r)
  \/ Return(r)           \/ Interrupt(r)

Spec == Init /\ [][Next]_vars
-----------------------------------------------------------------------------
Phases == {"idle", "lookup", "before", "load", "after", "prepare", "persist",
           "recover", "return", "done"}
ReplyKinds == {"none", "accepted", "duplicate", "CONFLICT", "DUPLICATE",
               "VALIDATION_FAILED", "FAILED"}
RowSet    == [version : Nat, value : Values]
CommitSet == [key : {Key(r) : r \in Requests}, body : {Body(r) : r \in Requests},
              base : Nat, new : Nat, state : States, by : Requests]

\* Every variable of the repository and of its callers holds a value of its type.
TypeOK ==
  /\ rows \in [Entities -> RowSet]
  /\ readModel \in [revision : Nat, state : States]
  /\ commits \subseteq CommitSet
  /\ pc \in [Requests -> Phases]
  /\ expected \in [Requests -> Nat \cup {NoRevision}]
  /\ attempt \in [Requests -> Nat]
  /\ base \in [Requests -> Nat]
  /\ loaded \in [Requests -> States]
  /\ reads \in [Requests -> SUBSET {"rows", "revision"}]
  /\ seen \in [Requests -> [Entities -> RowSet]]
  /\ observed \in [Requests -> Nat]
  /\ reply \in [Requests -> [kind : ReplyKinds, revision : Nat]]

\* The revision of the read model, which every optimistic check compares with,
\* is the number of commits: the bases of mutation_commits are 0 .. revision - 1,
\* each used by one commit, and no idempotency key was committed twice.
RevisionCountsCommits ==
  /\ {c.base : c \in commits} = 0 .. (readModel.revision - 1)
  /\ \A c \in commits : c.new = c.base + 1
  /\ \A c, d \in commits : (c.base = d.base \/ c.key = d.key) => c = d

\* No update is lost: every commit stores what its command makes of the state
\* that the commit before it stored, however many requests were in flight.
NoLostUpdate ==
  \A c \in commits :
    \/ c.base = 0 /\ c.state = Mutate(EmptyState, c.body)
    \/ \E d \in commits : d.new = c.base /\ c.state = Mutate(d.state, c.body)

\* The rows that loadState reads and the JSON read model written in the same
\* batch are the same state, although each row and the read model is guarded by
\* a version of its own that may silently refuse the write.
RowsMatchReadModel == StateOf(rows) = readModel.state

\* A request told "accepted" or "duplicate" has its command committed, with the
\* same body and at the revision it was told; one told CONFLICT, DUPLICATE or
\* VALIDATION_FAILED has itself written nothing, now or later.
AnswersAreTrue ==
  \A r \in Mutations : pc[r] = "done" =>
    /\ reply[r].kind \in {"accepted", "duplicate"} =>
         \E c \in CommitsOf(r) : c.body = Body(r) /\ c.new = reply[r].revision
    /\ reply[r].kind = "accepted" => \E c \in CommitsOf(r) : c.by = r
    /\ reply[r].kind \in {"CONFLICT", "DUPLICATE", "VALIDATION_FAILED"} =>
         \A c \in commits : c.by # r

\* The repository implements the serial ledger: the rows change only by one
\* command at a time, and every answer is true of the ledger when it is given.
Told == [r \in Requests |-> IF pc[r] = "done" THEN reply[r] ELSE NoReply]
Ledger == INSTANCE SerialLedger WITH
  ledger   <- commits,
  revision <- readModel.revision,
  state    <- StateOf(rows),
  replies  <- Told

LedgerSpec == Ledger!Spec
-----------------------------------------------------------------------------
(* What the invariants rest on, used by AuthoritativeStoreProofs.             *)

\* A revision that a request read is one the read model has had.
ReadsNotAhead ==
  \A r \in Requests : /\ base[r] <= readModel.revision
                       /\ observed[r] <= readModel.revision

\* The read model is what the last commit stored.
ReadModelIsLast ==
  /\ readModel.revision = 0 => readModel.state = EmptyState
  /\ \A c \in commits : c.new = readModel.revision => c.state = readModel.state

\* What a mutation read at its base revision is current for as long as the
\* revision has not moved, and persistState starts with nothing read.
Preparing == {"idle", "lookup", "before", "load", "after", "prepare"}
CurrentFor(r) ==
  /\ pc[r] \in Preparing => reads[r] = {}
  /\ base[r] = readModel.revision =>
       /\ pc[r] \in {"after", "prepare"} => loaded[r] = StateOf(rows)
       /\ pc[r] = "persist" => loaded[r] = Mutate(StateOf(rows), Body(r))
       /\ (pc[r] = "persist" /\ "rows" \in reads[r]) => seen[r] = rows
ReadsCurrent == \A r \in Mutations : CurrentFor(r)

\* A request that has not committed, or is about to be refused, is not in the
\* ledger; one about to return is.
PendingAnswers ==
  \A r \in Requests :
    /\ pc[r] \in Preparing \cup {"persist"} =>
         \A c \in commits : c.by # r
    /\ pc[r] = "recover" =>
         /\ reply[r] \in {[kind |-> "CONFLICT", revision |-> 0],
                         [kind |-> "FAILED", revision |-> 0]}
         /\ reply[r].kind = "CONFLICT" => \A c \in commits : c.by # r
    /\ pc[r] = "return" =>
         \E c \in commits : /\ c.by = r /\ c.key = Key(r) /\ c.body = Body(r)
                             /\ c.new = BaseRevision(r) + 1

\* A commit carries the key and the body of the request that wrote it.
CommitsOwn == \A c \in commits : c.key = Key(c.by) /\ c.body = Body(c.by)

CountInv  == TypeOK /\ RevisionCountsCommits /\ ReadsNotAhead
SerialInv == /\ CountInv /\ NoLostUpdate /\ RowsMatchReadModel
             /\ ReadModelIsLast /\ ReadsCurrent /\ PendingAnswers /\ CommitsOwn
=============================================================================
