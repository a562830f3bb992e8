---------------------- MODULE AuthoritativeStoreProofs ----------------------
(* Proofs about AuthoritativeStore, for every set of requests, keys, bodies,   *)
(* entities and every mutation function.                                       *)
EXTENDS AuthoritativeStore, TLAPS

-----------------------------------------------------------------------------
(* Typing.                                                                     *)

\* The empty repository, with no request started, is well typed.
LEMMA InitType == Init => TypeOK
<1> SUFFICES ASSUME Init PROVE TypeOK OBVIOUS
<1>1. EmptyState \in States
  BY AbsentAssumption DEF EmptyState, States
<1>2. rows \in [Entities -> RowSet]
  BY AbsentAssumption DEF Init, RowSet
<1> QED
  BY <1>1, <1>2 DEF Init, TypeOK, Phases, ReplyKinds, NoRevision, NoReply

\* The state loadState reconstructs from well-typed rows is a state.
LEMMA StateOfType ==
  ASSUME NEW rs \in [Entities -> RowSet] PROVE StateOf(rs) \in States
BY DEF StateOf, States, RowSet

\* An upsert or a delete, applied or refused by its version guard, leaves a row.
LEMMA WriteRowType ==
  ASSUME NEW row \in RowSet, NEW was \in RowSet, NEW value \in Values
  PROVE  WriteRow(row, was, value) \in RowSet
BY AbsentAssumption DEF WriteRow, RowSet

\* The batch of persistState leaves well-typed rows, read model and commits.
LEMMA WriteBatchType ==
  ASSUME TypeOK, NEW r \in Requests, WriteBatch(r)
  PROVE  /\ rows' \in [Entities -> RowSet]
         /\ readModel' \in [revision : Nat, state : States]
         /\ commits' \subseteq CommitSet
<1>1. BaseRevision(r) \in Nat
  BY DEF TypeOK, BaseRevision
<1>2. loaded[r] \in States /\ seen[r] \in [Entities -> RowSet]
  BY DEF TypeOK
<1>3. \A e \in Entities : WriteRow(rows[e], seen[r][e], loaded[r][e]) \in RowSet
  BY <1>2, WriteRowType DEF TypeOK, States
<1>4. CommitRow(r) \in CommitSet
  BY <1>1, <1>2 DEF CommitRow, CommitSet
<1> QED
  BY <1>1, <1>2, <1>3, <1>4 DEF WriteBatch, TypeOK

\* An answer of one of the known kinds keeps the table of answers well typed.
LEMMA TellType ==
  ASSUME TypeOK, NEW r \in Requests, NEW kind \in ReplyKinds, NEW n \in Nat,
         Tell(r, kind, n)
  PROVE  reply' \in [Requests -> [kind : ReplyKinds, revision : Nat]]
BY DEF Tell, TypeOK

\* Every step of every request preserves the type invariant.
LEMMA NextType == TypeOK /\ [Next]_vars => TypeOK'
<1> SUFFICES ASSUME TypeOK, [Next]_vars PROVE TypeOK' OBVIOUS
<1>1. CASE UNCHANGED vars
  BY <1>1 DEF TypeOK, vars
<1>2. ASSUME NEW r \in Requests, ReceiveMutation(r) PROVE TypeOK'
  BY <1>2 DEF ReceiveMutation, TypeOK, store, Goto, Phases, NoRevision
<1>3. ASSUME NEW r \in Requests, ReceiveSave(r) PROVE TypeOK'
  BY <1>3 DEF ReceiveSave, TypeOK, store, Goto, Phases
<1>4. ASSUME NEW r \in Requests, LookupMiss(r) PROVE TypeOK'
  BY <1>4 DEF LookupMiss, TypeOK, store, Goto, Phases
<1>5. ASSUME NEW r \in Requests, ReadBefore(r) PROVE TypeOK'
  BY <1>5 DEF ReadBefore, TypeOK, store, Goto, Phases
<1>6. ASSUME NEW r \in Requests, ReadAfterStable(r) PROVE TypeOK'
  BY <1>6 DEF ReadAfterStable, TypeOK, store, Goto, Phases
<1>7. ASSUME NEW r \in Requests, ReadAfterMoved(r) PROVE TypeOK'
  <2>1. pc' \in [Requests -> Phases] /\ attempt' \in [Requests -> Nat]
    BY <1>7 DEF ReadAfterMoved, TypeOK, Goto, Phases
  <2>2. reply' \in [Requests -> [kind : ReplyKinds, revision : Nat]]
    BY <1>7, TellType DEF ReadAfterMoved, TypeOK, ReplyKinds
  <2> QED
    BY <1>7, <2>1, <2>2 DEF ReadAfterMoved, TypeOK, store
<1>8. ASSUME NEW r \in Requests, RefuseStale(r) PROVE TypeOK'
  BY <1>8 DEF RefuseStale, TypeOK, store, Goto, Phases, Tell, ReplyKinds
<1>9. ASSUME NEW r \in Requests, RefuseRule(r) PROVE TypeOK'
  BY <1>9 DEF RefuseRule, TypeOK, store, Goto, Phases, Tell, ReplyKinds
<1>10. ASSUME NEW r \in Requests, PersistReadRows(r) PROVE TypeOK'
  BY <1>10 DEF PersistReadRows, TypeOK, store
<1>11. ASSUME NEW r \in Requests, PersistReadRevision(r) PROVE TypeOK'
  BY <1>11 DEF PersistReadRevision, TypeOK, store
<1>12. ASSUME NEW r \in Requests, PersistMoved(r) PROVE TypeOK'
  BY <1>12 DEF PersistMoved, TypeOK, store, Goto, Phases, Tell, ReplyKinds, ErrorTo
<1>13. ASSUME NEW r \in Requests, BatchRefused(r) PROVE TypeOK'
  BY <1>13 DEF BatchRefused, TypeOK, store, Goto, Phases, Tell, ReplyKinds, ErrorTo
<1>14. ASSUME NEW r \in Requests, BatchAborted(r) PROVE TypeOK'
  BY <1>14 DEF BatchAborted, TypeOK, store, Goto, Phases, Tell, ReplyKinds, ErrorTo
<1>15. ASSUME NEW r \in Requests, RecoverMiss(r) PROVE TypeOK'
  BY <1>15 DEF RecoverMiss, TypeOK, store, Goto, Phases
<1>16. ASSUME NEW r \in Requests, Interrupt(r) PROVE TypeOK'
  BY <1>16 DEF Interrupt, TypeOK, store, Phases, Tell, ReplyKinds
<1>17. ASSUME NEW r \in Requests, LookupHit(r) PROVE TypeOK'
  <2>1. PICK c \in commits : Tell(r, "duplicate", c.new) \/ Tell(r, "DUPLICATE", 0)
    BY <1>17 DEF LookupHit, AnswerStored, CommitsOf
  <2>2. c.new \in Nat
    BY DEF TypeOK, CommitSet
  <2>3. reply' \in [Requests -> [kind : ReplyKinds, revision : Nat]]
    BY <2>1, <2>2, TellType DEF ReplyKinds
  <2> QED
    BY <1>17, <2>3 DEF LookupHit, TypeOK, store, Goto, Phases
<1>18. ASSUME NEW r \in Requests, RecoverHit(r) PROVE TypeOK'
  <2>1. PICK c \in commits : Tell(r, "duplicate", c.new) \/ Tell(r, "DUPLICATE", 0)
    BY <1>18 DEF RecoverHit, AnswerStored, CommitsOf
  <2>2. c.new \in Nat
    BY DEF TypeOK, CommitSet
  <2>3. reply' \in [Requests -> [kind : ReplyKinds, revision : Nat]]
    BY <2>1, <2>2, TellType DEF ReplyKinds
  <2> QED
    BY <1>18, <2>3 DEF RecoverHit, TypeOK, store, Goto, Phases
<1>19. ASSUME NEW r \in Requests, LoadState(r) PROVE TypeOK'
  <2>1. StateOf(rows) \in States
    BY StateOfType DEF TypeOK
  <2> QED
    BY <1>19, <2>1 DEF LoadState, TypeOK, store, Goto, Phases
<1>20. ASSUME NEW r \in Requests, Apply(r) PROVE TypeOK'
  <2>1. Mutate(loaded[r], Body(r)) \in States
    BY MutateAssumption DEF TypeOK
  <2> QED
    BY <1>20, <2>1 DEF Apply, TypeOK, store, Goto, Phases
<1>21. ASSUME NEW r \in Requests, BatchCommits(r) PROVE TypeOK'
  <2>1. WriteBatch(r)
    BY <1>21 DEF BatchCommits
  <2>2. /\ rows' \in [Entities -> RowSet]
        /\ readModel' \in [revision : Nat, state : States]
        /\ commits' \subseteq CommitSet
    BY <2>1, WriteBatchType
  <2> QED
    BY <1>21, <2>2 DEF BatchCommits, TypeOK, Goto, Phases
<1>22. ASSUME NEW r \in Requests, BatchCommitsUnheard(r) PROVE TypeOK'
  <2>1. WriteBatch(r)
    BY <1>22 DEF BatchCommitsUnheard
  <2>2. /\ rows' \in [Entities -> RowSet]
        /\ readModel' \in [revision : Nat, state : States]
        /\ commits' \subseteq CommitSet
    BY <2>1, WriteBatchType
  <2> QED
    BY <1>22, <2>2 DEF BatchCommitsUnheard, TypeOK, Goto, Phases, Tell, ReplyKinds, ErrorTo
<1>23. ASSUME NEW r \in Requests, Return(r) PROVE TypeOK'
  <2>1. BaseRevision(r) + 1 \in Nat
    BY DEF TypeOK, BaseRevision
  <2> QED
    BY <1>23, <2>1 DEF Return, TypeOK, store, Goto, Phases, Tell, ReplyKinds
<1> QED
  BY <1>1, <1>2, <1>3, <1>4, <1>5, <1>6, <1>7, <1>8, <1>9, <1>10, <1>11, <1>12, <1>13, <1>14, <1>15, <1>16, <1>17, <1>18, <1>19, <1>20, <1>21, <1>22, <1>23
  DEF Next

\* Every reachable state of the repository is well typed, whatever the requests,
\* the entities and the mutations are.
THEOREM TypeCorrect == Spec => []TypeOK
BY InitType, NextType, PTL DEF Spec

-----------------------------------------------------------------------------
(* One writer per base revision, with saveState calls among the requests.      *)

\* Only a batch changes the database.
LEMMA BatchStep ==
  ASSUME [Next]_vars
  PROVE  UNCHANGED store \/ \E q \in Requests : pc[q] = "persist" /\ WriteBatch(q)
<1>1. ASSUME NEW r \in Requests, ReceiveMutation(r) 
      PROVE  UNCHANGED store \/ \E q \in Requests : pc[q] = "persist" /\ WriteBatch(q)
  BY <1>1 DEF ReceiveMutation, store
<1>2. ASSUME NEW r \in Requests, ReceiveSave(r) 
      PROVE  UNCHANGED store \/ \E q \in Requests : pc[q] = "persist" /\ WriteBatch(q)
  BY <1>2 DEF ReceiveSave, store
<1>3. ASSUME NEW r \in Requests, LookupHit(r) 
      PROVE  UNCHANGED store \/ \E q \in Requests : pc[q] = "persist" /\ WriteBatch(q)
  BY <1>3 DEF LookupHit, store
<1>4. ASSUME NEW r \in Requests, LookupMiss(r) 
      PROVE  UNCHANGED store \/ \E q \in Requests : pc[q] = "persist" /\ WriteBatch(q)
  BY <1>4 DEF LookupMiss, store
<1>5. ASSUME NEW r \in Requests, ReadBefore(r) 
      PROVE  UNCHANGED store \/ \E q \in Requests : pc[q] = "persist" /\ WriteBatch(q)
  BY <1>5 DEF ReadBefore, store
<1>6. ASSUME NEW r \in Requests, LoadState(r) 
      PROVE  UNCHANGED store \/ \E q \in Requests : pc[q] = "persist" /\ WriteBatch(q)
  BY <1>6 DEF LoadState, store
<1>7. ASSUME NEW r \in Requests, ReadAfterStable(r) 
      PROVE  UNCHANGED store \/ \E q \in Requests : pc[q] = "persist" /\ WriteBatch(q)
  BY <1>7 DEF ReadAfterStable, store
<1>8. ASSUME NEW r \in Requests, ReadAfterMoved(r) 
      PROVE  UNCHANGED store \/ \E q \in Requests : pc[q] = "persist" /\ WriteBatch(q)
  BY <1>8 DEF ReadAfterMoved, store
<1>9. ASSUME NEW r \in Requests, RefuseStale(r) 
      PROVE  UNCHANGED store \/ \E q \in Requests : pc[q] = "persist" /\ WriteBatch(q)
  BY <1>9 DEF RefuseStale, store
<1>10. ASSUME NEW r \in Requests, RefuseRule(r) 
      PROVE  UNCHANGED store \/ \E q \in Requests : pc[q] = "persist" /\ WriteBatch(q)
  BY <1>10 DEF RefuseRule, store
<1>11. ASSUME NEW r \in Requests, Apply(r) 
      PROVE  UNCHANGED store \/ \E q \in Requests : pc[q] = "persist" /\ WriteBatch(q)
  BY <1>11 DEF Apply, store
<1>12. ASSUME NEW r \in Requests, PersistReadRows(r) 
      PROVE  UNCHANGED store \/ \E q \in Requests : pc[q] = "persist" /\ WriteBatch(q)
  BY <1>12 DEF PersistReadRows, store
<1>13. ASSUME NEW r \in Requests, PersistReadRevision(r) 
      PROVE  UNCHANGED store \/ \E q \in Requests : pc[q] = "persist" /\ WriteBatch(q)
  BY <1>13 DEF PersistReadRevision, store
<1>14. ASSUME NEW r \in Requests, PersistMoved(r) 
      PROVE  UNCHANGED store \/ \E q \in Requests : pc[q] = "persist" /\ WriteBatch(q)
  BY <1>14 DEF PersistMoved, store
<1>15. ASSUME NEW r \in Requests, BatchCommits(r) 
      PROVE  UNCHANGED store \/ \E q \in Requests : pc[q] = "persist" /\ WriteBatch(q)
  BY <1>15 DEF BatchCommits, Goto
<1>16. ASSUME NEW r \in Requests, BatchCommitsUnheard(r) 
      PROVE  UNCHANGED store \/ \E q \in Requests : pc[q] = "persist" /\ WriteBatch(q)
  BY <1>16 DEF BatchCommitsUnheard, Goto
<1>17. ASSUME NEW r \in Requests, BatchRefused(r) 
      PROVE  UNCHANGED store \/ \E q \in Requests : pc[q] = "persist" /\ WriteBatch(q)
  BY <1>17 DEF BatchRefused, store
<1>18. ASSUME NEW r \in Requests, BatchAborted(r) 
      PROVE  UNCHANGED store \/ \E q \in Requests : pc[q] = "persist" /\ WriteBatch(q)
  BY <1>18 DEF BatchAborted, store
<1>19. ASSUME NEW r \in Requests, RecoverHit(r) 
      PROVE  UNCHANGED store \/ \E q \in Requests : pc[q] = "persist" /\ WriteBatch(q)
  BY <1>19 DEF RecoverHit, store
<1>20. ASSUME NEW r \in Requests, RecoverMiss(r) 
      PROVE  UNCHANGED store \/ \E q \in Requests : pc[q] = "persist" /\ WriteBatch(q)
  BY <1>20 DEF RecoverMiss, store
<1>21. ASSUME NEW r \in Requests, Return(r) 
      PROVE  UNCHANGED store \/ \E q \in Requests : pc[q] = "persist" /\ WriteBatch(q)
  BY <1>21 DEF Return, store
<1>22. ASSUME NEW r \in Requests, Interrupt(r) 
      PROVE  UNCHANGED store \/ \E q \in Requests : pc[q] = "persist" /\ WriteBatch(q)
  BY <1>22 DEF Interrupt, store
<1>23. CASE UNCHANGED vars
  BY <1>23 DEF vars, store
<1> QED
  BY <1>1, <1>2, <1>3, <1>4, <1>5, <1>6, <1>7, <1>8, <1>9, <1>10, <1>11, <1>12, <1>13, <1>14, <1>15, <1>16, <1>17, <1>18, <1>19, <1>20, <1>21, <1>22, <1>23
  DEF Next

\* A revision a request holds after a step was held before it, or is current.
ReadsAt == \A q \in Requests : /\ base'[q] \in {base[q], readModel.revision}
                               /\ observed'[q] \in {observed[q], readModel.revision}

\* A step leaves every revision a request has read as it was, or replaces it by
\* the current one.
LEMMA ReadsStep == ASSUME TypeOK, [Next]_vars PROVE ReadsAt
<1>1. ASSUME NEW r \in Requests, ReceiveMutation(r) PROVE ReadsAt
  BY <1>1 DEF ReceiveMutation, TypeOK, ReadsAt
<1>2. ASSUME NEW r \in Requests, ReceiveSave(r) PROVE ReadsAt
  BY <1>2 DEF ReceiveSave, TypeOK, ReadsAt
<1>3. ASSUME NEW r \in Requests, LookupHit(r) PROVE ReadsAt
  BY <1>3 DEF LookupHit, TypeOK, ReadsAt
<1>4. ASSUME NEW r \in Requests, LookupMiss(r) PROVE ReadsAt
  BY <1>4 DEF LookupMiss, TypeOK, ReadsAt
<1>5. ASSUME NEW r \in Requests, ReadBefore(r) PROVE ReadsAt
  BY <1>5 DEF ReadBefore, TypeOK, ReadsAt
<1>6. ASSUME NEW r \in Requests, LoadState(r) PROVE ReadsAt
  BY <1>6 DEF LoadState, TypeOK, ReadsAt
<1>7. ASSUME NEW r \in Requests, ReadAfterStable(r) PROVE ReadsAt
  BY <1>7 DEF ReadAfterStable, TypeOK, ReadsAt
<1>8. ASSUME NEW r \in Requests, ReadAfterMoved(r) PROVE ReadsAt
  BY <1>8 DEF ReadAfterMoved, TypeOK, ReadsAt
<1>9. ASSUME NEW r \in Requests, RefuseStale(r) PROVE ReadsAt
  BY <1>9 DEF RefuseStale, TypeOK, ReadsAt
<1>10. ASSUME NEW r \in Requests, RefuseRule(r) PROVE ReadsAt
  BY <1>10 DEF RefuseRule, TypeOK, ReadsAt
<1>11. ASSUME NEW r \in Requests, Apply(r) PROVE ReadsAt
  BY <1>11 DEF Apply, TypeOK, ReadsAt
<1>12. ASSUME NEW r \in Requests, PersistReadRows(r) PROVE ReadsAt
  BY <1>12 DEF PersistReadRows, TypeOK, ReadsAt
<1>13. ASSUME NEW r \in Requests, PersistReadRevision(r) PROVE ReadsAt
  BY <1>13 DEF PersistReadRevision, TypeOK, ReadsAt
<1>14. ASSUME NEW r \in Requests, PersistMoved(r) PROVE ReadsAt
  BY <1>14 DEF PersistMoved, TypeOK, ReadsAt
<1>15. ASSUME NEW r \in Requests, BatchCommits(r) PROVE ReadsAt
  BY <1>15 DEF BatchCommits, TypeOK, ReadsAt
<1>16. ASSUME NEW r \in Requests, BatchCommitsUnheard(r) PROVE ReadsAt
  BY <1>16 DEF BatchCommitsUnheard, TypeOK, ReadsAt
<1>17. ASSUME NEW r \in Requests, BatchRefused(r) PROVE ReadsAt
  BY <1>17 DEF BatchRefused, TypeOK, ReadsAt
<1>18. ASSUME NEW r \in Requests, BatchAborted(r) PROVE ReadsAt
  BY <1>18 DEF BatchAborted, TypeOK, ReadsAt
<1>19. ASSUME NEW r \in Requests, RecoverHit(r) PROVE ReadsAt
  BY <1>19 DEF RecoverHit, TypeOK, ReadsAt
<1>20. ASSUME NEW r \in Requests, RecoverMiss(r) PROVE ReadsAt
  BY <1>20 DEF RecoverMiss, TypeOK, ReadsAt
<1>21. ASSUME NEW r \in Requests, Return(r) PROVE ReadsAt
  BY <1>21 DEF Return, TypeOK, ReadsAt
<1>22. ASSUME NEW r \in Requests, Interrupt(r) PROVE ReadsAt
  BY <1>22 DEF Interrupt, TypeOK, ReadsAt
<1>23. CASE UNCHANGED vars
  BY <1>23 DEF vars, ReadsAt
<1> QED
  BY <1>1, <1>2, <1>3, <1>4, <1>5, <1>6, <1>7, <1>8, <1>9, <1>10, <1>11, <1>12, <1>13, <1>14, <1>15, <1>16, <1>17, <1>18, <1>19, <1>20, <1>21, <1>22, <1>23
  DEF Next

\* A batch that passes the constraints was based on the current revision.
LEMMA BatchIsCurrent ==
  ASSUME CountInv, NEW r \in Requests, WriteBatch(r)
  PROVE  /\ BaseRevision(r) = readModel.revision
         /\ commits' = commits \cup {CommitRow(r)}
         /\ readModel' = [revision |-> readModel.revision + 1, state |-> loaded[r]]
<1>1. BaseRevision(r) \in Nat /\ readModel.revision \in Nat
  BY DEF CountInv, TypeOK, BaseRevision
<1>2. BaseRevision(r) <= readModel.revision
  BY DEF CountInv, ReadsNotAhead, BaseRevision
<1>3. BaseRevision(r) \notin 0 .. (readModel.revision - 1)
  BY DEF CountInv, RevisionCountsCommits, WriteBatch, ConstraintsHold
<1>4. BaseRevision(r) = readModel.revision
  BY <1>1, <1>2, <1>3
<1> QED
  BY <1>4 DEF WriteBatch

\* In the empty repository the revision counts the commits: there are none.
LEMMA InitCount == Init => CountInv
<1> SUFFICES ASSUME Init PROVE CountInv OBVIOUS
<1>1. RevisionCountsCommits
  BY DEF Init, RevisionCountsCommits
<1>2. ReadsNotAhead
  BY DEF Init, ReadsNotAhead
<1> QED
  BY <1>1, <1>2, InitType DEF CountInv

\* The UNIQUE constraints and the guarded read model keep the count: a batch that
\* is accepted was based on the current revision, and nothing else writes.
LEMMA NextCount == CountInv /\ [Next]_vars => CountInv'
<1> SUFFICES ASSUME CountInv, [Next]_vars PROVE CountInv' OBVIOUS
<1>1. TypeOK'
  BY NextType DEF CountInv
<1>2. readModel.revision \in Nat
  BY DEF CountInv, TypeOK
<1>3. RevisionCountsCommits' /\ readModel.revision <= readModel'.revision
  <2>1. CASE UNCHANGED store
    BY <2>1, <1>2 DEF store, CountInv, RevisionCountsCommits
  <2>2. ASSUME NEW r \in Requests, WriteBatch(r)
        PROVE  RevisionCountsCommits' /\ readModel.revision <= readModel'.revision
    <3>1. /\ BaseRevision(r) = readModel.revision
          /\ commits' = commits \cup {CommitRow(r)}
          /\ readModel'.revision = readModel.revision + 1
      BY <2>2, BatchIsCurrent
    <3>2. /\ CommitRow(r).base = readModel.revision
          /\ CommitRow(r).new = readModel.revision + 1
          /\ CommitRow(r).key = Key(r)
      BY <3>1 DEF CommitRow
    <3>3. {c.base : c \in commits'} = 0 .. (readModel'.revision - 1)
      <4>1. {c.base : c \in commits'} = {c.base : c \in commits} \cup {readModel.revision}
        BY <3>1, <3>2
      <4>2. {c.base : c \in commits} = 0 .. (readModel.revision - 1)
        BY DEF CountInv, RevisionCountsCommits
      <4>3. 0 .. ((readModel.revision + 1) - 1)
              = (0 .. (readModel.revision - 1)) \cup {readModel.revision}
        BY <1>2
      <4> QED
        BY <4>1, <4>2, <4>3, <3>1
    <3>4. \A c \in commits' : c.new = c.base + 1
      BY <3>1, <3>2 DEF CountInv, RevisionCountsCommits
    <3>5. \A c, d \in commits' : (c.base = d.base \/ c.key = d.key) => c = d
      BY <2>2, <3>1, <3>2 DEF CountInv, RevisionCountsCommits, WriteBatch, ConstraintsHold
    <3> QED
      BY <3>1, <3>3, <3>4, <3>5, <1>2 DEF RevisionCountsCommits
  <2> QED
    BY <2>1, <2>2, BatchStep
<1>4. ReadsNotAhead'
  <2> SUFFICES ASSUME NEW q \in Requests
               PROVE  /\ base'[q] <= readModel'.revision
                      /\ observed'[q] <= readModel'.revision
    BY DEF ReadsNotAhead
  <2>1. /\ base[q] <= readModel.revision /\ observed[q] <= readModel.revision
        /\ base'[q] \in {base[q], readModel.revision}
        /\ observed'[q] \in {observed[q], readModel.revision}
    BY ReadsStep DEF CountInv, ReadsNotAhead, ReadsAt
  <2>2. readModel'.revision \in Nat /\ base[q] \in Nat /\ observed[q] \in Nat
    BY <1>1 DEF CountInv, TypeOK
  <2> QED
    BY <2>1, <2>2, <1>2, <1>3
<1> QED
  BY <1>1, <1>3, <1>4 DEF CountInv

\* One writer per base revision and one commit per idempotency key, and the read
\* model's revision counts the commits, whatever mutations and saves race.
THEOREM OneWriterPerRevision == Spec => []RevisionCountsCommits
<1>1. Init => CountInv
  BY InitCount
<1>2. CountInv /\ [Next]_vars => CountInv'
  BY NextCount
<1>3. CountInv => RevisionCountsCommits
  BY DEF CountInv
<1> QED
  BY <1>1, <1>2, <1>3, PTL DEF Spec

-----------------------------------------------------------------------------
(* No lost update, when every writer is a commitMutation.                      *)

\* A row that is still the one that was read takes the value written to it.
LEMMA WriteRowSets ==
  ASSUME NEW row \in RowSet, NEW value \in Values
  PROVE  WriteRow(row, row, value).value = value
BY DEF WriteRow, RowSet

\* A batch that is accepted turns the rows into the state its command makes of
\* the current one.
LEMMA BatchWrites ==
  ASSUME SerialInv, Saves = {}, NEW r \in Requests, pc[r] = "persist", WriteBatch(r)
  PROVE  /\ StateOf(rows)' = loaded[r]
         /\ loaded[r] = Mutate(StateOf(rows), Body(r))
<1>1. r \in Mutations
  BY DEF Requests
<1>2. base[r] = readModel.revision
  BY <1>1, BatchIsCurrent DEF SerialInv, BaseRevision
<1>3. seen[r] = rows /\ loaded[r] = Mutate(StateOf(rows), Body(r))
  BY <1>1, <1>2 DEF SerialInv, ReadsCurrent, CurrentFor, WriteBatch, ReadsBack
<1>4. loaded[r] \in [Entities -> Values] /\ rows \in [Entities -> RowSet]
  BY DEF SerialInv, CountInv, TypeOK, States
<1>5. \A e \in Entities : rows'[e].value = loaded[r][e]
  BY <1>3, <1>4, WriteRowSets DEF WriteBatch
<1>6. StateOf(rows)' = [e \in Entities |-> loaded[r][e]]
  BY <1>5 DEF StateOf
<1> QED
  BY <1>3, <1>4, <1>6

\* A batch adds one commit to the history, computed from the state the last one
\* stored, and the rows, the read model and that commit agree afterwards.
LEMMA BatchKeepsHistory ==
  ASSUME SerialInv, Saves = {}, NEW r \in Requests, pc[r] = "persist", WriteBatch(r)
  PROVE  NoLostUpdate' /\ RowsMatchReadModel' /\ ReadModelIsLast' /\ CommitsOwn'
<1>1. /\ BaseRevision(r) = readModel.revision
      /\ commits' = commits \cup {CommitRow(r)}
      /\ readModel' = [revision |-> readModel.revision + 1, state |-> loaded[r]]
  BY BatchIsCurrent DEF SerialInv
<1>2. StateOf(rows)' = loaded[r] /\ loaded[r] = Mutate(readModel.state, Body(r))
  BY BatchWrites DEF SerialInv, RowsMatchReadModel
<1>3. /\ CommitRow(r).base = readModel.revision
      /\ CommitRow(r).new = readModel.revision + 1
      /\ CommitRow(r).state = Mutate(readModel.state, CommitRow(r).body)
      /\ CommitRow(r).state = loaded[r]
  BY <1>1, <1>2 DEF CommitRow
<1>4. readModel.revision \in Nat
  BY DEF SerialInv, CountInv, TypeOK
<1>5. \A c \in commits : c.base \in 0 .. (readModel.revision - 1) /\ c.new = c.base + 1
  BY DEF SerialInv, CountInv, RevisionCountsCommits
<1>6. \/ readModel.revision = 0 /\ readModel.state = EmptyState
      \/ \E d \in commits : d.new = readModel.revision /\ d.state = readModel.state
  <2>1. CASE readModel.revision = 0
    BY <2>1 DEF SerialInv, ReadModelIsLast
  <2>2. CASE readModel.revision # 0
    <3>1. readModel.revision - 1 \in {c.base : c \in commits}
      <4>1. readModel.revision - 1 \in 0 .. (readModel.revision - 1)
        BY <2>2, <1>4
      <4> QED
        BY <4>1 DEF SerialInv, CountInv, RevisionCountsCommits
    <3>2. PICK d \in commits : d.base = readModel.revision - 1
      BY <3>1
    <3>3. d.new = readModel.revision
      BY <3>2, <1>4, <1>5
    <3> QED
      BY <3>2, <3>3 DEF SerialInv, ReadModelIsLast
  <2> QED
    BY <2>1, <2>2
<1>7. NoLostUpdate'
  BY <1>1, <1>3, <1>6 DEF SerialInv, NoLostUpdate
<1>8. RowsMatchReadModel'
  BY <1>1, <1>2 DEF RowsMatchReadModel
<1>9. ReadModelIsLast'
  <2>1. \A c \in commits : c.new # readModel.revision + 1
    BY <1>4, <1>5
  <2> QED
    BY <1>1, <1>3, <1>4, <2>1 DEF ReadModelIsLast
<1>10. CommitsOwn'
  BY <1>1 DEF SerialInv, CommitsOwn, CommitRow
<1> QED
  BY <1>7, <1>8, <1>9, <1>10

\* A batch moves the revision, so nothing that was read before is current.
LEMMA BatchEndsReads ==
  ASSUME SerialInv, NEW r \in Requests, WriteBatch(r), UNCHANGED <<base, reads>>,
         NEW to \in {"return", "recover", "done"}, Goto(r, "persist", to)
  PROVE  ReadsCurrent'
<1> SUFFICES ASSUME NEW q \in Mutations PROVE CurrentFor(q)'
  BY DEF ReadsCurrent
<1>1. readModel'.revision = readModel.revision + 1 /\ readModel.revision \in Nat
  BY BatchIsCurrent DEF SerialInv, CountInv, TypeOK
<1>2. q \in Requests /\ base[q] \in Nat /\ base[q] <= readModel.revision
  BY DEF SerialInv, CountInv, TypeOK, ReadsNotAhead, Requests
<1>3. (pc[q] \in Preparing => reads[q] = {}) /\ pc \in [Requests -> Phases]
  BY DEF SerialInv, CountInv, TypeOK, ReadsCurrent, CurrentFor
<1>4. pc'[q] \in Preparing => reads'[q] = {}
  BY <1>2, <1>3 DEF Goto, Preparing
<1> QED
  BY <1>1, <1>2, <1>4 DEF CurrentFor

\* What a mutation has read stays current for as long as the revision does not move.
LEMMA NextReads == ASSUME SerialInv, [Next]_vars PROVE ReadsCurrent'
<1> SUFFICES ASSUME NEW q \in Mutations PROVE CurrentFor(q)'
  BY DEF ReadsCurrent
<1> USE DEF Preparing
<1>0. q \in Requests /\ CurrentFor(q) /\ TypeOK
  BY DEF Requests, SerialInv, CountInv, ReadsCurrent
<1>1. ASSUME NEW r \in Requests, ReceiveMutation(r) PROVE CurrentFor(q)'
  BY <1>0, <1>1 DEF ReceiveMutation, CurrentFor, TypeOK, Goto, store, StateOf
<1>2. ASSUME NEW r \in Requests, ReceiveSave(r) PROVE CurrentFor(q)'
  BY <1>0, <1>2 DEF ReceiveSave, CurrentFor, TypeOK, Goto, store, StateOf
<1>3. ASSUME NEW r \in Requests, LookupHit(r) PROVE CurrentFor(q)'
  BY <1>0, <1>3 DEF LookupHit, CurrentFor, TypeOK, Goto, store, StateOf
<1>4. ASSUME NEW r \in Requests, LookupMiss(r) PROVE CurrentFor(q)'
  BY <1>0, <1>4 DEF LookupMiss, CurrentFor, TypeOK, Goto, store, StateOf
<1>5. ASSUME NEW r \in Requests, ReadBefore(r) PROVE CurrentFor(q)'
  BY <1>0, <1>5 DEF ReadBefore, CurrentFor, TypeOK, Goto, store, StateOf
<1>6. ASSUME NEW r \in Requests, LoadState(r) PROVE CurrentFor(q)'
  BY <1>0, <1>6 DEF LoadState, CurrentFor, TypeOK, Goto, store, StateOf
<1>7. ASSUME NEW r \in Requests, ReadAfterStable(r) PROVE CurrentFor(q)'
  BY <1>0, <1>7 DEF ReadAfterStable, CurrentFor, TypeOK, Goto, store, StateOf
<1>8. ASSUME NEW r \in Requests, ReadAfterMoved(r) PROVE CurrentFor(q)'
  BY <1>0, <1>8 DEF ReadAfterMoved, CurrentFor, TypeOK, Goto, store, StateOf
<1>9. ASSUME NEW r \in Requests, RefuseStale(r) PROVE CurrentFor(q)'
  BY <1>0, <1>9 DEF RefuseStale, CurrentFor, TypeOK, Goto, store, StateOf
<1>10. ASSUME NEW r \in Requests, RefuseRule(r) PROVE CurrentFor(q)'
  BY <1>0, <1>10 DEF RefuseRule, CurrentFor, TypeOK, Goto, store, StateOf
<1>11. ASSUME NEW r \in Requests, Apply(r) PROVE CurrentFor(q)'
  BY <1>0, <1>11 DEF Apply, CurrentFor, TypeOK, Goto, store, StateOf
<1>12. ASSUME NEW r \in Requests, PersistReadRows(r) PROVE CurrentFor(q)'
  BY <1>0, <1>12 DEF PersistReadRows, CurrentFor, TypeOK, Goto, store, StateOf
<1>13. ASSUME NEW r \in Requests, PersistReadRevision(r) PROVE CurrentFor(q)'
  BY <1>0, <1>13 DEF PersistReadRevision, CurrentFor, TypeOK, Goto, store, StateOf
<1>14. ASSUME NEW r \in Requests, PersistMoved(r) PROVE CurrentFor(q)'
  BY <1>0, <1>14 DEF PersistMoved, CurrentFor, TypeOK, Goto, store, StateOf, ErrorTo
<1>15. ASSUME NEW r \in Requests, BatchRefused(r) PROVE CurrentFor(q)'
  BY <1>0, <1>15 DEF BatchRefused, CurrentFor, TypeOK, Goto, store, StateOf, ErrorTo
<1>16. ASSUME NEW r \in Requests, BatchAborted(r) PROVE CurrentFor(q)'
  BY <1>0, <1>16 DEF BatchAborted, CurrentFor, TypeOK, Goto, store, StateOf, ErrorTo
<1>17. ASSUME NEW r \in Requests, RecoverHit(r) PROVE CurrentFor(q)'
  BY <1>0, <1>17 DEF RecoverHit, CurrentFor, TypeOK, Goto, store, StateOf
<1>18. ASSUME NEW r \in Requests, RecoverMiss(r) PROVE CurrentFor(q)'
  BY <1>0, <1>18 DEF RecoverMiss, CurrentFor, TypeOK, Goto, store, StateOf
<1>19. ASSUME NEW r \in Requests, Return(r) PROVE CurrentFor(q)'
  BY <1>0, <1>19 DEF Return, CurrentFor, TypeOK, Goto, store, StateOf
<1>20. ASSUME NEW r \in Requests, Interrupt(r) PROVE CurrentFor(q)'
  BY <1>0, <1>20 DEF Interrupt, CurrentFor, TypeOK, Goto, store, StateOf
<1>21. ASSUME NEW r \in Requests, BatchCommits(r) PROVE CurrentFor(q)'
  BY <1>21, BatchEndsReads DEF BatchCommits, ReadsCurrent
<1>22. ASSUME NEW r \in Requests, BatchCommitsUnheard(r) PROVE CurrentFor(q)'
  BY <1>22, BatchEndsReads DEF BatchCommitsUnheard, ReadsCurrent, ErrorTo
<1>23. CASE UNCHANGED vars
  BY <1>0, <1>23 DEF vars, CurrentFor, StateOf
<1> QED
  BY <1>1, <1>2, <1>3, <1>4, <1>5, <1>6, <1>7, <1>8, <1>9, <1>10, <1>11, <1>12, <1>13, <1>14, <1>15, <1>16, <1>17, <1>18, <1>19, <1>20, <1>21, <1>22, <1>23
  DEF Next

\* A request is in mutation_commits exactly when the code that will answer it
\* assumes so.
LEMMA NextPending == ASSUME TypeOK, PendingAnswers, [Next]_vars PROVE PendingAnswers'
<1> USE DEF Preparing
<1>0. PendingAnswers /\ TypeOK
  OBVIOUS
<1>1. ASSUME NEW r \in Requests, ReceiveMutation(r) PROVE PendingAnswers'
  BY <1>0, <1>1 DEF ReceiveMutation, PendingAnswers, TypeOK, store, BaseRevision, Goto
<1>2. ASSUME NEW r \in Requests, ReceiveSave(r) PROVE PendingAnswers'
  BY <1>0, <1>2 DEF ReceiveSave, PendingAnswers, TypeOK, store, BaseRevision, Goto
<1>3. ASSUME NEW r \in Requests, LookupHit(r) PROVE PendingAnswers'
  BY <1>0, <1>3 DEF LookupHit, PendingAnswers, TypeOK, store, BaseRevision, Goto, AnswerStored, Tell
<1>4. ASSUME NEW r \in Requests, LookupMiss(r) PROVE PendingAnswers'
  BY <1>0, <1>4 DEF LookupMiss, PendingAnswers, TypeOK, store, BaseRevision, Goto
<1>5. ASSUME NEW r \in Requests, ReadBefore(r) PROVE PendingAnswers'
  BY <1>0, <1>5 DEF ReadBefore, PendingAnswers, TypeOK, store, BaseRevision, Goto
<1>6. ASSUME NEW r \in Requests, LoadState(r) PROVE PendingAnswers'
  BY <1>0, <1>6 DEF LoadState, PendingAnswers, TypeOK, store, BaseRevision, Goto
<1>7. ASSUME NEW r \in Requests, ReadAfterStable(r) PROVE PendingAnswers'
  BY <1>0, <1>7 DEF ReadAfterStable, PendingAnswers, TypeOK, store, BaseRevision, Goto
<1>8. ASSUME NEW r \in Requests, ReadAfterMoved(r) PROVE PendingAnswers'
  BY <1>0, <1>8 DEF ReadAfterMoved, PendingAnswers, TypeOK, store, BaseRevision, Goto, Tell
<1>9. ASSUME NEW r \in Requests, RefuseStale(r) PROVE PendingAnswers'
  BY <1>0, <1>9 DEF RefuseStale, PendingAnswers, TypeOK, store, BaseRevision, Goto, Tell
<1>10. ASSUME NEW r \in Requests, RefuseRule(r) PROVE PendingAnswers'
  BY <1>0, <1>10 DEF RefuseRule, PendingAnswers, TypeOK, store, BaseRevision, Goto, Tell
<1>11. ASSUME NEW r \in Requests, Apply(r) PROVE PendingAnswers'
  BY <1>0, <1>11 DEF Apply, PendingAnswers, TypeOK, store, BaseRevision, Goto
<1>12. ASSUME NEW r \in Requests, PersistReadRows(r) PROVE PendingAnswers'
  BY <1>0, <1>12 DEF PersistReadRows, PendingAnswers, TypeOK, store, BaseRevision
<1>13. ASSUME NEW r \in Requests, PersistReadRevision(r) PROVE PendingAnswers'
  <2>1. UNCHANGED <<pc, commits, reply, base>> /\ pc[r] = "persist"
    BY <1>13 DEF PersistReadRevision, store
  <2>2. \A p \in Requests : pc[p] = "return" => BaseRevision(p)' = BaseRevision(p)
    BY <1>13, <2>1 DEF PersistReadRevision, BaseRevision, TypeOK
  <2> QED
    BY <1>0, <2>1, <2>2 DEF PendingAnswers
<1>14. ASSUME NEW r \in Requests, PersistMoved(r) PROVE PendingAnswers'
  BY <1>0, <1>14 DEF PersistMoved, PendingAnswers, TypeOK, store, BaseRevision, Goto, Tell, ErrorTo
<1>15. ASSUME NEW r \in Requests, BatchRefused(r) PROVE PendingAnswers'
  BY <1>0, <1>15 DEF BatchRefused, PendingAnswers, TypeOK, store, BaseRevision, Goto, Tell, ErrorTo
<1>16. ASSUME NEW r \in Requests, BatchAborted(r) PROVE PendingAnswers'
  BY <1>0, <1>16 DEF BatchAborted, PendingAnswers, TypeOK, store, BaseRevision, Goto, Tell, ErrorTo
<1>17. ASSUME NEW r \in Requests, RecoverHit(r) PROVE PendingAnswers'
  BY <1>0, <1>17 DEF RecoverHit, PendingAnswers, TypeOK, store, BaseRevision, Goto, AnswerStored, Tell
<1>18. ASSUME NEW r \in Requests, RecoverMiss(r) PROVE PendingAnswers'
  BY <1>0, <1>18 DEF RecoverMiss, PendingAnswers, TypeOK, store, BaseRevision, Goto
<1>19. ASSUME NEW r \in Requests, Return(r) PROVE PendingAnswers'
  BY <1>0, <1>19 DEF Return, PendingAnswers, TypeOK, store, BaseRevision, Goto, Tell
<1>20. ASSUME NEW r \in Requests, Interrupt(r) PROVE PendingAnswers'
  BY <1>0, <1>20 DEF Interrupt, PendingAnswers, TypeOK, store, BaseRevision, Tell
<1>21. ASSUME NEW r \in Requests, BatchCommits(r) PROVE PendingAnswers'
  <2>1. /\ commits' = commits \cup {CommitRow(r)} /\ UNCHANGED reply
        /\ pc[r] = "persist" /\ pc' = [pc EXCEPT ![r] = "return"]
        /\ \A p \in Requests : BaseRevision(p)' = BaseRevision(p)
    BY <1>21 DEF BatchCommits, WriteBatch, Goto, BaseRevision
  <2>2. /\ CommitRow(r).by = r /\ CommitRow(r).key = Key(r) /\ CommitRow(r).body = Body(r)
        /\ CommitRow(r).new = BaseRevision(r) + 1
    BY DEF CommitRow
  <2> QED
    BY <1>0, <2>1, <2>2 DEF PendingAnswers, TypeOK
<1>22. ASSUME NEW r \in Requests, BatchCommitsUnheard(r) PROVE PendingAnswers'
  BY <1>0, <1>22 DEF BatchCommitsUnheard, WriteBatch, CommitRow, PendingAnswers, TypeOK,
     Goto, Tell, ErrorTo, BaseRevision
<1>23. CASE UNCHANGED vars
  BY <1>0, <1>23 DEF vars, PendingAnswers, BaseRevision
<1> QED
  BY <1>1, <1>2, <1>3, <1>4, <1>5, <1>6, <1>7, <1>8, <1>9, <1>10, <1>11, <1>12, <1>13, <1>14, <1>15, <1>16, <1>17, <1>18, <1>19, <1>20, <1>21, <1>22, <1>23
  DEF Next

\* The empty repository satisfies the inductive invariant of the serial history.
LEMMA InitSerial == Init => SerialInv
<1> SUFFICES ASSUME Init PROVE SerialInv OBVIOUS
<1>1. NoLostUpdate
  BY DEF Init, NoLostUpdate
<1>2. RowsMatchReadModel
  BY DEF Init, RowsMatchReadModel, StateOf, EmptyState
<1>3. ReadModelIsLast
  BY DEF Init, ReadModelIsLast
<1>4. ReadsCurrent
  BY DEF Init, ReadsCurrent, CurrentFor, Requests
<1>5. PendingAnswers
  BY DEF Init, PendingAnswers, Preparing
<1>6. CommitsOwn
  BY DEF Init, CommitsOwn
<1> QED
  BY <1>1, <1>2, <1>3, <1>4, <1>5, <1>6, InitCount DEF SerialInv

\* When every writer is a commitMutation, each step preserves the inductive
\* invariant of the serial history.
LEMMA NextSerial == ASSUME Saves = {} PROVE SerialInv /\ [Next]_vars => SerialInv'
<1> SUFFICES ASSUME SerialInv, [Next]_vars PROVE SerialInv' OBVIOUS
<1>1. CountInv'
  BY NextCount DEF SerialInv
<1>2. NoLostUpdate' /\ RowsMatchReadModel' /\ ReadModelIsLast' /\ CommitsOwn'
  <2>1. CASE UNCHANGED store
    BY <2>1 DEF store, SerialInv, NoLostUpdate, RowsMatchReadModel, ReadModelIsLast,
           CommitsOwn, StateOf
  <2>2. ASSUME NEW r \in Requests, pc[r] = "persist", WriteBatch(r)
        PROVE  NoLostUpdate' /\ RowsMatchReadModel' /\ ReadModelIsLast' /\ CommitsOwn'
    BY <2>2, BatchKeepsHistory
  <2> QED
    BY <2>1, <2>2, BatchStep
<1> QED
  BY <1>1, <1>2, NextReads, NextPending DEF SerialInv, CountInv

\* When every writer is a commitMutation, no update is ever lost, however many
\* requests race, retry or fail half way.
THEOREM NothingLost == ASSUME Saves = {} PROVE Spec => []NoLostUpdate
<1>1. SerialInv => NoLostUpdate
  BY DEF SerialInv
<1> QED
  BY <1>1, InitSerial, NextSerial, PTL DEF Spec

\* When every writer is a commitMutation, the entity rows and the read model are
\* the same state in every reachable state.
THEOREM ReadModelIsDerived == ASSUME Saves = {} PROVE Spec => []RowsMatchReadModel
<1>1. SerialInv => RowsMatchReadModel
  BY DEF SerialInv
<1> QED
  BY <1>1, InitSerial, NextSerial, PTL DEF Spec

-----------------------------------------------------------------------------
(* What callers are told, whoever else writes.                                 *)

AnswersInv == CountInv /\ PendingAnswers /\ CommitsOwn /\ AnswersAreTrue

\* What AnswersAreTrue says of one request.
AnswerIsTrue(r) ==
  /\ reply[r].kind \in {"accepted", "duplicate"} =>
       \E c \in CommitsOf(r) : c.body = Body(r) /\ c.new = reply[r].revision
  /\ reply[r].kind = "accepted" => \E c \in CommitsOf(r) : c.by = r
  /\ reply[r].kind \in {"CONFLICT", "DUPLICATE", "VALIDATION_FAILED"} =>
       \A c \in commits : c.by # r

\* mutation_commits only grows, by rows of requests that were not yet answered.
LEMMA CommitsGrow ==
  ASSUME TypeOK, [Next]_vars
  PROVE  /\ commits \subseteq commits'
         /\ \A c \in commits' \ commits :
              pc[c.by] = "persist" /\ c.key = Key(c.by) /\ c.body = Body(c.by)
<1>1. CASE UNCHANGED store
  BY <1>1 DEF store
<1>2. ASSUME NEW r \in Requests, pc[r] = "persist", WriteBatch(r)
      PROVE  /\ commits \subseteq commits'
             /\ \A c \in commits' \ commits :
                  pc[c.by] = "persist" /\ c.key = Key(c.by) /\ c.body = Body(c.by)
  BY <1>2 DEF WriteBatch, CommitRow
<1> QED
  BY <1>1, <1>2, BatchStep

\* An answer that was given stays, and stays true.
LEMMA AnswerStands ==
  ASSUME AnswersInv, [Next]_vars, NEW q \in Mutations, pc[q] = "done", reply'[q] = reply[q]
  PROVE  AnswerIsTrue(q)'
<1>1. AnswerIsTrue(q) /\ TypeOK
  BY DEF AnswersInv, AnswersAreTrue, AnswerIsTrue, CountInv
<1>2. CommitsOf(q) \subseteq CommitsOf(q)'
  BY <1>1, CommitsGrow DEF CommitsOf
<1>3. \A c \in commits' \ commits : c.by # q
  BY <1>1, CommitsGrow
<1> QED
  BY <1>1, <1>2, <1>3 DEF AnswerIsTrue

\* The stored answer of a key is the answer to the same body, and the answer DUPLICATE is
\* never given to the request that wrote the commit.
LEMMA StoredIsTrue ==
  ASSUME AnswersInv, NEW r \in Requests, AnswerStored(r), UNCHANGED commits
  PROVE  AnswerIsTrue(r)'
<1>1. PICK c \in CommitsOf(r) : IF c.body = Body(r) THEN Tell(r, "duplicate", c.new)
                                 ELSE Tell(r, "DUPLICATE", 0)
  BY DEF AnswerStored
<1>2. CommitsOf(r)' = CommitsOf(r) /\ r \in DOMAIN reply
  BY DEF CommitsOf, AnswersInv, CountInv, TypeOK
<1>3. CASE c.body = Body(r)
  BY <1>1, <1>2, <1>3 DEF Tell, AnswerIsTrue
<1>4. CASE c.body # Body(r)
  <2>1. reply'[r].kind = "DUPLICATE"
    BY <1>1, <1>2, <1>4 DEF Tell
  <2>2. \A d \in commits : d.by # r
    BY <1>4 DEF CommitsOf, AnswersInv, CommitsOwn, CountInv, RevisionCountsCommits
  <2> QED
    BY <2>1, <2>2 DEF AnswerIsTrue
<1> QED
  BY <1>3, <1>4

\* Every step leaves the answered requests alone, or answers one more, truly.
LEMMA NextAnswers == ASSUME AnswersInv, [Next]_vars PROVE AnswersAreTrue'
<1>0. TypeOK /\ PendingAnswers
  BY DEF AnswersInv, CountInv
<1>1. ASSUME NEW r \in Requests, pc[r] # "done", reply' = [reply EXCEPT ![r] = reply'[r]],
             NEW to \in Phases, pc' = [pc EXCEPT ![r] = to],
             (to = "done" /\ r \in Mutations) => AnswerIsTrue(r)'
      PROVE  AnswersAreTrue'
  <2> SUFFICES ASSUME NEW q \in Mutations, pc'[q] = "done" PROVE AnswerIsTrue(q)'
    BY DEF AnswersAreTrue, AnswerIsTrue
  <2>1. q \in Requests /\ pc \in [Requests -> Phases] /\ r \in Requests
        /\ reply \in [Requests -> [kind : ReplyKinds, revision : Nat]]
    BY <1>0, <1>1 DEF Requests, TypeOK
  <2>2. CASE q = r
    BY <1>1, <2>1, <2>2
  <2>3. CASE q # r
    <3>1. pc[q] = "done"
      BY <1>1, <2>1, <2>3
    <3>2. reply'[q] = reply[q]
      BY <1>1, <2>1, <2>3
    <3> QED
      BY <3>1, <3>2, AnswerStands
  <2> QED
    BY <2>2, <2>3
<1>2. ASSUME NEW r \in Requests, NEW from, NEW to \in Phases, Goto(r, from, to), from # "done",
             UNCHANGED reply \/ \E k, v : Tell(r, k, v),
             (to = "done" /\ r \in Mutations) => AnswerIsTrue(r)'
      PROVE  AnswersAreTrue'
  <2>1. reply' = [reply EXCEPT ![r] = reply'[r]]
    BY <1>0, <1>2 DEF Tell, TypeOK
  <2> QED
    BY <1>1, <1>2, <2>1 DEF Goto
<1>3. ASSUME NEW r \in Requests, Tell(r, "CONFLICT", 0) \/ Tell(r, "VALIDATION_FAILED", 0),
             pc[r] \in Preparing, UNCHANGED commits
      PROVE  AnswerIsTrue(r)'
  BY <1>0, <1>3 DEF Tell, AnswerIsTrue, PendingAnswers, TypeOK
<1>4. ASSUME NEW r \in Requests,
             ReceiveMutation(r) \/ ReceiveSave(r) \/ LookupMiss(r) \/ ReadBefore(r) \/ LoadState(r)
               \/ ReadAfterStable(r) \/ Apply(r) \/ BatchCommits(r)
      PROVE  AnswersAreTrue'
  <2>1. UNCHANGED reply /\ \E from, to \in Phases \ {"done"} : Goto(r, from, to)
    BY <1>4 DEF ReceiveMutation, ReceiveSave, LookupMiss, ReadBefore, LoadState, ReadAfterStable,
      Apply, BatchCommits, Phases
  <2> QED
    BY <1>2, <2>1
<1>5. ASSUME NEW r \in Requests,
             PersistMoved(r) \/ BatchCommitsUnheard(r) \/ BatchRefused(r) \/ BatchAborted(r)
      PROVE  AnswersAreTrue'
  <2>1. Goto(r, "persist", ErrorTo(r)) /\ \E k, v : Tell(r, k, v)
    BY <1>5 DEF PersistMoved, BatchCommitsUnheard, BatchRefused, BatchAborted
  <2>2. ErrorTo(r) \in Phases /\ (r \in Mutations => ErrorTo(r) # "done")
    BY DEF ErrorTo, Phases
  <2> QED
    BY <1>2, <2>1, <2>2
<1>6. ASSUME NEW r \in Requests, PersistReadRows(r) \/ PersistReadRevision(r) \/ UNCHANGED vars
      PROVE  AnswersAreTrue'
  BY <1>6 DEF PersistReadRows, PersistReadRevision, vars, store, AnswersInv, AnswersAreTrue, CommitsOf
<1>7. ASSUME NEW r \in Requests, ReadAfterMoved(r) PROVE AnswersAreTrue'
  <2>1. CASE Goto(r, "after", "before") /\ UNCHANGED reply
    BY <1>2, <2>1 DEF Phases
  <2>2. CASE Goto(r, "after", "done") /\ Tell(r, "CONFLICT", 0)
    <3>1. AnswerIsTrue(r)'
      BY <1>3, <1>7, <2>2 DEF ReadAfterMoved, Goto, Preparing, store
    <3> QED
      BY <1>2, <2>2, <3>1 DEF Phases
  <2> QED
    BY <1>7, <2>1, <2>2 DEF ReadAfterMoved
<1>8. ASSUME NEW r \in Requests, RefuseStale(r) \/ RefuseRule(r) PROVE AnswersAreTrue'
  <2>1. /\ Goto(r, "prepare", "done") /\ UNCHANGED commits
        /\ Tell(r, "CONFLICT", 0) \/ Tell(r, "VALIDATION_FAILED", 0)
    BY <1>8 DEF RefuseStale, RefuseRule, store
  <2>2. AnswerIsTrue(r)'
    BY <1>3, <2>1 DEF Goto, Preparing
  <2> QED
    BY <1>2, <2>1, <2>2 DEF Phases
<1>9. ASSUME NEW r \in Requests, LookupHit(r) \/ RecoverHit(r) PROVE AnswersAreTrue'
  <2>1. AnswerIsTrue(r)'
    BY <1>9, StoredIsTrue DEF LookupHit, RecoverHit, store
  <2>2. (Goto(r, "lookup", "done") \/ Goto(r, "recover", "done")) /\ \E k, v : Tell(r, k, v)
    BY <1>9 DEF LookupHit, RecoverHit, AnswerStored
  <2> QED
    BY <1>2, <2>1, <2>2 DEF Phases
<1>10. ASSUME NEW r \in Requests, RecoverMiss(r) PROVE AnswersAreTrue'
  <2>1. Goto(r, "recover", "done") /\ UNCHANGED <<commits, reply>>
    BY <1>10 DEF RecoverMiss, store
  <2>2. AnswerIsTrue(r)'
    BY <1>0, <2>1 DEF Goto, PendingAnswers, AnswerIsTrue
  <2> QED
    BY <1>2, <2>1, <2>2 DEF Phases
<1>11. ASSUME NEW r \in Requests, Return(r) PROVE AnswersAreTrue'
  <2>1. Goto(r, "return", "done") /\ Tell(r, "accepted", BaseRevision(r) + 1) /\ UNCHANGED commits
    BY <1>11 DEF Return, store
  <2>2. reply'[r] = [kind |-> "accepted", revision |-> BaseRevision(r) + 1]
    BY <1>0, <2>1 DEF Tell, TypeOK
  <2>3. \E c \in CommitsOf(r)' : c.by = r /\ c.body = Body(r) /\ c.new = BaseRevision(r) + 1
    BY <1>0, <2>1 DEF Goto, PendingAnswers, CommitsOf
  <2>4. AnswerIsTrue(r)'
    BY <2>2, <2>3 DEF AnswerIsTrue
  <2> QED
    BY <1>2, <2>1, <2>4 DEF Phases
<1>12. ASSUME NEW r \in Requests, Interrupt(r) PROVE AnswersAreTrue'
  <2>1. Goto(r, pc[r], "done") /\ Tell(r, "FAILED", 0) /\ pc[r] # "done"
    BY <1>12 DEF Interrupt, Goto
  <2>2. AnswerIsTrue(r)'
    BY <1>0, <2>1 DEF Tell, AnswerIsTrue, TypeOK
  <2> QED
    BY <1>2, <2>1, <2>2 DEF Phases
<1>13. CASE UNCHANGED vars
  BY <1>13 DEF vars, AnswersInv, AnswersAreTrue, CommitsOf
<1> QED
  BY <1>4, <1>5, <1>6, <1>7, <1>8, <1>9, <1>10, <1>11, <1>12, <1>13 DEF Next

\* A caller of commitMutation that is told "accepted" or "duplicate" has its command in
\* mutation_commits at the revision it was told, and one that is told CONFLICT, DUPLICATE
\* or VALIDATION_FAILED wrote nothing: also with saveState writing beside it.
THEOREM CallersAreToldTheTruth == Spec => []AnswersAreTrue
<1>1. Init => AnswersInv
  <2>1. Init => AnswersAreTrue
    BY DEF Init, AnswersAreTrue, Requests
  <2> QED
    BY <2>1, InitSerial DEF SerialInv, AnswersInv
<1>2. AnswersInv /\ [Next]_vars => AnswersInv'
  <2> SUFFICES ASSUME AnswersInv, [Next]_vars PROVE AnswersInv' OBVIOUS
  <2>1. CommitsOwn'
    BY CommitsGrow DEF AnswersInv, CommitsOwn, CountInv
  <2> QED
    BY <2>1, NextCount, NextPending, NextAnswers DEF AnswersInv, CountInv
<1>3. AnswersInv => AnswersAreTrue
  BY DEF AnswersInv
<1> QED
  BY <1>1, <1>2, <1>3, PTL DEF Spec

-----------------------------------------------------------------------------
(* The refinement of SerialLedger, when every writer is a commitMutation.      *)

\* A step inside a request is invisible to the ledger.
LEMMA Quiet ==
  ASSUME TypeOK, UNCHANGED store, NEW r \in Requests, pc[r] # "done",
         NEW to \in Phases \ {"done"}, pc' = [pc EXCEPT ![r] = to],
         \A q \in Requests \ {r} : reply'[q] = reply[q]
  PROVE  UNCHANGED Ledger!vars
<1>1. Told' = Told
  BY DEF Told, TypeOK
<1> QED
  BY <1>1 DEF store, Ledger!vars, StateOf

\* The last step of a request tells it something.
LEMMA Answering ==
  ASSUME TypeOK, NEW r \in Requests, pc[r] # "done", pc' = [pc EXCEPT ![r] = "done"],
         \A q \in Requests \ {r} : reply'[q] = reply[q]
  PROVE  /\ Told[r] = Ledger!NoReply
         /\ Told' = [Told EXCEPT ![r] = reply'[r]]
BY DEF Told, TypeOK, NoReply, Ledger!NoReply

\* Every step of a request is a step of the serial ledger or changes nothing in it.
LEMMA LedgerStep ==
  ASSUME Saves = {}, SerialInv, [Next]_vars
  PROVE  [Ledger!Next]_(Ledger!vars)
<1>0. TypeOK /\ PendingAnswers
  BY DEF SerialInv, CountInv
<1>1. ASSUME NEW r \in Requests, ReceiveMutation(r) PROVE [Ledger!Next]_(Ledger!vars)
  <2>1. /\ UNCHANGED store /\ UNCHANGED reply /\ pc[r] # "done"
        /\ pc' = [pc EXCEPT ![r] = "lookup"]
    BY <1>1 DEF ReceiveMutation, Goto
  <2> QED
    BY <1>0, <2>1, Quiet DEF Phases
<1>2. ASSUME NEW r \in Requests, ReceiveSave(r) PROVE [Ledger!Next]_(Ledger!vars)
  <2>1. /\ UNCHANGED store /\ UNCHANGED reply /\ pc[r] # "done"
        /\ pc' = [pc EXCEPT ![r] = "load"]
    BY <1>2 DEF ReceiveSave, Goto
  <2> QED
    BY <1>0, <2>1, Quiet DEF Phases
<1>3. ASSUME NEW r \in Requests, LookupMiss(r) PROVE [Ledger!Next]_(Ledger!vars)
  <2>1. /\ UNCHANGED store /\ UNCHANGED reply /\ pc[r] # "done"
        /\ pc' = [pc EXCEPT ![r] = "before"]
    BY <1>3 DEF LookupMiss, Goto
  <2> QED
    BY <1>0, <2>1, Quiet DEF Phases
<1>4. ASSUME NEW r \in Requests, ReadBefore(r) PROVE [Ledger!Next]_(Ledger!vars)
  <2>1. /\ UNCHANGED store /\ UNCHANGED reply /\ pc[r] # "done"
        /\ pc' = [pc EXCEPT ![r] = "load"]
    BY <1>4 DEF ReadBefore, Goto
  <2> QED
    BY <1>0, <2>1, Quiet DEF Phases
<1>5. ASSUME NEW r \in Requests, LoadState(r) PROVE [Ledger!Next]_(Ledger!vars)
  <2>1. /\ UNCHANGED store /\ UNCHANGED reply /\ pc[r] # "done"
        /\ pc' = [pc EXCEPT ![r] = "after"]
    BY <1>5 DEF LoadState, Goto, Requests
  <2> QED
    BY <1>0, <2>1, Quiet DEF Phases
<1>6. ASSUME NEW r \in Requests, ReadAfterStable(r) PROVE [Ledger!Next]_(Ledger!vars)
  <2>1. /\ UNCHANGED store /\ UNCHANGED reply /\ pc[r] # "done"
        /\ pc' = [pc EXCEPT ![r] = "prepare"]
    BY <1>6 DEF ReadAfterStable, Goto
  <2> QED
    BY <1>0, <2>1, Quiet DEF Phases
<1>7. ASSUME NEW r \in Requests, Apply(r) PROVE [Ledger!Next]_(Ledger!vars)
  <2>1. /\ UNCHANGED store /\ UNCHANGED reply /\ pc[r] # "done"
        /\ pc' = [pc EXCEPT ![r] = "persist"]
    BY <1>7 DEF Apply, Goto
  <2> QED
    BY <1>0, <2>1, Quiet DEF Phases
<1>8. ASSUME NEW r \in Requests, PersistReadRows(r) PROVE [Ledger!Next]_(Ledger!vars)
  <2>1. UNCHANGED <<store, pc, reply>>
    BY <1>8 DEF PersistReadRows
  <2> QED
    BY <2>1 DEF store, Ledger!vars, StateOf, Told
<1>9. ASSUME NEW r \in Requests, PersistReadRevision(r) PROVE [Ledger!Next]_(Ledger!vars)
  <2>1. UNCHANGED <<store, pc, reply>>
    BY <1>9 DEF PersistReadRevision
  <2> QED
    BY <2>1 DEF store, Ledger!vars, StateOf, Told
<1>10. ASSUME NEW r \in Requests, PersistMoved(r) PROVE [Ledger!Next]_(Ledger!vars)
  <2>1. /\ UNCHANGED store /\ pc[r] # "done" /\ pc' = [pc EXCEPT ![r] = "recover"]
        /\ \A q \in Requests \ {r} : reply'[q] = reply[q]
    BY <1>10, <1>0 DEF PersistMoved, Goto, ErrorTo, Requests, Tell, TypeOK
  <2> QED
    BY <1>0, <2>1, Quiet DEF Phases
<1>11. ASSUME NEW r \in Requests, BatchRefused(r) PROVE [Ledger!Next]_(Ledger!vars)
  <2>1. /\ UNCHANGED store /\ pc[r] # "done" /\ pc' = [pc EXCEPT ![r] = "recover"]
        /\ \A q \in Requests \ {r} : reply'[q] = reply[q]
    BY <1>11, <1>0 DEF BatchRefused, Goto, ErrorTo, Requests, Tell, TypeOK
  <2> QED
    BY <1>0, <2>1, Quiet DEF Phases
<1>12. ASSUME NEW r \in Requests, BatchAborted(r) PROVE [Ledger!Next]_(Ledger!vars)
  <2>1. /\ UNCHANGED store /\ pc[r] # "done" /\ pc' = [pc EXCEPT ![r] = "recover"]
        /\ \A q \in Requests \ {r} : reply'[q] = reply[q]
    BY <1>12, <1>0 DEF BatchAborted, Goto, ErrorTo, Requests, Tell, TypeOK
  <2> QED
    BY <1>0, <2>1, Quiet DEF Phases
<1>13. ASSUME NEW r \in Requests, BatchCommits(r) PROVE [Ledger!Next]_(Ledger!vars)
  <2>1. /\ WriteBatch(r) /\ pc[r] = "persist" /\ pc' = [pc EXCEPT ![r] = "return"]
        /\ \A q \in Requests \ {r} : reply'[q] = reply[q]
    BY <1>13, <1>0 DEF BatchCommits, Goto, ErrorTo, Requests, Tell, TypeOK
  <2>2. Told' = Told /\ Told[r] = Ledger!NoReply
    BY <2>1, <1>0 DEF Told, TypeOK, NoReply, Ledger!NoReply
  <2>3. /\ BaseRevision(r) = readModel.revision
        /\ commits' = commits \cup {CommitRow(r)}
        /\ readModel'.revision = readModel.revision + 1
    BY <2>1, BatchIsCurrent DEF SerialInv
  <2>4. StateOf(rows)' = Mutate(StateOf(rows), Body(r)) /\ StateOf(rows)' = loaded[r]
    BY <2>1, BatchWrites
  <2>5. \A c \in commits : c.key # Key(r)
    BY <2>1 DEF WriteBatch, ConstraintsHold
  <2>6. Ledger!TakeEffect(r)
    BY <2>2, <2>3, <2>4, <2>5 DEF Ledger!TakeEffect, CommitRow
  <2> QED
    BY <2>6 DEF Ledger!Next
<1>14. ASSUME NEW r \in Requests, BatchCommitsUnheard(r) PROVE [Ledger!Next]_(Ledger!vars)
  <2>1. /\ WriteBatch(r) /\ pc[r] = "persist" /\ pc' = [pc EXCEPT ![r] = "recover"]
        /\ \A q \in Requests \ {r} : reply'[q] = reply[q]
    BY <1>14, <1>0 DEF BatchCommitsUnheard, Goto, ErrorTo, Requests, Tell, TypeOK
  <2>2. Told' = Told /\ Told[r] = Ledger!NoReply
    BY <2>1, <1>0 DEF Told, TypeOK, NoReply, Ledger!NoReply
  <2>3. /\ BaseRevision(r) = readModel.revision
        /\ commits' = commits \cup {CommitRow(r)}
        /\ readModel'.revision = readModel.revision + 1
    BY <2>1, BatchIsCurrent DEF SerialInv
  <2>4. StateOf(rows)' = Mutate(StateOf(rows), Body(r)) /\ StateOf(rows)' = loaded[r]
    BY <2>1, BatchWrites
  <2>5. \A c \in commits : c.key # Key(r)
    BY <2>1 DEF WriteBatch, ConstraintsHold
  <2>6. Ledger!TakeEffect(r)
    BY <2>2, <2>3, <2>4, <2>5 DEF Ledger!TakeEffect, CommitRow
  <2> QED
    BY <2>6 DEF Ledger!Next
<1>15. ASSUME NEW r \in Requests, LookupHit(r) PROVE [Ledger!Next]_(Ledger!vars)
  <2>1. /\ UNCHANGED store /\ pc[r] # "done" /\ pc' = [pc EXCEPT ![r] = "done"]
    BY <1>15 DEF LookupHit, Goto
  <2>2. PICK c \in commits :
          /\ c.key = Key(r)
          /\ IF c.body = Body(r) THEN Tell(r, "duplicate", c.new)
                                 ELSE Tell(r, "DUPLICATE", 0)
    BY <1>15 DEF LookupHit, AnswerStored, CommitsOf
  <2>3. CASE c.body = Body(r)
    <3>1. /\ reply'[r] = [kind |-> "duplicate", revision |-> c.new]
          /\ \A q \in Requests \ {r} : reply'[q] = reply[q]
      BY <1>0, <2>2, <2>3 DEF Tell, TypeOK
    <3>2. Ledger!Confirm(r, "duplicate")
      BY <1>0, <2>1, <2>2, <2>3, <3>1, Answering DEF Ledger!Confirm, store, StateOf
    <3> QED
      BY <3>2 DEF Ledger!Next
  <2>4. CASE c.body # Body(r)
    <3>1. /\ reply'[r] = [kind |-> "DUPLICATE", revision |-> 0]
          /\ \A q \in Requests \ {r} : reply'[q] = reply[q]
      BY <1>0, <2>2, <2>4 DEF Tell, TypeOK
    <3>2. \A d \in commits : d.by # r
      BY <1>0, <1>15 DEF LookupHit, Goto, PendingAnswers, Preparing
    <3>3. Ledger!Refuse(r, "DUPLICATE")
      BY <1>0, <2>1, <3>1, <3>2, Answering DEF Ledger!Refuse, store, StateOf
    <3> QED
      BY <3>3 DEF Ledger!Next
  <2> QED
    BY <2>3, <2>4
<1>16. ASSUME NEW r \in Requests, RecoverHit(r) PROVE [Ledger!Next]_(Ledger!vars)
  <2>1. /\ UNCHANGED store /\ pc[r] # "done" /\ pc' = [pc EXCEPT ![r] = "done"]
    BY <1>16 DEF RecoverHit, Goto
  <2>2. PICK c \in commits :
          /\ c.key = Key(r)
          /\ IF c.body = Body(r) THEN Tell(r, "duplicate", c.new)
                                 ELSE Tell(r, "DUPLICATE", 0)
    BY <1>16 DEF RecoverHit, AnswerStored, CommitsOf
  <2>3. CASE c.body = Body(r)
    <3>1. /\ reply'[r] = [kind |-> "duplicate", revision |-> c.new]
          /\ \A q \in Requests \ {r} : reply'[q] = reply[q]
      BY <1>0, <2>2, <2>3 DEF Tell, TypeOK
    <3>2. Ledger!Confirm(r, "duplicate")
      BY <1>0, <2>1, <2>2, <2>3, <3>1, Answering DEF Ledger!Confirm, store, StateOf
    <3> QED
      BY <3>2 DEF Ledger!Next
  <2>4. CASE c.body # Body(r)
    <3>1. /\ reply'[r] = [kind |-> "DUPLICATE", revision |-> 0]
          /\ \A q \in Requests \ {r} : reply'[q] = reply[q]
      BY <1>0, <2>2, <2>4 DEF Tell, TypeOK
    <3>2. \A d \in commits : d.by # r
      BY <2>2, <2>4 DEF SerialInv, CountInv, CommitsOwn, RevisionCountsCommits
    <3>3. Ledger!Refuse(r, "DUPLICATE")
      BY <1>0, <2>1, <3>1, <3>2, Answering DEF Ledger!Refuse, store, StateOf
    <3> QED
      BY <3>3 DEF Ledger!Next
  <2> QED
    BY <2>3, <2>4
<1>17. ASSUME NEW r \in Requests, RefuseStale(r) PROVE [Ledger!Next]_(Ledger!vars)
  <2>1. /\ UNCHANGED store /\ pc[r] = "prepare" /\ pc' = [pc EXCEPT ![r] = "done"]
        /\ reply'[r] = [kind |-> "CONFLICT", revision |-> 0]
        /\ \A q \in Requests \ {r} : reply'[q] = reply[q]
    BY <1>17, <1>0 DEF RefuseStale, Goto, Tell, TypeOK
  <2>2. \A d \in commits : d.by # r
    BY <1>0, <2>1 DEF PendingAnswers, Preparing
  <2>3. Ledger!Refuse(r, "CONFLICT")
    BY <1>0, <2>1, <2>2, Answering DEF Ledger!Refuse, store, StateOf
  <2> QED
    BY <2>3 DEF Ledger!Next
<1>18. ASSUME NEW r \in Requests, RefuseRule(r) PROVE [Ledger!Next]_(Ledger!vars)
  <2>1. /\ UNCHANGED store /\ pc[r] = "prepare" /\ pc' = [pc EXCEPT ![r] = "done"]
        /\ reply'[r] = [kind |-> "VALIDATION_FAILED", revision |-> 0]
        /\ \A q \in Requests \ {r} : reply'[q] = reply[q]
    BY <1>18, <1>0 DEF RefuseRule, Goto, Tell, TypeOK
  <2>2. \A d \in commits : d.by # r
    BY <1>0, <2>1 DEF PendingAnswers, Preparing
  <2>3. Ledger!Refuse(r, "VALIDATION_FAILED")
    BY <1>0, <2>1, <2>2, Answering DEF Ledger!Refuse, store, StateOf
  <2> QED
    BY <2>3 DEF Ledger!Next
<1>19. ASSUME NEW r \in Requests, ReadAfterMoved(r) PROVE [Ledger!Next]_(Ledger!vars)
  <2>1. CASE pc' = [pc EXCEPT ![r] = "before"] /\ UNCHANGED reply
    <3>1. UNCHANGED store /\ pc[r] # "done"
      BY <1>19 DEF ReadAfterMoved, Goto
    <3> QED
      BY <1>0, <2>1, <3>1, Quiet DEF Phases
  <2>2. CASE pc' = [pc EXCEPT ![r] = "done"] /\ Tell(r, "CONFLICT", 0)
    <3>1. /\ UNCHANGED store /\ pc[r] = "after"
          /\ reply'[r] = [kind |-> "CONFLICT", revision |-> 0]
          /\ \A q \in Requests \ {r} : reply'[q] = reply[q]
      BY <1>19, <1>0, <2>2 DEF ReadAfterMoved, Goto, Tell, TypeOK
    <3>2. \A d \in commits : d.by # r
      BY <1>0, <3>1 DEF PendingAnswers, Preparing
    <3>3. Ledger!Refuse(r, "CONFLICT")
      BY <1>0, <2>2, <3>1, <3>2, Answering DEF Ledger!Refuse, store, StateOf
    <3> QED
      BY <3>3 DEF Ledger!Next
  <2> QED
    BY <1>19, <2>1, <2>2 DEF ReadAfterMoved, Goto
<1>20. ASSUME NEW r \in Requests, RecoverMiss(r) PROVE [Ledger!Next]_(Ledger!vars)
  <2>1. /\ UNCHANGED store /\ pc[r] = "recover" /\ pc' = [pc EXCEPT ![r] = "done"]
        /\ UNCHANGED reply
    BY <1>20 DEF RecoverMiss, Goto
  <2>2. CASE reply[r] = [kind |-> "CONFLICT", revision |-> 0]
    <3>1. \A d \in commits : d.by # r
      BY <1>0, <2>1, <2>2 DEF PendingAnswers
    <3>2. Ledger!Refuse(r, "CONFLICT")
      BY <1>0, <2>1, <2>2, <3>1, Answering DEF Ledger!Refuse, store, StateOf
    <3> QED
      BY <3>2 DEF Ledger!Next
  <2>3. CASE reply[r] = [kind |-> "FAILED", revision |-> 0]
    <3>1. Ledger!Fail(r)
      BY <1>0, <2>1, <2>3, Answering DEF Ledger!Fail, store, StateOf
    <3> QED
      BY <3>1 DEF Ledger!Next
  <2> QED
    BY <1>0, <2>1, <2>2, <2>3 DEF PendingAnswers
<1>21. ASSUME NEW r \in Requests, Return(r) PROVE [Ledger!Next]_(Ledger!vars)
  <2>1. /\ UNCHANGED store /\ pc[r] = "return" /\ pc' = [pc EXCEPT ![r] = "done"]
        /\ reply'[r] = [kind |-> "accepted", revision |-> BaseRevision(r) + 1]
        /\ \A q \in Requests \ {r} : reply'[q] = reply[q]
    BY <1>21, <1>0 DEF Return, Goto, Tell, TypeOK
  <2>2. PICK c \in commits : /\ c.by = r /\ c.key = Key(r) /\ c.body = Body(r)
                             /\ c.new = BaseRevision(r) + 1
    BY <1>0, <2>1 DEF PendingAnswers
  <2>3. /\ Told[r] = Ledger!NoReply
        /\ Told' = [Told EXCEPT ![r] = [kind |-> "accepted", revision |-> c.new]]
    BY <1>0, <2>1, <2>2, Answering
  <2>4. UNCHANGED <<commits, readModel.revision, StateOf(rows)>>
    BY <2>1 DEF store, StateOf
  <2>5. Ledger!Confirm(r, "accepted")
    BY <2>2, <2>3, <2>4 DEF Ledger!Confirm
  <2> QED
    BY <2>5 DEF Ledger!Next
<1>22. ASSUME NEW r \in Requests, Interrupt(r) PROVE [Ledger!Next]_(Ledger!vars)
  <2>1. /\ UNCHANGED store /\ pc[r] # "done" /\ pc' = [pc EXCEPT ![r] = "done"]
        /\ reply'[r] = [kind |-> "FAILED", revision |-> 0]
        /\ \A q \in Requests \ {r} : reply'[q] = reply[q]
    BY <1>22, <1>0 DEF Interrupt, Tell, TypeOK
  <2>2. Ledger!Fail(r)
    BY <1>0, <2>1, Answering DEF Ledger!Fail, store, StateOf
  <2> QED
    BY <2>2 DEF Ledger!Next
<1>23. CASE UNCHANGED vars
  BY <1>23 DEF vars, Ledger!vars, StateOf, Told
<1> QED
  BY <1>1, <1>2, <1>3, <1>4, <1>5, <1>6, <1>7, <1>8, <1>9, <1>10, <1>11, <1>12, <1>13, <1>14, <1>15, <1>16, <1>17, <1>18, <1>19, <1>20, <1>21, <1>22, <1>23
  DEF Next

\* The empty repository is the empty ledger.
LEMMA LedgerInit == Init => Ledger!Init
BY DEF Init, Ledger!Init, StateOf, EmptyState, Told, NoReply, Ledger!NoReply

\* commitMutation implements the serial ledger: commands take effect one at a
\* time, once per key, and every answer is true of the ledger when it is given.
THEOREM StoreIsSerial == ASSUME Saves = {} PROVE Spec => LedgerSpec
<1>1. SerialInv /\ [Next]_vars => [Ledger!Next]_(Ledger!vars)
  BY LedgerStep
<1> QED
  BY <1>1, InitSerial, NextSerial, LedgerInit, PTL DEF Spec, LedgerSpec, Ledger!Spec
=============================================================================
