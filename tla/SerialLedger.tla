---------------------------- MODULE SerialLedger ----------------------------
(***************************************************************************)
(* What the authoritative transaction store promises its callers, with no   *)
(* reads, versions or races: commands take effect one at a time, each from  *)
(* the state the one before it left, no idempotency key takes effect twice, *)
(* and a request is told "accepted" or "duplicate" only with the revision   *)
(* at which its own command took effect.                                    *)
(***************************************************************************)
EXTENDS Integers

CONSTANTS Requests,      \* calls of commitMutation
          Key(_),        \* the idempotency key of a request
          Body(_),       \* what the request asks for (its request hash)
          Mutate(_, _),  \* applyServerMutation(state, body)
          EmptyState     \* the state of a new tenant

VARIABLES ledger,        \* the commands that took effect
          revision,      \* how many did
          state,         \* the state the last one left
          replies        \* what each request was told

vars == <<ledger, revision, state, replies>>

NoReply == [kind |-> "none", revision |-> 0]

Init ==
  /\ ledger = {}
  /\ revision = 0
  /\ state = EmptyState
  /\ replies = [r \in Requests |-> NoReply]

\* The command of r takes effect: on the current state, at the next revision.
TakeEffect(r) ==
  /\ replies[r] = NoReply
  /\ \A c \in ledger : c.key # Key(r)
  /\ state' = Mutate(state, Body(r))
  /\ revision' = revision + 1
  /\ ledger' = ledger \cup {[key |-> Key(r), body |-> Body(r), base |-> revision,
                             new |-> revision + 1, state |-> state', by |-> r]}
  /\ UNCHANGED replies

\* r is told the revision of its command, applied now or by an earlier attempt.
Confirm(r, kind) ==
  /\ replies[r] = NoReply
  /\ \E c \in ledger : /\ c.key = Key(r) /\ c.body = Body(r)
                       /\ (kind = "accepted") => (c.by = r)
                       /\ replies' = [replies EXCEPT ![r] =
                                        [kind |-> kind, revision |-> c.new]]
  /\ UNCHANGED <<ledger, revision, state>>

\* r is refused, which is only said of a request that had no effect.
Refuse(r, kind) ==
  /\ replies[r] = NoReply
  /\ \A c \in ledger : c.by # r
  /\ replies' = [replies EXCEPT ![r] = [kind |-> kind, revision |-> 0]]
  /\ UNCHANGED <<ledger, revision, state>>

\* r fails without saying whether it had an effect.
Fail(r) ==
  /\ replies[r] = NoReply
  /\ replies' = [replies EXCEPT ![r] = [kind |-> "FAILED", revision |-> 0]]
  /\ UNCHANGED <<ledger, revision, state>>

Next == \E r \in Requests :
  \/ TakeEffect(r)
  \/ \E kind \in {"accepted", "duplicate"} : Confirm(r, kind)
  \/ \E kind \in {"CONFLICT", "DUPLICATE", "VALIDATION_FAILED"} : Refuse(r, kind)
  \/ Fail(r)

Spec == Init /\ [][Next]_vars
=============================================================================
