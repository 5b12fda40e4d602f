--------------------------- MODULE Reconciliation ---------------------------
(***************************************************************************)
(* One reconciliation request in PostgreSQL: workers claim it under a      *)
(* lease with a fence, observe the authoritative source, and complete it   *)
(* with the atomic executor: observation, resolution and outbox event are  *)
(* appended, and the request's row is moved last, by compare-and-set.      *)
(* A COMMIT may get lost: the caller retries, looks up, or releases.       *)
(*                                                                         *)
(* Statements read committed rows.  What a transaction has written it      *)
(* keeps locked until it ends: the same insert of another one waits, an    *)
(* update of the request waits, and a claim skips the request (an insert   *)
(* holds a key lock on it, by its foreign key).                            *)
(***************************************************************************)
EXTENDS Naturals

CONSTANTS
    Workers,        \* a worker is its claim-owner identity, before and after a restart
    Ids,            \* identities of the drafts of one completion
    None,
    MaxRevision     \* bound of the checks: no claim, renewal or release beyond it

ASSUME NoneIsNothing ==
    None \notin Workers \cup {"committed", "not-committed", "corrupted", "still-unknown", "unavailable"}

VARIABLES
    row,        \* the request
    table,      \* fingerprint of the observation, resolution and outbox event, by id
    record,     \* revision and fence that a worker read with its claim
    input,      \* what a worker gave the executor
    pc,         \* where a worker is
    tx,         \* its transaction on the server: "sent" is a COMMIT without an answer
    wrote,      \* what that transaction has written
    answer      \* what the executor or the lookup has answered

vars == <<row, table, record, input, pc, tx, wrote, answer>>

Tables   == {"observation", "resolution", "outbox"}

\* What a completion says: what the source told, or that it did not answer, which
\* is "still-unknown" once the policy is exhausted and resolves nothing before.
Results  == {"committed", "not-committed", "corrupted", "still-unknown", "unavailable"}

Leased   == {"claimed", "observing"}
Decided  == {"resolved", "corrupted", "still-unknown"}
Terminal == Decided \cup {"manual-repair-required", "cancelled"}
Places   == {"idle", "held", "cas", "classify", "commit"} \cup Tables
Answers  == {"none", "committed", "unavailable", "semantic-conflict", "stale-fence",
             "stale-revision", "terminal-preserved", "found", "corrupted"}

Requests ==
    [state : {"pending", "retry-wait"} \cup Leased \cup Terminal,
     revision : Nat, fence : Nat, owner : Workers \cup {None},
     expired : BOOLEAN, result : Results \cup {None}]

TypeOK ==
    /\ row \in Requests
    /\ table \in [Tables -> [Ids -> Results \cup {None}]]
    /\ record \in [Workers -> [revision : Nat, fence : Nat]]
    /\ input \in [Workers -> [id : Ids, result : Results, revision : Nat, fence : Nat]]
    /\ pc \in [Workers -> Places]
    /\ tx \in [Workers -> {"none", "open", "sent"}]
    /\ wrote \in [Workers -> SUBSET (Tables \cup {"request"})]
    /\ answer \in [Workers -> Answers]

Init ==
    /\ row = [state |-> "pending", revision |-> 0, fence |-> 0, owner |-> None,
              expired |-> FALSE, result |-> None]
    /\ table = [t \in Tables |-> [e \in Ids |-> None]]
    /\ record = [w \in Workers |-> [revision |-> 0, fence |-> 0]]
    /\ \E e \in Ids : input = [w \in Workers |->
            [id |-> e, result |-> "unavailable", revision |-> 0, fence |-> 0]]
    /\ pc = [w \in Workers |-> "idle"]
    /\ tx = [w \in Workers |-> "none"]
    /\ wrote = [w \in Workers |-> {}]
    /\ answer = [w \in Workers |-> "none"]

Goto(w, place) == pc' = [pc EXCEPT ![w] = place]
Say(w, a)      == answer' = [answer EXCEPT ![w] = a]

RowLocked == \E w \in Workers : "request" \in wrote[w]
KeyLocked == \E w \in Workers : wrote[w] # {}

\* Every statement counts the revision; only a lease's end is not a statement.
SetRow(state, owner, fence, expired, result) ==
    row' = [state |-> state, revision |-> row.revision + 1, fence |-> fence,
            owner |-> owner, expired |-> expired, result |-> result]

----------------------------------------------------------------------------
(* The lease *)

\* Mutant: the fence restarts when nobody holds the lease.
NextFenceRestarts == IF row.owner = None THEN 1 ELSE row.fence + 1

NextFence == row.fence + 1

\* claimDue and takeoverExpiredLease.  Without the answer the claim is there
\* and nobody knows.
Claim(w) ==
    /\ pc[w] = "idle" /\ row.revision < MaxRevision /\ ~KeyLocked
    /\ \/ row.state \in {"pending", "retry-wait"}
       \/ row.state \in Leased /\ row.expired
    /\ SetRow("claimed", w, NextFence, FALSE, row.result)
    /\ \/ /\ Goto(w, "held") /\ Say(w, "none")
          /\ record' = [record EXCEPT ![w] = [revision |-> row.revision + 1, fence |-> NextFence]]
       \/ UNCHANGED <<pc, answer, record>>
    /\ UNCHANGED <<table, input, tx, wrote>>

Expire ==
    /\ row.state \in Leased /\ ~row.expired
    /\ row' = [row EXCEPT !.expired = TRUE]
    /\ UNCHANGED <<table, record, input, pc, tx, wrote, answer>>

Holds(w) == row.state \in Leased /\ row.owner = w /\ row.fence = record[w].fence

\* The worker learns the revision it has made, or loses the answer.
Bump(w) ==
    \/ UNCHANGED record
    \/ record' = [record EXCEPT ![w] = [revision |-> row.revision + 1, fence |-> row.fence]]

\* The heartbeat runs beside everything else.  A lease that ends after the
\* BEGIN of the renewal is renewed all the same.
Renew(w) ==
    /\ pc[w] # "idle" /\ Holds(w) /\ ~RowLocked /\ row.revision < MaxRevision
    /\ SetRow(row.state, w, row.fence, FALSE, row.result)
    /\ Bump(w)
    /\ UNCHANGED <<table, input, pc, tx, wrote, answer>>

StartObserving(w) ==
    /\ pc[w] = "held" /\ row.state = "claimed" /\ ~RowLocked
    /\ row.fence = record[w].fence /\ row.revision = record[w].revision
    /\ row.revision < MaxRevision
    /\ SetRow("observing", row.owner, row.fence, row.expired, row.result)
    /\ Bump(w)
    /\ UNCHANGED <<table, input, pc, tx, wrote, answer>>

Release(w) ==
    /\ pc[w] = "held" /\ ~RowLocked /\ row.revision < MaxRevision
    /\ IF Holds(w) THEN SetRow("retry-wait", None, row.fence, FALSE, row.result)
                    ELSE UNCHANGED row
    /\ Goto(w, "idle")
    /\ UNCHANGED <<table, record, input, tx, wrote, answer>>

\* Mutant: the state that was read is not compared.
CloseAnyState(state) ==
    /\ row.state # state /\ ~RowLocked
    /\ SetRow(state, None, row.fence, FALSE, row.result)
    /\ UNCHANGED <<table, record, input, pc, tx, wrote, answer>>

\* markCancelled and markManualRepairRequired, by somebody who has just read the
\* row.  Their siblings, which name a result, are left to the executor.
Close(state) ==
    /\ row.state \notin Terminal /\ ~RowLocked
    /\ SetRow(state, None, row.fence, FALSE, row.result)
    /\ UNCHANGED <<table, record, input, pc, tx, wrote, answer>>

----------------------------------------------------------------------------
(* The executor *)

\* The worker has observed the source and completes its claim.
Execute(w) ==
    /\ pc[w] = "held" /\ tx[w] = "none" /\ answer[w] = "none"
    /\ \E e \in Ids, r \in Results :
         input' = [input EXCEPT ![w] = [id |-> e, result |-> r,
                     revision |-> record[w].revision, fence |-> record[w].fence]]
    /\ tx' = [tx EXCEPT ![w] = "open"]
    /\ Goto(w, "observation")
    /\ UNCHANGED <<row, table, record, wrote, answer>>

\* The same completion once more, after "unavailable".
Retry(w) ==
    /\ pc[w] = "held" /\ tx[w] = "none" /\ answer[w] = "unavailable"
    /\ tx' = [tx EXCEPT ![w] = "open"]
    /\ Goto(w, "observation") /\ Say(w, "none")
    /\ UNCHANGED <<row, table, record, input, wrote>>

\* ROLLBACK, and the answer.
Refuse(w, a) ==
    /\ tx' = [tx EXCEPT ![w] = "none"]
    /\ wrote' = [wrote EXCEPT ![w] = {}]
    /\ Goto(w, "held") /\ Say(w, a)
    /\ UNCHANGED <<row, table, record, input>>

\* An insert of the same id by a transaction that has not ended makes this one wait.
Free(w, t) ==
    \A v \in Workers \ {w} : ~(t \in wrote[v] /\ input[v].id = input[w].id)

\* What a draft of the completion says.  An observation knows of no policy.
Says(t, result) ==
    IF t = "observation" /\ result = "still-unknown" THEN "unavailable" ELSE result

Draft(w, t) == Says(t, input[w].result)

\* A draft that is there counts as this one when it says the same.
Replayed(w, t) == table[t][input[w].id] = Draft(w, t)

\* ON CONFLICT DO NOTHING, and the comparison with what is there.
Append(w, t, mayInsert, next) ==
    /\ pc[w] = t /\ Free(w, t)
    /\ \/ /\ Replayed(w, t)
          /\ Goto(w, next) /\ UNCHANGED <<row, table, record, input, tx, wrote, answer>>
       \/ /\ table[t][input[w].id] # None /\ ~Replayed(w, t)
          /\ Refuse(w, "semantic-conflict")
       \/ /\ table[t][input[w].id] = None /\ mayInsert
          /\ wrote' = [wrote EXCEPT ![w] = @ \cup {t}]
          /\ Goto(w, next) /\ UNCHANGED <<row, table, record, input, tx, answer>>
       \/ /\ table[t][input[w].id] = None /\ ~mayInsert
          /\ Goto(w, "classify")
          /\ UNCHANGED <<row, table, record, input, tx, wrote, answer>>

\* Mutant: any claim of the request will do.
AuthorizedByState(w) == row.state \in Leased

\* The predicate that the resolution's insert and the compare-and-set share.
Authorized(w) ==
    /\ row.state \in Leased
    /\ row.owner = w
    /\ row.fence = input[w].fence
    /\ row.revision = input[w].revision

\* Another observation of the request may have taken the sequence number.
SequenceTaken(w) ==
    /\ pc[w] = "observation" /\ table["observation"][input[w].id] = None
    /\ \E e \in Ids : table["observation"][e] # None
    /\ Refuse(w, "semantic-conflict")

\* Without a resolution the request will wait.
AppendObservation(w) ==
    \/ Append(w, "observation", TRUE,
              IF input[w].result = "unavailable" THEN "cas" ELSE "resolution")
    \/ SequenceTaken(w)

AppendResolution(w) == Append(w, "resolution", Authorized(w), "outbox")

AppendOutbox(w) == Append(w, "outbox", TRUE, "cas")

\* Mutant: a request that cannot be moved does not fail the transaction.
MoveRequestUnchecked(w) ==
    /\ pc[w] = "cas" /\ ~RowLocked
    /\ wrote' = [wrote EXCEPT ![w] = IF Authorized(w) THEN @ \cup {"request"} ELSE @]
    /\ Goto(w, "commit")
    /\ UNCHANGED <<row, table, record, input, tx, answer>>

\* resolveObservation(): the state that a completion moves the request to.
NextState(result) ==
    CASE result \in {"committed", "not-committed"} -> "resolved"
      [] result \in {"corrupted", "still-unknown"} -> result
      [] OTHER -> "retry-wait"

\* transitionV2.  It is called without an escalation class, which the table's CHECK
\* compares for "corrupted" and "still-unknown": with NULL, so that it is not
\* violated and the row is moved all the same.
MoveRequest(w) ==
    /\ pc[w] = "cas" /\ ~RowLocked
    /\ \/ /\ Authorized(w)
          /\ wrote' = [wrote EXCEPT ![w] = @ \cup {"request"}]
          /\ Goto(w, "commit")
       \/ ~Authorized(w) /\ Goto(w, "classify") /\ UNCHANGED wrote
    /\ UNCHANGED <<row, table, record, input, tx, answer>>

\* classifyParent, classifyRequestV2: the row is read again.  The revision fixes
\* the state, so that "wrong-prior-state" is never what is left.
Conflict(w) ==
    IF row.state \in Terminal THEN "terminal-preserved"
    ELSE IF row.fence # input[w].fence \/ row.owner # w THEN "stale-fence"
    ELSE IF row.revision # input[w].revision THEN "stale-revision"
    ELSE "semantic-conflict"

Classify(w) == pc[w] = "classify" /\ Refuse(w, Conflict(w))

\* A statement fails, or a limit of the transaction is reached.
StatementFails(w) == tx[w] = "open" /\ pc[w] # "commit" /\ Refuse(w, "unavailable")

\* The transaction's writes become visible, all at once.
Apply(w) ==
    LET i == input[w] IN
    /\ table' = [t \in Tables |->
                   IF t \in wrote[w] THEN [table[t] EXCEPT ![i.id] = Draft(w, t)] ELSE table[t]]
    /\ IF "request" \in wrote[w]
       THEN SetRow(NextState(i.result), None, row.fence, FALSE,
                   IF i.result = "unavailable" THEN None ELSE i.result)
       ELSE UNCHANGED row

EndTransaction(w) ==
    /\ tx' = [tx EXCEPT ![w] = "none"]
    /\ wrote' = [wrote EXCEPT ![w] = {}]

\* COMMIT: acknowledged, rejected, or without an answer.
Commit(w) ==
    /\ pc[w] = "commit"
    /\ \/ Apply(w) /\ EndTransaction(w) /\ Say(w, "committed")
       \/ UNCHANGED <<row, table>> /\ EndTransaction(w) /\ Say(w, "unavailable")
       \/ /\ tx' = [tx EXCEPT ![w] = "sent"] /\ Say(w, "unavailable")
          /\ UNCHANGED <<row, table, wrote>>
    /\ Goto(w, "held")
    /\ UNCHANGED <<record, input>>

\* A COMMIT whose caller has gone takes effect late, or never.
Land(w) ==
    /\ tx[w] = "sent"
    /\ Apply(w) \/ UNCHANGED <<row, table>>
    /\ EndTransaction(w)
    /\ UNCHANGED <<record, input, pc, answer>>

----------------------------------------------------------------------------
(* After the answer *)

\* Mutant: the lookup asks for the rows and not for their fingerprints.
LookedUpById(w, t) == table[t][input[w].id] # None

LookedUp(w, t) == table[t][input[w].id] = Draft(w, t)

\* lookupPostgreSQLReconciliationCommit.  The request's own row is there in any
\* case, so that "not-committed", which wants four zeros, is never its answer.
\* Without a resolution it counts those of all requests, which must be none.
Lookup(w) ==
    /\ pc[w] = "held" /\ answer[w] = "unavailable"
    /\ \/ /\ LookedUp(w, "observation")
          /\ IF input[w].result = "unavailable"
             THEN \A t \in {"resolution", "outbox"}, e \in Ids : table[t][e] = None
             ELSE LookedUp(w, "resolution") /\ LookedUp(w, "outbox")
          /\ Say(w, "found")
       \/ /\ input[w].result = "unavailable" \/ \E t \in Tables : ~LookedUp(w, t)
          /\ Say(w, "corrupted")
    /\ UNCHANGED <<row, table, record, input, pc, tx, wrote>>

\* "authoritative-reread": the worker goes on if the lease is still its own.
Reread(w) ==
    /\ pc[w] = "held" /\ answer[w] = "stale-revision"
    /\ IF Holds(w)
       THEN /\ record' = [record EXCEPT ![w] = [revision |-> row.revision, fence |-> row.fence]]
            /\ Say(w, "none") /\ UNCHANGED pc
       ELSE Goto(w, "idle") /\ UNCHANGED <<record, answer>>
    /\ UNCHANGED <<row, table, input, tx, wrote>>

\* "stop-stale-worker", "preserve-terminal", "fail-conflict", or the end.
Stop(w) ==
    /\ pc[w] = "held" /\ answer[w] \notin {"none", "unavailable", "stale-revision"}
    /\ Goto(w, "idle")
    /\ UNCHANGED <<row, table, record, input, tx, wrote, answer>>

\* The process dies; its worker starts again under the same identity.  The
\* server rolls back, unless the COMMIT is on its way.
Crash(w) ==
    /\ pc[w] # "idle"
    /\ Goto(w, "idle") /\ Say(w, "none")
    /\ \/ tx[w] # "sent" /\ EndTransaction(w)
       \/ /\ tx[w] = "sent" \/ pc[w] = "commit"
          /\ tx' = [tx EXCEPT ![w] = "sent"] /\ UNCHANGED wrote
    /\ UNCHANGED <<row, table, record, input>>

Worker(w) ==
    \/ Claim(w) \/ Renew(w) \/ StartObserving(w) \/ Release(w)
    \/ Execute(w) \/ Retry(w) \/ AppendObservation(w) \/ AppendResolution(w)
    \/ AppendOutbox(w) \/ MoveRequest(w) \/ Classify(w) \/ StatementFails(w)
    \/ Commit(w) \/ Land(w) \/ Lookup(w) \/ Reread(w) \/ Stop(w) \/ Crash(w)

Next ==
    \/ Expire
    \/ \E state \in {"cancelled", "manual-repair-required"} : Close(state)
    \/ \E w \in Workers : Worker(w)

Spec == Init /\ [][Next]_vars

----------------------------------------------------------------------------
\* The four tables agree: a request is decided, for good or for a person to look
\* at, exactly when there is a resolution, there is only one, and its observation
\* and its event say what the request's state calls for.
ResolutionMatchesRequest ==
    /\ row.state \in Decided <=> \E e \in Ids : table["resolution"][e] # None
    /\ \A e \in Ids : table["resolution"][e] # None =>
         /\ row.state = NextState(row.result)
         /\ \A t \in Tables : table[t][e] = Says(t, row.result)
    /\ \A e \in Ids : table["outbox"][e] # None => table["resolution"][e] # None
    /\ \A e, f \in Ids :
         table["resolution"][e] # None /\ table["resolution"][f] # None => e = f

\* A completion that was reported committed, at once or by a later lookup, is
\* the one in the database, whoever completes or closes the request in between.
CommittedIsFinal ==
    \A w \in Workers :
        answer[w] \in {"committed", "found"} /\ input[w].result # "unavailable" =>
            row.state = NextState(input[w].result) /\ row.result = input[w].result

\* A worker that is told to stop has lost its lease for good: a conflict is
\* never an answer to what would have been accepted later.
ConflictsAreFinal ==
    \A w \in Workers :
        /\ answer[w] = "stale-fence" => row.fence > input[w].fence \/ row.owner # w
        /\ answer[w] = "terminal-preserved" => row.state \in Terminal
        /\ answer[w] = "stale-revision" => row.revision > input[w].revision

\* A request is decided by its current owner, for the revision at which the owner
\* saw it: not by one that was taken over or restarted while it observed.
DecidedOnCurrent ==
    [][row.state \notin Decided /\ row'.state \in Decided =>
         \E w \in Workers :
            /\ row.owner = w /\ row.fence = input[w].fence
            /\ row.revision = input[w].revision /\ row'.result = input[w].result]_vars

\* The executor, the lease and the lookup together implement the promise of
\* ReconciliationOutcome, with COMMITs that land late and workers that restart.
Outcome == INSTANCE ReconciliationOutcome WITH
    status <- CASE row.state \in Decided -> "decided"
                [] row.state \in Terminal \ Decided -> "closed"
                [] OTHER -> "open",
    result <- row.result,
    holder <- row.owner,
    token  <- row.fence,
    events <- {e \in Ids : table["outbox"][e] # None},
    told   <- [w \in Workers |->
                 IF answer[w] \in {"committed", "found"} /\ input[w].result # "unavailable"
                 THEN input[w].result ELSE None],
    Results <- Results \ {"unavailable"}

ImplementsOutcome == Outcome!Spec
============================================================================
