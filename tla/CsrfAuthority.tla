--------------------------- MODULE CsrfAuthority ---------------------------
(***************************************************************************)
(* The durable CSRF token authority for ONE authenticated session:         *)
(* requests, on any number of instances, that issue a token or revoke the  *)
(* session's tokens.  Every write happens in a transaction that takes the  *)
(* session's advisory lock right after BEGIN.  PostgreSQL fixes            *)
(* transaction_timestamp() at BEGIN, that is before the lock is granted;   *)
(* issued_at and expires_at come from the clock of the instance.           *)
(*                                                                         *)
(* A token is named by the call that issues it: token ids are random.      *)
(* The lock is held until the transaction ends, so nobody sees a           *)
(* transaction between its statements, and they form one step; the rows    *)
(* are read READ COMMITTED, after the lock was granted.                    *)
(***************************************************************************)
EXTENDS Integers, FiniteSets

CONSTANTS
    Issuers,     \* calls of issueWithAtomicCeiling for this session
    Revokers,    \* calls of revokeToken and revokeSession for it
    NoRequest,   \* nobody holds the session's lock
    Ceiling,     \* tokens that may be active: 4 in the code
    Lifetime,    \* of a token: 30 minutes
    SessionEnd,  \* expiresAt of the authenticated session
    Skew,        \* how far issued_at is from transaction_timestamp(): the
                 \* instance's clock, and the time until a connection is there
    MaxTime,     \* bound of the exploration, in units of time
    Faulty       \* whether statements, connections and instances may fail

Requests == Issuers \cup Revokers

ASSUME Policy ==
    /\ IsFiniteSet(Issuers) /\ Issuers \cap Revokers = {} /\ NoRequest \notin Requests
    /\ Ceiling \in Nat \ {0} /\ Lifetime \in Nat \ {0}
    /\ SessionEnd \in Int /\ Skew \in Nat /\ MaxTime \in Nat
    /\ Faulty \in BOOLEAN

VARIABLES
    now,        \* the database's clock
    table,      \* lifecycle_state of each token
    lock,       \* who holds the session's advisory lock
    draft,      \* the table as the holder's transaction sees it
    pc,         \* where a request stands
    scope,      \* the tokens a revocation is about
    issuedAt,   \* issued_at of its token, by its instance's clock
    begun,      \* transaction_timestamp() of its transaction
    owed,       \* history: tokens that were answered "issued" when it began
    answer      \* what it answers

vars == <<now, table, lock, draft, pc, scope, issuedAt, begun, owed, answer>>

Holding == {"work", "commit", "orphan"}

TypeOK ==
    /\ now \in 0..MaxTime
    /\ table \in [Issuers -> {"none", "active", "revoked"}]
    /\ lock \in Requests \cup {NoRequest}
    /\ draft \in [Issuers -> {"none", "active", "revoked"}]
    /\ pc \in [Requests -> {"new", "lock", "done"} \cup Holding]
    /\ scope \in [Revokers -> SUBSET Issuers]
    /\ issuedAt \in [Issuers -> Int]
    /\ begun \in [Requests -> 0..MaxTime]
    /\ owed \in [Revokers -> SUBSET Issuers]
    /\ answer \in [Requests -> {"pending", "issued", "revoked", "not-found", "malformed", "unavailable"}]

Init ==
    /\ now = 0
    /\ table = [t \in Issuers |-> "none"]
    /\ lock = NoRequest
    /\ draft = table
    /\ pc = [r \in Requests |-> "new"]
    /\ scope = [r \in Revokers |-> {}]
    /\ issuedAt = [t \in Issuers |-> 0]
    /\ begun = [r \in Requests |-> 0]
    /\ owed = [r \in Revokers |-> {}]
    /\ answer = [r \in Requests |-> "pending"]

Goto(r, place) == pc' = [pc EXCEPT ![r] = place]

\* min(issuedAt + 30 minutes, expiry of the session)
ExpiresAt(t) ==
    IF issuedAt[t] + Lifetime < SessionEnd THEN issuedAt[t] + Lifetime ELSE SessionEnd

\* The rows with lifecycle_state='active' AND time < expires_at.
Active(rows, time) == {t \in Issuers : rows[t] = "active" /\ time < ExpiresAt(t)}

\* Mutant: the newest token gives way.
Newest(S) == {t \in S : \A u \in S : issuedAt[t] >= issuedAt[u]}

Oldest(S) == {t \in S : \A u \in S : issuedAt[t] <= issuedAt[u]}

\* CHECK (revoked_at >= issued_at), with revoked_at=transaction_timestamp().
MayRevoke(r, S) == \A t \in S : issuedAt[t] <= begun[r]

----------------------------------------------------------------------------
\* checkout() and BEGIN
Begin(r) ==
    /\ pc[r] = "new"
    /\ Goto(r, "lock")
    /\ begun' = [begun EXCEPT ![r] = now]
    /\ UNCHANGED <<now, table, lock, draft>>

\* The route creates the token's material with its own clock, then the
\* authority begins.  A session that has expired by that clock gets none.
BeginIssue(r) ==
    /\ \E time \in (now - Skew)..(now + Skew) :
          /\ issuedAt' = [issuedAt EXCEPT ![r] = time]
          /\ \/ time < SessionEnd /\ Begin(r) /\ UNCHANGED answer
             \/ /\ time >= SessionEnd
                /\ pc[r] = "new"
                /\ Goto(r, "done")
                /\ answer' = [answer EXCEPT ![r] = "unavailable"]
                /\ UNCHANGED <<now, table, lock, draft, begun>>
    /\ UNCHANGED <<scope, owed>>

\* revokeToken and revokeSession
BeginRevoke(r) ==
    /\ Begin(r)
    /\ \E S \in {Issuers} \cup {{t} : t \in Issuers} : scope' = [scope EXCEPT ![r] = S]
    /\ owed' = [owed EXCEPT ![r] = {t \in Issuers : answer[t] = "issued"}]
    /\ UNCHANGED <<issuedAt, answer>>

\* pg_advisory_xact_lock
AcquireSessionLock(r) ==
    /\ pc[r] = "lock"
    /\ lock = NoRequest
    /\ lock' = r
    /\ Goto(r, "work")
    /\ UNCHANGED <<now, table, draft, scope, issuedAt, begun, owed, answer>>

\* rollbackAndRelease, and the answer
RollBack(r, a) ==
    /\ Goto(r, "done")
    /\ answer' = [answer EXCEPT ![r] = a]
    /\ lock' = IF lock = r THEN NoRequest ELSE lock
    /\ UNCHANGED <<now, table, draft, scope, issuedAt, begun, owed>>

\* The statements that write, up to the COMMIT.
Write(r, rows) ==
    /\ draft' = rows
    /\ Goto(r, "commit")
    /\ UNCHANGED <<now, table, lock, scope, issuedAt, begun, owed, answer>>

Revoked(rows, S) == [t \in Issuers |-> IF t \in S THEN "revoked" ELSE rows[t]]

\* Mutant: the ceiling is compared one too late.
IssueOneTooMany(r) ==
    LET active == Active(table, begun[r]) IN
    /\ pc[r] = "work"
    /\ \/ /\ Cardinality(active) <= Ceiling
          /\ Write(r, [table EXCEPT ![r] = "active"])
       \/ /\ Cardinality(active) > Ceiling
          /\ RollBack(r, "malformed")

\* issueWithAtomicCeiling: below the ceiling the token is inserted; at the
\* ceiling it takes the place of the oldest.
Issue(r) ==
    LET active == Active(table, begun[r]) IN
    /\ pc[r] = "work"
    /\ \/ /\ Cardinality(active) < Ceiling
          /\ Write(r, [table EXCEPT ![r] = "active"])
       \/ /\ Cardinality(active) = Ceiling
          /\ \E t \in Oldest(active) :
                \/ MayRevoke(r, {t}) /\ Write(r, [Revoked(table, {t}) EXCEPT ![r] = "active"])
                \/ ~MayRevoke(r, {t}) /\ RollBack(r, "unavailable")
       \/ /\ Cardinality(active) > Ceiling
          /\ RollBack(r, "malformed")

\* Mutant: a revocation skips the rows it would violate the CHECK with.
RevokeWhatItMay(r) ==
    LET rows == {t \in scope[r] : table[t] = "active" /\ MayRevoke(r, {t})} IN
    /\ pc[r] = "work"
    /\ \/ rows = {} /\ RollBack(r, "not-found")
       \/ rows # {} /\ Write(r, Revoked(table, rows))

\* revoke: all rows of the scope that are active, expired or not.
Revoke(r) ==
    LET rows == {t \in scope[r] : table[t] = "active"} IN
    /\ pc[r] = "work"
    /\ \/ rows = {} /\ RollBack(r, "not-found")
       \/ rows # {} /\ MayRevoke(r, rows) /\ Write(r, Revoked(table, rows))
       \/ rows # {} /\ ~MayRevoke(r, rows) /\ RollBack(r, "unavailable")

\* Mutant: the answer does not wait for the COMMIT.
CommitUnawaited(r) ==
    /\ pc[r] = "commit"
    /\ Goto(r, "orphan")
    /\ answer' = [answer EXCEPT ![r] = IF r \in Issuers THEN "issued" ELSE "revoked"]
    /\ UNCHANGED <<now, table, lock, draft, scope, issuedAt, begun, owed>>

\* COMMIT and its acknowledgement
Commit(r) ==
    /\ pc[r] = "commit"
    /\ Goto(r, "done")
    /\ table' = draft
    /\ lock' = NoRequest
    /\ answer' = [answer EXCEPT ![r] = IF r \in Issuers THEN "issued" ELSE "revoked"]
    /\ UNCHANGED <<now, draft, scope, issuedAt, begun, owed>>

----------------------------------------------------------------------------
\* A statement or the wait for the lock fails and the transaction is rolled
\* back, by the code or, when its instance died, by PostgreSQL.  (A failing
\* checkout or BEGIN has the same answer.)
Fail(r) ==
    /\ Faulty
    /\ pc[r] \in {"lock", "work"}
    /\ RollBack(r, "unavailable")

\* COMMIT fails, or the instance dies, without it being known whether COMMIT
\* took effect, or will.
Lose(r) ==
    /\ Faulty
    /\ pc[r] = "commit"
    /\ Goto(r, "orphan")
    /\ answer' = [answer EXCEPT ![r] = "unavailable"]
    /\ UNCHANGED <<now, table, lock, draft, scope, issuedAt, begun, owed>>

\* PostgreSQL ends a transaction whose connection is gone, and keeps what it
\* wrote when the COMMIT reached it.
EndOrphan(r) ==
    /\ pc[r] = "orphan"
    /\ Goto(r, "done")
    /\ lock' = NoRequest
    /\ table' \in {table, draft}
    /\ draft' = table'
    /\ UNCHANGED <<now, scope, issuedAt, begun, owed, answer>>

Tick ==
    /\ now < MaxTime
    /\ now' = now + 1
    /\ UNCHANGED <<table, lock, draft, pc, scope, issuedAt, begun, owed, answer>>

\* The steps both kinds of call share.
Serve(r) == AcquireSessionLock(r) \/ Commit(r)

Next ==
    \/ \E r \in Issuers : BeginIssue(r) \/ Issue(r)
    \/ \E r \in Revokers : BeginRevoke(r) \/ Revoke(r)
    \/ \E r \in Requests : Serve(r) \/ Fail(r) \/ Lose(r) \/ EndOrphan(r)
    \/ Tick

Spec == Init /\ [][Next]_vars

----------------------------------------------------------------------------
\* At no time are more tokens of the session active than the ceiling allows,
\* although every issue counts with the timestamp its transaction began with
\* and tokens are committed, and expire, after that.
CeilingHolds == Cardinality(Active(table, now)) <= Ceiling

\* A revocation that is acknowledged, or finds nothing, leaves no token of its
\* scope active that a caller had been given before it began.
RevocationIsComplete ==
    \A r \in Revokers :
        answer[r] \in {"revoked", "not-found"}
            => \A t \in owed[r] \cap scope[r] : table[t] = "revoked"

\* "issued" is answered for rows that are there; an issue that is refused as
\* malformed leaves no row, whatever failed in between.  (Proved; the run checks
\* it with ImplementsBook.)
AnswersAreDurable ==
    \A r \in Issuers :
        /\ answer[r] = "issued" => table[r] # "none"
        /\ answer[r] = "malformed" => table[r] = "none"

\* Outside a revocation a token only gives way to a new one that appears in
\* the same step, one for one, and no unexpired token that stays is older.
OnlyOldestGivesWay ==
    [][\A t \in Issuers :
          table[t] = "active" /\ table'[t] # "active"
              => \/ lock \in Revokers
                 \/ /\ table[lock] = "none" /\ table'[lock] = "active"
                    /\ \A u \in Active(table, now) \cap Active(table', now) :
                          issuedAt[t] <= issuedAt[u]]_vars

\* To its callers the authority is a book of tokens that changes in single
\* steps: no interleaving of transactions and no lost COMMIT shows through.
Book == INSTANCE CsrfTokenBook WITH
    book <- table,
    over <- {r \in Requests : pc[r] = "done"}

ImplementsBook == Book!Spec

\* Without failures every issue for a live session succeeds: concurrent issues
\* are all answered "issued", as the authority's concurrency test demands.
IssueSucceeds ==
    \A r \in Issuers :
        pc[r] = "done" /\ issuedAt[r] < SessionEnd => answer[r] = "issued"
=============================================================================
