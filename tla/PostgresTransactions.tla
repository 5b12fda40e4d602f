------------------------ MODULE PostgresTransactions ------------------------
(***************************************************************************)
(* Transactions over one pool of PostgreSQL connections: the driver (pool  *)
(* adapter, connection adapter, transaction adapter, drain coordinator),   *)
(* three callers of it, and the runtime that starts and shuts the pool.    *)
(*   "manager"  the durable transaction manager V2;                        *)
(*   "replay"   the multi-cut replay execution runtime, over its provider  *)
(*              and bridge;                                                *)
(*   "owner"    the atomic mutation owner of a workflow completion.        *)
(* A run is one transaction of one caller, over one checked-out client.    *)
(*                                                                         *)
(* Between two awaits the code runs alone.  The server acts on its own: it *)
(* may take a COMMIT whose connection is already gone.                     *)
(***************************************************************************)
EXTENDS Naturals, FiniteSets

CONSTANTS
    Runs,
    Statements,     \* statements of a run, at most; for the owner, its stages
    MaxConnections

Kinds == {"manager", "replay", "owner"}

ASSUME StatementsAssumption == Statements \in Nat \ {0}
ASSUME CapacityAssumption == MaxConnections \in Nat \ {0}

VARIABLES
    runtime,  \* the state of the production PostgreSQL runtime
    startup,  \* where its start() stands
    pool,     \* the state of the pool adapter
    closer,   \* where the adapter's close() stands
    manager,  \* "ready" or "disposed"
    kind,     \* the caller of each run
    pc,       \* where a run stands; "...ing" awaits an answer of the server
    client,   \* its connection, transaction adapter and socket
    wire,     \* the statement the server got and has not decided
    db,       \* its transaction in the database
    stage,    \* statements that succeeded
    result    \* what the caller is told

vars == <<runtime, startup, pool, closer, manager, kind, pc, client, wire, db, stage, result>>
service  == <<runtime, startup, pool, closer, manager, kind>>
database == <<wire, db>>

Reuse == {"safe-to-reuse", "must-rollback-before-reuse", "must-discard", "unknown"}
Told  == {"committed", "not committed", "unknown"}

\* The caller holds a client of the native pool.
Held == {"checked-out", "transaction-active", "unknown"}

Clients == [conn  : Held \cup {"none", "released", "discarded"},
            tx    : {"none", "active", "failed", "committing", "committed", "rolling-back",
                     "rolled-back", "unknown", "released"},
            reuse : Reuse,
            link  : {"up", "down"}]

Places == {"idle", "queued", "connecting", "begin", "beginning", "work", "querying", "commit",
           "committing", "rollback", "rolling-back", "hooks", "done"}

TypeOK ==
    /\ runtime \in {"created", "starting", "ready", "failed", "closing", "closed"}
    /\ pool \in {"created", "starting", "ready", "failed", "draining", "closed"}
    /\ startup \in {"none", "connector", "running", "settled", "cleaning", "failed", "ready"}
    /\ closer \in {"none", "draining", "ending", "ended"}
    /\ manager \in {"ready", "disposed"}
    /\ kind \in [Runs -> Kinds]
    /\ pc \in [Runs -> Places]
    /\ client \in [Runs -> Clients]
    /\ wire \in [Runs -> {"nothing", "BEGIN", "query", "COMMIT", "ROLLBACK"}]
    /\ db \in [Runs -> {"none", "open", "aborted", "committed", "rolled-back"}]
    /\ stage \in [Runs -> 0 .. Statements]
    /\ result \in [Runs -> Told \cup {"nothing"}]

NoClient == [conn |-> "none", tx |-> "none", reuse |-> "safe-to-reuse", link |-> "down"]

Init ==
    /\ runtime = "created" /\ startup = "none" /\ pool = "created" /\ closer = "none" /\ manager = "ready"
    /\ kind \in [Runs -> Kinds]
    /\ pc = [r \in Runs |-> "idle"]
    /\ client = [r \in Runs |-> NoClient]
    /\ wire = [r \in Runs |-> "nothing"]
    /\ db = [r \in Runs |-> "none"]
    /\ stage = [r \in Runs |-> 0]
    /\ result = [r \in Runs |-> "nothing"]

\* The connections the drain coordinator tracks: each leaves when it is given back.
Tracked == {r \in Runs : client[r].conn \in Held}

Goto(r, place) == pc' = [pc EXCEPT ![r] = place]

Answer(r, t) == Goto(r, "done") /\ result' = [result EXCEPT ![r] = t]

SetClient(r, c) == client' = [client EXCEPT ![r] = c]

----------------------------------------------------------------------------
(* The adapters, as functions of the client *)

\* PostgreSQLConnectionAdapter.release(), refused while a transaction is active.
ConnRelease(c) ==
    IF c.conn \in {"checked-out", "unknown"} THEN [c EXCEPT !.conn = "released"] ELSE c

\* PostgreSQLConnectionAdapter.discard(): marks the transaction, and ends the client.
ConnDiscard(c) ==
    IF c.conn \in Held
    THEN [conn |-> "discarded", tx |-> IF c.tx = "none" THEN "none" ELSE "released",
          reuse |-> "must-discard", link |-> "down"]
    ELSE c

\* A COMMIT or ROLLBACK that throws: the transaction adapter discards itself.
TxUnknown(c) ==
    IF c.conn \in Held THEN ConnDiscard(c) ELSE [c EXCEPT !.tx = "unknown", !.reuse = "must-discard"]

\* One that succeeds: onFinish makes the connection reusable.
TxFinished(c, state) == [c EXCEPT !.tx = state, !.reuse = "safe-to-reuse", !.conn = "checked-out"]

\* PostgreSQLTransactionConnectionAdapter.release()
TxRelease(c) ==
    IF c.tx \in {"released", "active", "failed", "committing", "rolling-back"} THEN c
    ELSE [(IF c.reuse = "safe-to-reuse" THEN ConnRelease(c) ELSE ConnDiscard(c))
          EXCEPT !.tx = "released"]

\* release() of the production bridge, under the provider's.
BridgeRelease(c) ==
    IF c.conn = "transaction-active" THEN ConnDiscard(c) ELSE ConnRelease(c)

\* decideWorkflowCompletionTransactionCleanupV1 after a commit or rollback.
CleanUp(c) == IF c.reuse = "safe-to-reuse" THEN TxRelease(c) ELSE ConnDiscard(c)

\* How each caller gives its client back once its ROLLBACK is through.
AfterRollback(r, c) ==
    CASE kind[r] = "manager" -> IF c.tx = "rolled-back" THEN TxRelease(c) ELSE ConnDiscard(c)
      [] kind[r] = "replay"  -> BridgeRelease(c)
      [] kind[r] = "owner"   -> CleanUp(c)

\* ... and after a COMMIT, whatever its result.
AfterCommit(r, c) ==
    CASE kind[r] = "manager" -> IF c.tx = "committed" THEN TxRelease(c) ELSE ConnDiscard(c)
      [] kind[r] = "replay"  -> BridgeRelease(c)
      [] kind[r] = "owner"   -> CleanUp(c)

----------------------------------------------------------------------------
(* The runtime and the pool *)

\* PostgreSQLConnectionPoolAdapter.close(): a second call joins the first.
ClosePool ==
    IF closer = "none" THEN pool' = "draining" /\ closer' = "draining"
                       ELSE UNCHANGED <<pool, closer>>

\* acquire(), once; every caller shares its promise.
StartRuntime ==
    /\ runtime = "created"
    /\ runtime' = "starting" /\ startup' = "connector"
    /\ UNCHANGED <<pool, closer, manager, kind, pc, client, database, stage, result>>

\* The connector's options have come, or fail; there is no pool before them.
ConnectorAnswers ==
    /\ startup = "connector"
    /\ \/ runtime = "starting" /\ startup' = "running" /\ pool' = "starting" /\ UNCHANGED runtime
       \/ /\ startup' = "failed" /\ UNCHANGED pool
          /\ runtime' = IF runtime = "closing" THEN runtime ELSE "failed"
    /\ UNCHANGED <<closer, manager, kind, pc, client, database, stage, result>>

\* The pool's first query is answered: start() assigns the state it finds.
PoolStarted ==
    /\ startup = "running"
    /\ startup' = "settled"
    /\ \E state \in {"ready", "failed"} : pool' = state
    /\ UNCHANGED <<runtime, closer, manager, kind, pc, client, database, stage, result>>

RuntimeStarted ==
    /\ startup = "settled"
    /\ IF pool = "ready" /\ runtime = "starting"
       THEN startup' = "ready" /\ runtime' = "ready" /\ UNCHANGED <<pool, closer>>
       ELSE startup' = "cleaning" /\ ClosePool /\ UNCHANGED runtime
    /\ UNCHANGED <<manager, kind, pc, client, database, stage, result>>

Shutdown ==
    /\ runtime \notin {"closing", "closed"}
    /\ runtime' = "closing"
    /\ UNCHANGED <<startup, pool, closer, manager, kind, pc, client, database, stage, result>>

\* Mutant: the shutdown does not wait for the startup that is under way.
ShutdownProceedsAtOnce ==
    /\ runtime = "closing" /\ closer = "none"
    /\ IF startup \in {"none", "failed"}
       THEN runtime' = "closed" /\ UNCHANGED <<pool, closer>>
       ELSE ClosePool /\ UNCHANGED runtime
    /\ UNCHANGED <<startup, manager, kind, pc, client, database, stage, result>>

\* finishShutdown(), after the startup it found under way.
ShutdownProceeds ==
    /\ runtime = "closing"
    /\ \/ startup \in {"none", "failed"} /\ runtime' = "closed" /\ UNCHANGED <<pool, closer>>
       \/ startup = "ready" /\ closer = "none" /\ ClosePool /\ UNCHANGED runtime
    /\ UNCHANGED <<startup, manager, kind, pc, client, database, stage, result>>

\* An idle client fails: the adapter gives out no more connections.
PoolError ==
    /\ pool = "ready"
    /\ pool' = "failed"
    /\ UNCHANGED <<runtime, startup, closer, manager, kind, pc, client, database, stage, result>>

Drained ==
    /\ closer = "draining" /\ Tracked = {}
    /\ closer' = "ending"
    /\ UNCHANGED <<runtime, startup, pool, manager, kind, pc, client, database, stage, result>>

\* Mutant: the timeout only ends the wait.
DrainTimeoutOnly ==
    /\ closer = "draining" /\ Tracked # {}
    /\ closer' = "ending"
    /\ UNCHANGED <<runtime, startup, pool, manager, kind, pc, client, database, stage, result>>

\* Every tracked connection is discarded, whatever it is waiting for.
DrainTimeout ==
    /\ closer = "draining" /\ Tracked # {}
    /\ closer' = "ending"
    /\ client' = [r \in Runs |-> ConnDiscard(client[r])]
    /\ UNCHANGED <<runtime, startup, pool, manager, kind, pc, database, stage, result>>

\* The native pool's end(): once no client is out and none is being connected.
PoolEnded ==
    /\ closer = "ending" /\ Tracked = {} /\ \A r \in Runs : pc[r] # "connecting"
    /\ closer' = "ended" /\ pool' = "closed"
    /\ CASE startup = "cleaning" -> /\ startup' = "failed"
                                    /\ runtime' = IF runtime = "closing" THEN runtime ELSE "failed"
         [] startup = "ready"    -> runtime' = "closed" /\ UNCHANGED startup
         [] OTHER                -> UNCHANGED <<runtime, startup>>
    /\ UNCHANGED <<manager, kind, pc, client, database, stage, result>>

Dispose ==
    /\ manager = "ready"
    /\ manager' = "disposed"
    /\ UNCHANGED <<runtime, startup, pool, closer, kind, pc, client, database, stage, result>>

----------------------------------------------------------------------------
(* Checkout and BEGIN *)

Busy == Tracked \cup {r \in Runs : pc[r] = "connecting"}

Checkout(r) ==
    /\ pc[r] = "idle"
    /\ \/ /\ kind[r] = "manager" /\ manager = "disposed"
          /\ Answer(r, "not committed")
       \/ /\ pool = "ready" /\ startup = "ready"
          /\ kind[r] = "manager" => manager = "ready"
          /\ Goto(r, "queued") /\ UNCHANGED result
       \/ /\ pool \in {"failed", "draining", "closed"} \/ runtime \in {"failed", "closing", "closed"}
          /\ Answer(r, "not committed")
    /\ UNCHANGED <<service, client, database, stage>>

\* The native pool has a client for it, or opens one; once ending, it does not.
TakeSlot(r) ==
    /\ pc[r] = "queued"
    /\ Cardinality(Busy) < MaxConnections /\ closer \notin {"ending", "ended"}
    /\ Goto(r, "connecting")
    /\ UNCHANGED <<service, client, database, stage, result>>

\* Connected after the pool stopped being ready: the client is given back at once.
Connected(r) ==
    /\ pc[r] = "connecting"
    /\ IF pool = "ready"
       THEN /\ SetClient(r, [NoClient EXCEPT !.conn = "checked-out", !.link = "up"])
            /\ Goto(r, "begin") /\ UNCHANGED result
       ELSE Answer(r, "not committed") /\ UNCHANGED client
    /\ UNCHANGED <<service, database, stage>>

NoConnection(r) ==
    /\ pc[r] \in {"queued", "connecting"}
    /\ Answer(r, "not committed")
    /\ UNCHANGED <<service, client, database, stage>>

\* A statement is sent; it does not reach the server over a broken link.
Send(r, statement) ==
    wire' = [wire EXCEPT ![r] = IF client[r].link = "up" THEN statement ELSE "nothing"]

\* Mutant: the manager's session has no transaction to release.
BeginFailureReleases(r, c) == IF kind[r] = "replay" THEN BridgeRelease(c) ELSE c

\* What each caller does with its connection when begin() fails.
AfterBeginFailure(r, c) == IF kind[r] = "replay" THEN BridgeRelease(c) ELSE ConnDiscard(c)

Begin(r) ==
    /\ pc[r] = "begin"
    /\ IF client[r].conn = "checked-out"
       THEN Goto(r, "beginning") /\ Send(r, "BEGIN") /\ UNCHANGED <<client, result>>
       ELSE /\ SetClient(r, AfterBeginFailure(r, client[r]))
            /\ Answer(r, "not committed") /\ UNCHANGED wire
    /\ UNCHANGED <<service, db, stage>>

Begun(r) ==
    /\ pc[r] = "beginning" /\ wire[r] = "BEGIN" /\ client[r].link = "up"
    /\ db' = [db EXCEPT ![r] = "open"] /\ wire' = [wire EXCEPT ![r] = "nothing"]
    /\ SetClient(r, [client[r] EXCEPT !.conn = "transaction-active", !.tx = "active",
                                      !.reuse = "must-rollback-before-reuse"])
    /\ Goto(r, "work")
    /\ UNCHANGED <<service, stage, result>>

\* The server refuses it, or the link is gone.
BeginFails(r) ==
    /\ pc[r] = "beginning"
    /\ wire' = [wire EXCEPT ![r] = "nothing"]
    /\ SetClient(r, AfterBeginFailure(r, client[r]))
    /\ Answer(r, "not committed")
    /\ UNCHANGED <<service, db, stage>>

----------------------------------------------------------------------------
(* Statements *)

\* The owner's decision after a failed stage; the others roll back in any case.
Abandon(r, c, disposition) ==
    IF kind[r] = "owner" /\ disposition \in {"must-discard", "unknown"}
    THEN SetClient(r, ConnDiscard(c)) /\ Answer(r, "not committed")
    ELSE SetClient(r, c) /\ Goto(r, "rollback") /\ UNCHANGED result

Query(r) ==
    /\ pc[r] = "work" /\ stage[r] < Statements
    /\ IF client[r].tx = "active"
       THEN Goto(r, "querying") /\ Send(r, "query") /\ UNCHANGED <<client, result>>
       ELSE Abandon(r, client[r], "unknown") /\ UNCHANGED wire
    /\ UNCHANGED <<service, db, stage>>

QuerySucceeds(r) ==
    /\ pc[r] = "querying" /\ wire[r] = "query" /\ client[r].link = "up"
    /\ wire' = [wire EXCEPT ![r] = "nothing"]
    /\ stage' = [stage EXCEPT ![r] = @ + 1]
    /\ Goto(r, "work")
    /\ UNCHANGED <<service, client, db, result>>

\* The adapter is failed even where a drain has just marked it released.
QueryFails(r) ==
    /\ pc[r] = "querying"
    /\ \E reuse \in {"must-rollback-before-reuse", "must-discard"} :
          /\ client[r].link = "up" => reuse = "must-rollback-before-reuse"
          /\ Abandon(r, [client[r] EXCEPT !.tx = "failed", !.reuse = reuse], reuse)
    /\ IF client[r].link = "up"
       THEN db' = [db EXCEPT ![r] = "aborted"] /\ wire' = [wire EXCEPT ![r] = "nothing"]
       ELSE UNCHANGED database
    /\ UNCHANGED <<service, stage>>

\* The caller gives up by itself: its callback or adapter fails or says so, its
\* deadline is past, a component reports "not committed", or it throws.
Decline(r) ==
    /\ pc[r] = "work"
    /\ \E disposition \in Reuse : Abandon(r, client[r], disposition)
    /\ UNCHANGED <<service, database, stage>>

\* Mutant: the owner commits with a stage missing.
WorkDoneEarly(r) ==
    /\ pc[r] = "work"
    /\ Goto(r, "commit")
    /\ UNCHANGED <<service, client, database, stage, result>>

\* The owner has all its stages; a manager's callback may do with fewer statements.
WorkDone(r) ==
    /\ pc[r] = "work"
    /\ kind[r] # "manager" => stage[r] = Statements
    /\ Goto(r, "commit")
    /\ UNCHANGED <<service, client, database, stage, result>>

----------------------------------------------------------------------------
(* COMMIT and ROLLBACK *)

\* commit() of a transaction that is not active is an invalid state.
Commit(r) ==
    /\ pc[r] = "commit"
    /\ IF client[r].tx = "active"
       THEN /\ Send(r, "COMMIT") /\ SetClient(r, [client[r] EXCEPT !.tx = "committing"])
            /\ Goto(r, "committing") /\ UNCHANGED result
       ELSE /\ UNCHANGED wire
            /\ IF kind[r] = "owner"
               THEN SetClient(r, AfterCommit(r, client[r])) /\ Answer(r, "not committed")
               ELSE Goto(r, "rollback") /\ UNCHANGED <<client, result>>
    /\ UNCHANGED <<service, db, stage>>

Committed(r) ==
    /\ pc[r] = "committing" /\ db[r] = "committed" /\ client[r].link = "up"
    /\ SetClient(r, AfterCommit(r, TxFinished(client[r], "committed")))
    /\ IF kind[r] = "manager" THEN Goto(r, "hooks") /\ UNCHANGED result ELSE Answer(r, "committed")
    /\ UNCHANGED <<service, database, stage>>

\* Mutant: a COMMIT that throws is taken for a rollback.
CommitFailsIsRollback(r) ==
    /\ pc[r] = "committing"
    /\ db[r] = "rolled-back" \/ client[r].link = "down"
    /\ SetClient(r, AfterCommit(r, TxUnknown(client[r])))
    /\ Answer(r, "not committed")
    /\ UNCHANGED <<service, database, stage>>

\* The server refused it, or the link is gone: which of both is not looked at.
CommitFails(r) ==
    /\ pc[r] = "committing"
    /\ db[r] = "rolled-back" \/ client[r].link = "down"
    /\ SetClient(r, AfterCommit(r, TxUnknown(client[r])))
    /\ Answer(r, "unknown")
    /\ UNCHANGED <<service, database, stage>>

\* After-commit hooks run once the connection is given back; their failure is
\* reported beside the commit.
RunHooks(r) ==
    /\ pc[r] = "hooks"
    /\ Answer(r, "committed")
    /\ UNCHANGED <<service, client, database, stage>>

\* Mutant: the connection is given back while the ROLLBACK is under way.
RollbackUnawaited(r) ==
    /\ pc[r] = "rollback"
    /\ IF client[r].tx \in {"active", "failed"}
       THEN /\ Send(r, "ROLLBACK")
            /\ SetClient(r, AfterRollback(r, TxFinished(client[r], "rolled-back")))
       ELSE SetClient(r, AfterRollback(r, client[r])) /\ UNCHANGED wire
    /\ Answer(r, "not committed")
    /\ UNCHANGED <<service, db, stage>>

\* Not required where a drain has discarded the transaction.
Rollback(r) ==
    /\ pc[r] = "rollback"
    /\ IF client[r].tx \in {"active", "failed"}
       THEN /\ Send(r, "ROLLBACK") /\ SetClient(r, [client[r] EXCEPT !.tx = "rolling-back"])
            /\ Goto(r, "rolling-back") /\ UNCHANGED result
       ELSE /\ SetClient(r, AfterRollback(r, client[r]))
            /\ Answer(r, "not committed") /\ UNCHANGED wire
    /\ UNCHANGED <<service, db, stage>>

RolledBack(r) ==
    /\ pc[r] = "rolling-back" /\ db[r] = "rolled-back" /\ client[r].link = "up"
    /\ SetClient(r, AfterRollback(r, TxFinished(client[r], "rolled-back")))
    /\ Answer(r, "not committed")
    /\ UNCHANGED <<service, database, stage>>

RollbackFails(r) ==
    /\ pc[r] = "rolling-back" /\ client[r].link = "down"
    /\ SetClient(r, AfterRollback(r, TxUnknown(client[r])))
    /\ Answer(r, "not committed")
    /\ UNCHANGED <<service, database, stage>>

----------------------------------------------------------------------------
(* The server and the network *)

ServerCommits(r) ==
    /\ wire[r] = "COMMIT" /\ db[r] = "open"
    /\ db' = [db EXCEPT ![r] = "committed"] /\ wire' = [wire EXCEPT ![r] = "nothing"]
    /\ UNCHANGED <<service, pc, client, stage, result>>

\* A ROLLBACK, a refused COMMIT, or the end of a session whose link is gone.
ServerRollsBack(r) ==
    /\ db[r] \in {"open", "aborted"}
    /\ client[r].link = "down" \/ wire[r] \in {"COMMIT", "ROLLBACK"}
    /\ db' = [db EXCEPT ![r] = "rolled-back"] /\ wire' = [wire EXCEPT ![r] = "nothing"]
    /\ UNCHANGED <<service, pc, client, stage, result>>

\* The client's error listener makes the connection's state unknown.
LinkBreaks(r) ==
    /\ client[r].link = "up" /\ client[r].conn \in Held
    /\ SetClient(r, [client[r] EXCEPT !.conn = "unknown", !.link = "down"])
    /\ UNCHANGED <<service, pc, database, stage, result>>

----------------------------------------------------------------------------

ServiceNext == StartRuntime \/ ConnectorAnswers \/ PoolStarted \/ RuntimeStarted \/ Shutdown \/ ShutdownProceeds
               \/ PoolError \/ Drained \/ DrainTimeout \/ PoolEnded \/ Dispose

RunNext(r) ==
    \/ Checkout(r) \/ TakeSlot(r) \/ Connected(r) \/ NoConnection(r)
    \/ Begin(r) \/ Begun(r) \/ BeginFails(r)
    \/ Query(r) \/ QuerySucceeds(r) \/ QueryFails(r) \/ Decline(r) \/ WorkDone(r)
    \/ Commit(r) \/ Committed(r) \/ CommitFails(r) \/ RunHooks(r)
    \/ Rollback(r) \/ RolledBack(r) \/ RollbackFails(r)
    \/ ServerCommits(r) \/ ServerRollsBack(r) \/ LinkBreaks(r)

\* Every run may end, and the runtime be closed.
Ended == runtime = "closed" /\ (\A r \in Runs : pc[r] = "done") /\ UNCHANGED vars

Next == ServiceNext \/ (\E r \in Runs : RunNext(r)) \/ Ended

Spec == Init /\ [][Next]_vars

\* What runs by itself: the code between two awaits, the timers of the drain and
\* of connecting, the end of the native pool, and the rejection of what awaits a
\* broken link.  Neither the connector's answer nor any of the server is promised,
\* the one to the pool's first query included: no timeout of the client bounds them.
ServiceFairness == WF_vars(RuntimeStarted) /\ WF_vars(ShutdownProceeds)
                   /\ WF_vars(Drained \/ DrainTimeout) /\ WF_vars(PoolEnded)

RunFairness(r) ==
    /\ WF_vars(TakeSlot(r) \/ Connected(r) \/ NoConnection(r))
    /\ WF_vars(Begin(r) \/ Query(r) \/ Decline(r) \/ WorkDone(r) \/ Commit(r) \/ RunHooks(r) \/ Rollback(r))
    /\ WF_vars(client[r].link = "down" /\ (BeginFails(r) \/ QueryFails(r) \/ CommitFails(r) \/ RollbackFails(r)))

FairSpec == Spec /\ ServiceFairness /\ \A r \in Runs : RunFairness(r)

----------------------------------------------------------------------------
(* Properties *)

Outcome == INSTANCE TransactionOutcome WITH
    fate <- [r \in Runs |-> IF db[r] \in {"committed", "rolled-back"} THEN db[r] ELSE "undecided"],
    told <- [r \in Runs |-> IF pc[r] = "hooks" THEN "committed" ELSE result[r]]

\* Whatever is lost, refused or cut by a drain, a caller that is told
\* "committed" (its hooks included) has its rows, and a run that is told "not
\* committed" never gets them, not even by a COMMIT still under way.
ImplementsOutcome == Outcome!Spec

\* A client that went back to the native pool in working order carries no open
\* transaction and no statement under way into its next checkout.
NoDirtyReuse == \A r \in Runs :
    client[r].conn = "released" /\ client[r].link = "up"
        => db[r] \notin {"open", "aborted"} /\ wire[r] = "nothing"

\* On every path, errors of errors included, a run that ended, or runs hooks,
\* has given its client back.
ConnectionsComeBack == \A r \in Runs : pc[r] \in {"hooks", "done"} => r \notin Tracked

\* A completion is in the database with all its components or not at all.
AtomicCompletion == \A r \in Runs :
    kind[r] = "owner" /\ db[r] = "committed" => stage[r] = Statements

\* A pool whose close() began is never ready again, so nothing is checked out of
\* it, though its start() assigns "ready" without looking.
ClosingIsFinal == closer # "none" => pool \in {"draining", "closed"}

\* A shutdown that awaits the connector or the pool's SELECT 1 no more closes the
\* runtime and ends every run under way, though the server be silent from then on:
\* the drain's timeout cuts what awaits it.
ShutdownEnds == (runtime = "closing" /\ startup \notin {"connector", "running"}) ~>
    (runtime = "closed" /\ \A r \in Runs : pc[r] \in {"idle", "done"})
=============================================================================
