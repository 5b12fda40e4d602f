# A verification development of NEXCUT AI (easyslice-ai)

This directory holds TLA+ models of the parts of NEXCUT AI whose correctness depends
on the order of events: several requests at once, a database and an object store
that share no transaction, instances that die, answers that get lost. The models are
checked with TLC on small instances. Every safety property that a passing run
checks, the five refinements included, is also proved with TLAPS, for every number
of requests and every policy constant. `PROJECT.json` lists components, runs,
mutants, the map from definitions to lines of `src/`, findings, hazards and
theorems.

Contents: 1. the system, 2. the modules, 3. runs and bounds, 4. fairness,
5. proofs, 6. findings and observations, 7. what is not modelled, 8. what could come next.

## 1. The system

A Next.js application (`app/`, `lib/`, `hooks/`, `components/`) on Vercel, a
Cloud Run worker (`worker/acquisition`), PostgreSQL on Cloud SQL
(`db/workflow/migrations`), and Cloud Storage buckets. A user admits a video
(upload, or import from YouTube), analyses it, and cuts it into clips.

| Component | State it keeps | Operations | What makes it correct |
|---|---|---|---|
| Acquisition worker (`lib/server/acquisitionWorker`) | one control object per acquisition id with a generation; artifacts in the hand-off bucket; lease and heartbeat of a running claim | `execute`, `lookup`, heartbeat, reconcile | one acquisition per id; results durable and true; a live owner keeps its claim; every call ends |
| Asset import (`lib/server/assetImport`, `app/api/v1/assets/import`) | a row per owner and idempotency key; job and media rows; objects | `claim`, replay, import, register, `complete`, `settle` | one acquisition per key; registered media has its object; no hidden orphan; replays agree with the first answer |
| Media admission (`app/api/media/admit`, `lib/client/durableMediaAdmission.ts`) | the uploaded object; job and media rows | `initiate`, upload, `finalize` | accepted media has rows and object, under repeated and overlapping finalizes |
| Production media runtime | pool of one connection per request | open, run the callback, end | the pool is ended and the request answered, whatever the callback met |
| Media ownership, job temp directories | jobs, media, exports; `/tmp/nexcut/jobs/<jobId>` | create, resolve, create temp, clean up | a request that is alone gets its own files; a clean-up that succeeds leaves nothing behind |
| Cut, multi-cut, burn, transcript, export routes | temp files, export rows and objects | one route each | an export that was given out can be fetched |
| Durable transactions and PostgreSQL driver (`productionWorkflowRuntime`), database runtime | state of runtime, pool and drain; a connection and a transaction adapter per checkout; after-commit hooks | start, check-out, begin, query, commit, rollback, release, discard, dispose, drain, shutdown | one true outcome per transaction, hooks only after a commit, no connection leaked or reused dirty, a shutdown that ends |
| Reconciliation runtime and stores | the request's row with lease, fence and revision; observations, resolutions, outbox events | claim, renew, observe, complete, look up, release, cancel, send to manual repair | the four tables agree; answers stay true; only the current owner decides |
| Generation workflow (`lib/workflows`) | execution of a stage graph | execute, advise, retry, cancel | an outcome that needs reconciliation is never overwritten |
| Workflow UI controller (`lib/workflowUi`, `hooks`) | UI state, command generation, idempotency keys, pause reasons, the session in the browser's storage | start, poll, query, cancel, recover, pause, resume, reset, dispose | late answers do not change a newer state; what is shown is saved and true; polls keep to their budget; nothing hangs |
| CSRF token authority (`lib/server/workflowApi/*Csrf*`, `app/api/v1/workflows/csrf`) | a row per token; an advisory lock per session | issue, validate, revoke a token or a session | the ceiling of active tokens; revocations are complete; the oldest gives way |
| Workflow API, entry, completion, multi-cut replay | rows of replay keys, completion states | reserve, complete, recover | single use; one completion |
| Providers, pipelines, polling | in-memory idempotency and pending stores | submit, poll, ingest | one ingestion per result |
| Clip algorithms, director, camera, planning | none | pure functions | agree with their definition |
| Identity, boundaries, routes to external models, pages, infrastructure | none shared | validate, project, present | - |

How they interact: the routes call the runtimes; the runtimes give a callback
a pool and a bucket; requests meet each other only in PostgreSQL rows, in the
objects of a bucket, and in the temp directory of a job. The workflow runtime
holds one pool for all its callers: the transaction manager, the replay runtime
and the completion owner compete for its connections, and its shutdown drains
them. The acquisition worker
is called over HTTP with an id of the caller's choice and meets other calls
only in the control object of that id.

What is hard: a database and a bucket are written without a common transaction; an
error of a write does not say whether it took effect; a lease is judged by another
machine's clock; a renewal is in flight while its owner finishes; a compensation
runs for something that did happen; an answer arrives after the user has gone on; a
drain cuts a transaction whose COMMIT is under way. The list with its lines is
`hazards` in `PROJECT.json`.

## 2. The modules

### AcquisitionIdempotency (with AcquisitionOutcome, AcquisitionIdempotencyProofs, MCAcquisition)

Models `persistentIdempotency.ts`, the operation that `core.ts` hands to it,
`gcsControlStore.ts` (conditional writes) and `gcsArtifactHandoffStore.ts`, for
one acquisition id and any number of `execute()` calls.

| Model | Code |
|---|---|
| `object`, `generation`, `lease` | the control object: its record, `x-goog-generation`, what is left until `leaseExpiresAt` |
| `limbo`, `Lose`, `Deliver` | a POST whose response was lost and that lands later, under its `ifGenerationMatch` |
| `pc` "create", "read", "poll", "reconcile" | the loop of `execute` at its awaits |
| `pc` "start" to "cleanup" | the operation of `core.ts` |
| `pc` "settle", "abandon", "fail" | `runClaim` after the operation: heartbeat awaited, then the terminal write or a rethrow |
| `beat`, `beatClock`, `BeatSend/Lands/Lost` | the heartbeat loop beside the operation |
| `held` | the generation that the claim, the heartbeat or the waiter holds |
| `aborted`, `leaseLost`, `Signalled` | the caller's signal, the `leaseLost` controller, `combineSignals` |
| `artifacts` | objects in the hand-off bucket |
| `answer` | what `execute` returns or throws |

An action is the code between two awaits; a request and its response are one
step, or two where something else may happen in between (renewals: `BeatSend`,
then `BeatLands` or `BeatLost`; a create: the flight time that the stored lease
has already lost). Kept out: `leaseOwner`, `fenceToken` and the timestamps,
which the code writes and never decides on; `read` answering "missing" after a
failed create, since nothing deletes control objects; `lookup`, which only
reads. Record validation appears as the set `Written`: no other record exists.

`AcquisitionOutcome` is the promise without leases, generations and retries:
claimed once, at most one artifact, one truthful outcome, answers that agree
with it. `ImplementsOutcome` is the refinement, with `claimed` mapped to a
record that exists and `outcome` to the record's result.

### AssetImport (with ImportOutcome, AssetImportProofs)

`POST /api/v1/assets/import` for one idempotency key: `claim`, replay, the
importer with its temp directory, acquisition, upload, registration and
compensation, `finalizeImportedAsset`, `settle`, and the end of the request's
pool. A statement or a transfer is one step which may take effect without its
acknowledgement. `claim` is one step because the row it inserts is locked until
its commit. The lock from `complete()` to COMMIT is kept (`RowLocked`): it is
the only one another request can see. `leaked` holds requests whose connection
is checked out for good; with a pool of one that ends in `Hang`.

`ImportOutcome` is the promise without processes, transactions and compensation: a
key bound to one source, one object kept for it, publishing and deciding in one
step, no definite failure that leaves an object, and answers that are true of the
key when they are given. `bound` is the row's source, `published` the registered
media, `outcome` the row's result once it is no longer acquiring.

### MediaAdmission (with MediaAdmissionProofs)

`finalize` of `POST /api/media/admit` for one upload, any number of times at
once. Every statement is a step, since READ COMMITTED shows each one another
state; an insert waits while another transaction holds the same key
uncommitted. The initial state is what `initiate` leaves behind.

### JobMedia (with JobMediaProofs), which composes MediaAdmission and the routes

Requests of `POST /api/cut` and `POST /api/burn-subtitle` for one job on one
server, beside the finalize requests that admit its media: it EXTENDS
MediaAdmission and interleaves its steps with those of `Users`. They meet in
`admitted` and `object`, which the routes read, and with each other in the job's
temp directories.

| Model | Code |
|---|---|
| `route`, `at`, `reply` | the route of a request, the await where it is, its answer |
| `dirs`, `source`, `subtitle`, `output` | `/tmp/nexcut/jobs/<jobId>` and the files in it, whose names do not depend on the request |
| `got` | what `readFile(output)` returned: the request's own video or not |
| `kept`, `listed` | the export's object; its row |
| `met` | history: who shared the directories with another request |
| `Die`, `litter` | the server's process dies with its requests, the disk stays; history: whether that, or a failing clean-up, was the last to leave something |

`Dockerfile` and `server.js` start one long-running process, so that requests of
a job do overlap. A request that has met another one may read anything. A
clean-up (`rm -rf`) may reject, because another request disturbs it or because the
disk does, and then has removed a part of what is there; the error replaces the
answer, since it stands in a `finally`. The process may die at any await, with a
file half written, half a clean-up, and an upload or an insert that arrives or not;
a request after its restart finds what is left. `NothingIsLeft` therefore speaks of
the time after a clean-up that succeeded: whatever earlier requests, failed clean-ups
and dead processes have left is gone with it, once nobody is at work. FFmpeg is taken
to end with the process.
`createJobTempDirectories` is called before the `try`: its failure skips the
clean-up (it leaves directories, not files). A client uses media only once it
was told that they are admitted (`durableMediaAdmission.ts`).

### PostgresTransactions (with TransactionOutcome, PostgresTransactionsProofs)

The PostgreSQL driver of the workflow runtime (pool adapter, connection and
transaction adapters, drain coordinator), the three kinds of callers, and the
production runtime that starts and shuts the pool. A run is one transaction of
one caller over one checked-out client.

| Model | Code |
|---|---|
| `runtime`, `startup` | `ProductionPostgresqlRuntime`: its state, where `start()` stands |
| `pool`, `closer` | the pool adapter's state, where its `close()` stands |
| `manager` | the transaction manager's `disposed` |
| `kind` | "manager": `runInTransaction` (V2); "replay": the multi-cut replay execution runtime over its bridge; "owner": the atomic mutation owner of a completion |
| `pc` | the await of a run; a place ending in "ing" waits for the server |
| `client` | connection state, transaction state, reuse classification, socket |
| `wire`, `db` | a statement the server has and has not decided; the transaction in the database |
| `stage` | statements that succeeded; the owner's stages |

The adapters are functions of the client record (`ConnRelease`, `ConnDiscard`,
`TxRelease`, `CleanUp`, ...), as the code calls them from many paths; the actions
are the code between two awaits. The server decides what is on the wire also
when the connection is gone. `TransactionOutcome` is what a caller is owed: one
fate, one answer, and an answer that stays true even when the fate comes later.

### WorkflowController (with WorkflowControllerProofs)

`referenceWorkflowController.ts` with its reducer and session store, and the
holder that disposes and re-creates it. Each command and each answer is one
action, since JavaScript runs a continuation at a time up to its next await.
`ui` is the state the user sees; `current` says whether the state's generation
is the controller's; a call in `calls` is `fresh` while its token is the
generation and `live` while its instance is not disposed; `intent` and `drain`
are `pendingIntent` and the queued microtask; `key` is the idempotency key of
start; `session` is what a reload finds; `server` is the API. `CancelsOutlived`
says whether a reset or an unmount may overtake a cancel in flight: the code
allows it, the view's `canReset` does not; with it, finding 4.

Merged, because the properties do not tell them apart: pending-upload and
pending-generation; completed, degraded, partial, and failed with a reference.

### Reconciliation (with ReconciliationOutcome, ReconciliationProofs, MCReconciliation)

One request: its row with state, revision, fence, owner and lease; the
observation, resolution and outbox rows by draft identity; workers that claim,
renew, release, observe, and complete it with
`postgresqlReconciliationAtomicExecutorV2.ts`. `wrote` is what a worker's
transaction has written and keeps locked: the same insert or an update waits,
a claim skips the row. `tx` "sent" is a COMMIT without an answer, which may
still land. A worker keeps the record it claimed (`record`), so that it acts on
revisions which heartbeats, cancellations and other workers have outdated.

A completion has one of five results. `NextState` is where `resolveObservation`
moves the request with it: "committed" and "not-committed" resolve it, "corrupted"
and "still-unknown" (the source is unavailable and the policy exhausted) end it for a
person to look at, each with a resolution and an event, and "unavailable" lets it
wait, without either. These are the `Decided` states. `Close` ends a request without
a resolution (`markCancelled`, `markManualRepairRequired`); the two together are
`Terminal`. `Says` is what a draft records: an observation of "still-unknown" says
"unavailable", since only the decision knows of the policy. `markResolved`,
`markStillUnknown` and `markCorrupted`, which would decide a request without a
resolution, are called by nobody and left out.

The stores are composed with the runtime nowhere in `src/`; the model takes the most
general caller that their interfaces allow.

`ReconciliationOutcome` is what the workflow that waits for the request is owed: a
claim handed out under ever larger tokens, a result (if only that a person must
look) that only its holder decides and that appears together with its one event, a
decided or closed request that stays so, and workers that are told the request's own
result. Leases, revisions, four tables, transactions and retries are below it; a
renewal or the start of an observation is a stutter, a COMMIT that lands late is the
step at which it lands.

### CsrfAuthority (with CsrfTokenBook, CsrfAuthorityProofs, MCCsrf)

`postgresqlProductionWorkflowApiCsrfAuthority.ts` for one session: any number
of `issueWithAtomicCeiling`, `revokeToken` and `revokeSession` calls, with the
material that the bootstrap route creates and the CHECK of migration V000007.

| Model | Code |
|---|---|
| `now`, `begun` | the database's clock; `transaction_timestamp()`, fixed by BEGIN before the lock is granted |
| `issuedAt`, `ExpiresAt` | the instance's clock at the route; the pure expiry calculation |
| `table`, `draft` | `lifecycle_state` per token; the same rows as the lock's holder sees them |
| `lock` | `pg_advisory_xact_lock`, held until the transaction ends |
| `pc` "lock", "work", "commit", "orphan", "done" | the awaits of `issueWithAtomicCeiling` and `revoke`; a COMMIT that PostgreSQL has and whose caller is gone |
| `owed` | history: what callers had been given when a revocation began |

The statements of a transaction are one step, since nobody who takes the lock
can look in between. Checkout, BEGIN and the reading of the instance's clock
are one step too: `Skew` stands for the difference of the clocks and for the
time between them. `validate()` is a single SELECT and is not an action.

`CsrfTokenBook` is the authority as a session's callers see it: a book of tokens that
changes in single steps, the ends of the calls. An issue enters its token and strikes
at most one, a revocation strikes all of its scope, expired or not; the answer is true
of the book at that step, or "unavailable" and possibly earlier. `over` holds the
calls whose transaction has ended.

## 3. Runs and bounds

| Run | Instance | States | Shows |
|---|---|---|---|
| acquisition_safety | 2 calls, 2 fingerprints, lease 2, heartbeat 1, skew 1, delay 3, generation 3, 2 in limbo | 0.2 million | five safety properties and the refinement |
| acquisition_lease | 2 calls, 1 fingerprint, ticks of 15 s: lease 6, heartbeat 2, delay 1, skew 0, generation 4, 2 in limbo | 0.95 million | `LiveOwnerKeepsClaim`, `EveryCallEnds` |
| asset_import | 3 requests, 2 sources | 31 thousand | four safety properties, the refinement, `EveryRequestEnds` |
| asset_import_cleanup | 1 request | - | finding 1 |
| job_media | 2 finalize requests, 2 requests of either route, dying at any time | 2.4 million | `AcceptedIsAdmitted`, `EveryFinalizeEnds`; served exports, own videos, nothing left by a clean-up that succeeds |
| media_admission_compensation | 1 request | - | finding 2 |
| csrf_authority | 4 issues, 1 revocation, ceiling 2, lifetime 2, session end 2, skew 1, time 1 | 4.4 million | the ceiling, complete revocations, fair replacement, the refinement |
| csrf_issue | 5 issues, ceiling 4, skew 0, time 1, no failures | - | finding 3 |
| postgres_transactions | 2 runs of any kind, 2 statements, 1 connection | 0.77 million | four safety properties, the refinement, `ShutdownEnds` |
| reconciliation | 2 workers, 2 drafts, 5 results, revision 4 | 2.2 million | agreement of the four tables, final answers, `DecidedOnCurrent`, the refinement |
| workflow_controller | 2 workflows, 1 reason to pause, 2 poll attempts, 1 reload, 2 calls in flight | 0.93 million | four safety properties, `ReconcileHappens`, `BusyEnds` |
| workflow_controller_outlived | the same, a reset or unmount may overtake a cancel | - | finding 4 |

Why these bounds are enough. *Calls*: at most one call owns, and every hazard
of the store is between the owner and one other call or one late write; the
proofs cover any number. *Fingerprints*: a second one gives every conflict.
*MaxGeneration* bounds renewals only (claim and terminal write need one
generation each): at 3 there is a renewal before and after a lost one. When it
is reached, no renewal is sent and the lease may run out, which adds the
behaviour of a stalled owner and hides nothing. *MaxLimbo* = 2 allows a lost
renewal and a lost terminal write, or two lost creates, at the same time.
*MaxDelay*: in the safety run it exceeds the lease, so that any lateness occurs;
in acquisition_lease it is one tick of 15 s, and the property says what the
code's constants buy. *ClockSkew* is 0 there, because a reader whose clock is
ahead by the slack can close a live owner's record; the safety run has 1 and
shows that this harms no result. *MaxGeneration* is 4 in acquisition_lease: two
renewals, which is what an owner at the end of its lease has sent.

*Ceiling* 2 with four issues reaches the ceiling, lets a token give way, and
leaves one more issue that counts with an old timestamp more tokens than the
ceiling; *lifetime* 2 and *skew* 1 give tokens of different age that are active
together, tokens that expire between BEGIN and COMMIT, and a session that ends.
The proofs cover every value of these constants.

*job_media*: two finalize requests give the wait for another's insert, also of an
instance that died; two users of the media give every overlap of a working
request with one that comes, cleans up, fails or dies. *postgres_transactions*: one
connection makes the second run queue, so that it meets what the first left
behind; with two statements the owner can fail between its stages, and a drain
can come before, between and after them. *workflow_controller*: a second workflow
is one that replaces an abandoned one; two calls in flight are a cancel and what
it preempts, or a late answer and a new command; one reload comes at any point.
*MaxAttempts* 2 reaches the budget after a poll that counted. *reconciliation*:
revision 4 lets both workers claim, one of them after the other's lease ran out,
with a heartbeat or a release in between; two drafts are what two workers, or one
before and after its restart, submit. The proofs cover all of these constants.

`AcquisitionIdempotency` has symmetric calls and fingerprints; symmetry is used
in the runs without liveness only; the issues of `CsrfAuthority` are symmetric
too, as are workers and drafts. Deadlock is checked in the acquisition runs
(`Tick` is always possible), in postgres_transactions and in workflow_controller,
and switched off elsewhere, where the system stops when all requests have ended.

Every property has a mutant: an operator next to the definition it replaces
(comment "Mutant:"), which changes the code as a plausible bug would, and with
which TLC refutes the property under the run's own configuration.

## 4. Fairness

`AcquisitionIdempotency`: weak fairness of each call's own steps, of its
heartbeat, and of time. Every await of the code is settled: timers fire, child
processes have timeouts, `fetch` answers or fails. Nothing is assumed of
aborts, crashes or late writes. `AssetImport` and `MediaAdmission`: weak
fairness of each request's steps, since yt-dlp, queries (10 s) and connections
(10 s) have timeouts; none of an instance's death. `EveryFinalizeEnds` does not
need the statement timeout: the waiting insert goes on because the transaction
it waits for ends or dies. `JobMedia` assumes nothing of the requests that use
the media, whose FFmpeg has no timeout.

`PostgresTransactions`: what runs by itself is fair: the code between two awaits,
the drain's timer and the connection timeout, the end of the native pool, and the
rejection of what awaits a broken link. No answer of the server over a link that is
up is assumed, and none of the connector. A startup awaits both, without a timeout
of the client (`postgresqlConnectionPool.ts:131-136`), and a shutdown awaits the
startup; so `ShutdownEnds` speaks of a shutdown from the moment at which the startup
waits for neither (any more): from then on it ends although the server be silent for
good, because the drain's timeout cuts what waits for it. `WorkflowController`:
every call to the API ends, since the fetch client has a timeout, and so does every
microtask; nothing is assumed of the user, the network or the API.

No liveness is stated for `CsrfAuthority`, whose lock belongs to the transaction,
which PostgreSQL ends with its connection at the latest; nor for
`Reconciliation`, whose workers nothing in `src/` schedules.

## 5. Proofs

| Module | Theorems |
|---|---|
| AcquisitionIdempotencyProofs | the safety properties of both runs, `TerminalIsFinal`, and the refinement of AcquisitionOutcome |
| AssetImportProofs | the safety properties of asset_import, `DecidedRowIsFinal`, and the refinement of ImportOutcome |
| MediaAdmissionProofs | type, `AcceptedIsAdmitted` |
| JobMediaProofs | type, the three properties of the routes (with a process that may die), and that the composition leaves MediaAdmission as it is |
| CsrfAuthorityProofs | the properties of csrf_authority, `AnswersAreDurable`, and the refinement of CsrfTokenBook |
| PostgresTransactionsProofs | the safety properties of postgres_transactions and the refinement of TransactionOutcome |
| WorkflowControllerProofs | type and `ShownIsTrue` in every case; `NoResurrection`, `ShownIsSaved` and `PollsBounded` where `CancelsOutlived` is false |
| ReconciliationProofs | the properties of reconciliation, `NoCircularWait`, and the refinement of ReconciliationOutcome |

Each also proves that the state has its type, so that the runs need not check
it. `TerminalIsFinal`, `DecidedRowIsFinal` and the `AnswersAreDurable` of the CSRF
authority are not run by themselves either: each says in terms of the rows what
the refinement of the same run says in terms of the promise. The theorems hold for
arbitrary sets of calls, fingerprints, requests, sources, runs, workflows, workers
and drafts (finite sets of issues for the ceiling), for every lease policy that
the constructor accepts, every ceiling, lifetime and skew, every capacity of the
pool and every poll budget. The only assumptions are the named ones of the
modules: the types of the constants, values that are told apart (`NoneIsNothing`,
`SourcesAreDigests`), and, in `AcquisitionIdempotency`, the constructor's check
(`LeasePolicy`). Two hypotheses stand in theorems: `OnTime` in `OwnerKeepsClaim`
(below), and `~CancelsOutlived` in three properties of the workflow controller,
without which the first is finding 4 and TLC refutes the two others as well.

The invariants are not inductive as they stand: that a result is durable
depends on no write in limbo being able to land, on the owner being the only
one past the claim, and on what each place of the program has already done.
Every inductive invariant is a conjunction of named parts, each proved with the
help of those it needs, so that a step's proof only meets what it can disturb.

*Acquisition.*
1. `Typed`: types, and which fields go together (a terminal record has the
   state that belongs to its result).
2. `Claimed`: generation 0 means no record and no owner; at most one call has
   an operation; once there is a record, no create can land.
3. `Fenced`: a generation that anyone holds, or that a write in limbo expects,
   is at most the current one; whoever expects the current one is entitled to.
   Terminal records therefore stay.
4. `Faithful`: what a call was answered is what the record says, by place.
5. `Truthful`: which artifacts exist, by place and result of the operation.

The refinement follows from the invariant and a case per action, each mapped
to an abstract step or a stutter.

6. `Kept`, under `OnTime`: LeaseTicks > HeartbeatTicks + 3 * MaxDelay + ClockSkew.
   While an owner's heartbeat is alive it holds the current generation of a running
   record, no reconciler and no write in limbo expects that generation, and
   (`Renewable`) the lease that is left and the heartbeat's clock add up to enough for
   the renewal to land. Three delays, because the claim, the timer and the renewal may
   each be late by one. So `OwnerKeepsClaim`: a reader finds the lease expired only
   when the owner's heartbeat has stopped. The bound is tight: TLC refutes
   `LiveOwnerKeepsClaim` for a lease one tick shorter. For the code's 90 s lease and 30 s heartbeat
   it means that with exact clocks each of the three may take just under 20 s.
   `OnTime` is a hypothesis and not an assumption of the module, since nothing in the
   code enforces it: the other theorems hold without.

*Asset import.* `Typed` (with which results and media belong to which row state),
`Owned` (one request past the claim), `Progress` (what has been done at each
place of that request), `Accounted` (row, objects, registrations and answers).
The refinement of `ImportOutcome` adds `Unanswered` (nobody has an answer before the
end) and `RowReading` (what the abstract values say about the row). The step that
matters is `Commit`: the media row, the key's row and the object agree at once, and
the compensation runs only where `Progress` says that nothing was registered.

*Media admission and its use.* `AcceptsTheAdmitted`: who is about to accept without
a transaction of its own has read both committed rows, which stay. `UInv`: `Alone`
(who never met anyone is alone while at work: the active grow only in
`MakeDirectories`, which records the meeting), `OwnFiles` (so its files are what it
wrote, place by place), `Exported` and `CutsExport` (upload and row behind a served
cut), `AnswersEnd` (what is answered is not touched again), `Clean`.

*CSRF authority.* `Locked` (who is past the lock holds it, and only the holder's
view differs from the table), `Recorded` (rows and answers by place), `Bounded`
(the ceiling for the table *and* for what a COMMIT would make of it: the count
was taken with an earlier timestamp, of which the tokens active now are a
subset), `Cleared` (what a committing revocation has done), `Replaced` (what a
committing issue does to others). The refinement of `CsrfTokenBook` adds `Effective`
(what the COMMIT of a transaction that has written will do, said of the *current*
table: the session's lock keeps the table as it was when the draft was made) and
`Told` (only a call whose COMMIT got lost has an answer before its end). A COMMIT,
acknowledged or late, is then one step of the book, and every other end has no effect.

*Transactions.* `AllPlaced` ties the place of a run to the states of its
adapters: what its client can be there, and that a link which is up belongs to a
client that is sound. `AllStored` ties place, wire, database and answer: what the
server may still decide, and what has been said about it. `Closing` ties runtime,
startup and closer: `close()` is reached only after `start()` has come to its end,
which is what `ClosingIsFinal` rests on.

*Workflow controller.* `Named` (a state names a workflow exactly when it is about
one, and never an abandoned one), `Truthful` (calls in flight are about workflows
the API knows, and their answers stay true), `Commanded` (which commands belong to
which state; a stale answer has no token), `Counted` (polls that were sent are
counted in the state, in the session, or in the call that would restore them).
`Commanded` is where a cancel that is outlived does harm: it is a call without
token whose answer counts. What does not rest on it is an invariant of its own,
`Honest` (`Truthful`, and what is shown or saved is about a workflow the API knows):
so `ShownIsTrue` is proved for the code as it is, resets and unmounts during a cancel
included. Finding 4 thus brings back a workflow, but never an untrue status.

*Reconciliation.* `Locked` (who has moved the row, uncommitted, is still the
authorized owner at the revision it saw, since everybody else waits for the row),
`OneMoves` and `OneInserts` (one holder of the row, one of a draft's identity),
`Drafted` (the rows behind each place are there with this worker's content),
`Placed` and `Fresh`. For the refinement of `ReconciliationOutcome` the invariant is
joined by `Undecided` (a row that is not decided has no result). What a step does to
the row and what it says are proved apart: `ApplyVisible` and `StatementVisible` map
every write of the row to a grant, a release, a decision with its event or a closing
without one; `ToldStep` takes from `CommittedIsFinal` that whoever is told a result is
told the request's, and from `OwnAnswer` that nobody else's answer changes.
`NoCircularWait` says that among any workers one waits for none of the others: what
a transaction keeps locked lies, in the order that the executor's statements and the
claim have in common (`Rank`), before what it waits for (`InOrder`). Writers of one
request therefore never deadlock in the database, whatever their number.

Only model-checked: the liveness properties `EveryCallEnds`, `EveryRequestEnds`,
`EveryFinalizeEnds`, `ShutdownEnds`, `ReconcileHappens` and `BusyEnds`, since
fairness and ENABLED are out of the prover's reach; and the counterexamples of
section 6, which are runs. The abstract specifications have no theorems of their own.

## 6. Findings and observations

1. `CallbackScopedCleanup` fails. When removing the temp directory fails after
   an import was registered, the transaction's client is never released
   (`directYouTubeImporter.ts:39`), the pool of one connection cannot serve
   `settle()`, and `pool.end()` waits for it. (That `end()` waits for clients
   that are checked out is the behaviour of pg-pool, outside `src/`.)
2. `AdmittedKeepsObject` fails. A lost acknowledgement of the COMMIT of a
   finalize leads to the deletion of an object whose media row is committed
   (`app/api/media/admit/route.ts:92`). With more requests the same happens
   when a repeated finalize of an admitted upload fails in a statement, or sees
   the job and media rows in different states.
3. `IssueSucceeds` fails. An issue whose BEGIN precedes the issues of all tokens
   that are active when it gets the lock cannot revoke the oldest of them: its
   `revoked_at` would precede `issued_at`, which the table's CHECK forbids, and
   the call is answered "unavailable" (a retry succeeds). The same early
   timestamp makes an issue count expired tokens and be answered "malformed",
   and makes `revokeSession` fail as a whole when one token of the session is
   younger than its BEGIN. The token's `issued_at` comes from the instance, so
   a clock that is ahead has the same effect.
4. `NoResurrection` fails when a reset or an unmount overtakes a cancel in flight.
   The continuation of `cancel` (`referenceWorkflowController.ts:69`) compares
   nothing on the path of an answer that is not "cancelled": it shows the
   abandoned workflow again and saves its session. Without that overtaking, which
   the view prevents and the code does not, the property holds and is proved.

Observations that no run is about.

*Acquisition and import.* A row whose owner died stays `acquiring` for good; a
first answer of 504 (timeout) is replayed as 422; a lost COMMIT is answered 202
and replayed as 200; a client that disconnects ends its acquisition id as failed;
a heartbeat whose answer is lost turns a successful acquisition into one that
needs reconciliation; a record of a dead owner stays `running` until somebody
calls `execute` again.

*Requests of one job.* Two that overlap on one server can be answered with each
other's or a damaged video (the names `source.mp4`, `cut.mp4`, `subtitled.mp4` and
`subtitle.*` are the same for all): `ServedIsRequested` is stated for a request
that has met nobody, and fails for the others. A clean-up can remove the files of
a request at work, and its own error replaces its answer. An export insert that
took effect unacknowledged leaves a row whose object was deleted.

*Transactions.* A COMMIT of an aborted transaction, which PostgreSQL answers with
the tag ROLLBACK, would be taken for a commit: `commit()` does not look at the
command; it takes a manager callback that sends a statement without awaiting it.
A link lost in a query is mostly classified as an unknown failure, not as a lost
connection, and its client goes through a ROLLBACK that fails before it is
discarded. A shutdown during the startup waits for the startup's `SELECT 1`
(`postgresqlConnectionPool.ts:136`), however long the server is silent. `start()`
assigns "ready" without looking at the pool's state; only the
runtime's waiting keeps a close from coming in between.

*Workflow controller.* `keys.resultQuery` is kept after a network failure and used
for another reference; `keys.start` is used for another input after an aborted
start; a failed start deletes an earlier workflow's session, and so does any
error answer, a retryable one too; a pause while starting or cancelling is not
recorded, and a reset takes the browser for online and visible.

*Reconciliation.* The lookup of a lost COMMIT never answers "not-committed", as the
request's row is always there, whereas STORE_SCHEMA_ALIGNMENT_CONTRACT_V1.md (line
593) wants it when nothing of the draft is; without a resolution and an event it
counts all rows of the tables. The executor passes no escalation class
(`postgresqlReconciliationAtomicExecutorV2.ts:42`). For "corrupted" and
"still-unknown" the table's CHECK (`outcome_ck`, V000002:144-152) then compares
NULL, is NULL itself, and PostgreSQL accepts it: requests end in these states, with
resolution and event, but without an escalation class, which
POSTGRESQL_RECONCILIATION_SCHEMA_FOUNDATION_CONTRACT_V1.md (lines 732-734) requires
of "still-unknown" and `markCorrupted` sets. No property speaks of that column. A
heartbeat makes the completion of its own worker "stale-revision".
`observation_count` is never incremented, so a second observation of a request
(sequence = count + 1) conflicts with the first. The in-memory lease manager starts
the fence anew after a release.

## 7. Not modelled

`components` in `PROJECT.json` names every part with its reason. Most of the
repository's lines are pages, pure projections, validations, statement catalogues
and codecs, deterministic scoring and planning of clips, scenes and cameras,
calls to external models, credentials, telemetry and infrastructure: they keep no
state that several steps or actors share, and nothing about their order can go
wrong. Of the parts with state, these are left out:

- the generation workflow engine (`lib/workflows`), whose executions run alone in
  memory: stage graph, retries and cancellation are a candidate for a model;
- reservation, completion and recovery of multi-cut replay keys, and the
  persistence of completions, beyond the transactions they run in;
- pending polls, uploads and operation pipelines with their in-memory stores;
- multi-cut, the durable transcript and audio-energy, which share the job's temp
  directories as `JobMedia` describes for cut and burn;
- outbox delivery, manual repairs, and the in-memory lease manager of the
  reconciliation runtime; the V1 transaction manager and executor;
- the child processes' own time limits and output bounds.

In the modelled parts, data is reduced to what the properties tell apart; each
module's header and section 2 say how.

## 8. What could come next

In order of value: the generation workflow engine (a stage graph with retry,
cancellation and the outcome that must not be overwritten); the multi-cut replay
lifecycle over `PostgresTransactions` (single use of a replay key under lost
COMMITs); outbox delivery after `Reconciliation`; pending polls and uploads; the
clip portfolio as operators checked against a reference definition. The number of
runs stays at one per question.
