---------------------------- MODULE AssetImport ----------------------------
(***************************************************************************)
(* POST /api/v1/assets/import: requests that carry ONE idempotency key of  *)
(* one owner.  The request whose claim inserts the row of                  *)
(* workflow.asset_import_requests fetches the video, stores the object,    *)
(* and registers job, media and the terminal row in one transaction; the   *)
(* others replay the row.                                                  *)
(*                                                                         *)
(* The job and media ids are drawn by the claiming request, so a media row *)
(* and an object are named by that request.  A database statement is one   *)
(* step; one whose acknowledgement is lost may have taken effect.  The     *)
(* only lock that is held between steps is that of the completed row from  *)
(* complete() until COMMIT.                                                *)
(***************************************************************************)
EXTENDS FiniteSets

CONSTANTS
    Requests,   \* invocations of the route with this key
    Sources     \* canonical sources, told apart by their fingerprint

\* A fingerprint is a digest, never the mark of a key without a row.
ASSUME SourcesAreDigests == "none" \notin Sources

VARIABLES
    row,        \* the row of the key; its state is "absent" before a claim
    registered, \* requests whose job and media rows are committed
    objects,    \* requests whose object is in the bucket
    acquirers,  \* requests that ever started an acquisition
    source,     \* the source each request asks for
    pc,         \* where a request stands
    outcome,    \* the error class of its acquisition, or "none"
    leaked,     \* requests that lost their checked-out connection
    answer      \* what the caller gets

vars == <<row, registered, objects, acquirers, source, pc, outcome, leaked, answer>>

\* What the caught error of an acquisition is: three kinds of
\* YtDlpProcessFailure, and anything else.
Failures == {"timeout", "acquisition_retryable", "acquisition_final", "other"}

Decisive == {"succeeded", "timeout", "acquisition_retryable", "acquisition_final"}
Answers  == Decisive \cup {"reconciliation_required", "in_progress", "conflict", "internal_failure"}

RowStates == {"absent", "acquiring", "succeeded", "failed_retryable", "failed_final",
              "reconciliation_required"}

Rows == [state : RowStates, source : Sources \cup {"none"},
         result : Decisive \cup {"in_progress", "reconciliation_required"},
         media : Requests \cup {"none"}]

Absent == [state |-> "absent", source |-> "none", result |-> "in_progress", media |-> "none"]

AcquiringRow(s) == [state |-> "acquiring", source |-> s, result |-> "in_progress", media |-> "none"]

SucceededRow(s, r) == [state |-> "succeeded", source |-> s, result |-> "succeeded", media |-> r]

\* Mutant: an error of unknown effect is stored as a retryable failure.
OtherIsRetryable(s, o) ==
    [state |-> IF o \in {"acquisition_retryable", "other"} THEN "failed_retryable" ELSE "failed_final",
     source |-> s,
     result |-> IF o = "other" THEN "acquisition_retryable" ELSE o,
     media |-> "none"]

\* The terminal row of a failed acquisition, and what it is read back as.
FailedRow(s, o) ==
    [state |-> IF o = "acquisition_retryable" THEN "failed_retryable"
               ELSE IF o \in {"timeout", "acquisition_final"} THEN "failed_final"
               ELSE "reconciliation_required",
     source |-> s,
     result |-> IF o = "other" THEN "reconciliation_required" ELSE o,
     media |-> "none"]

Working == {"prepare", "fetch", "upload", "register", "undo", "tidy",
            "complete", "compensate", "commit", "settle"}
Ended   == {"done", "crashed"}

TypeOK ==
    /\ row \in Rows
    /\ registered \subseteq Requests
    /\ objects \subseteq Requests
    /\ acquirers \subseteq Requests
    /\ source \in [Requests -> Sources]
    /\ pc \in [Requests -> {"claim", "hung"} \cup Working \cup Ended]
    /\ outcome \in [Requests -> Failures \cup {"none"}]
    /\ leaked \subseteq Requests
    /\ answer \in [Requests -> Answers \cup {"pending"}]

Init ==
    /\ row = Absent
    /\ registered = {} /\ objects = {} /\ acquirers = {} /\ leaked = {}
    /\ source \in [Requests -> Sources]
    /\ pc = [r \in Requests |-> "claim"]
    /\ outcome = [r \in Requests |-> "none"]
    /\ answer = [r \in Requests |-> "pending"]

Goto(r, place) == pc' = [pc EXCEPT ![r] = place]

CameTo(r, o) == outcome' = [outcome EXCEPT ![r] = o]

\* The runtime ends its pool and closes the connector after the operation; a
\* failure of that replaces the answer by an internal one.
Reply(r, a) ==
    /\ Goto(r, "done")
    /\ \E sent \in {a, "internal_failure"} : answer' = [answer EXCEPT ![r] = sent]

----------------------------------------------------------------------------
(* claim() and the replay of an existing row *)

RowLocked == \E r \in Requests : pc[r] = "commit"

\* Mutant: a retryable failure is claimed and acquired again.
ClaimRetryable(r) ==
    /\ pc[r] = "claim"
    /\ \/ /\ row.state \in {"absent", "failed_retryable"}
          /\ row' = AcquiringRow(source[r])
          /\ Goto(r, "prepare")
          /\ UNCHANGED answer
       \/ Reply(r, "internal_failure") /\ UNCHANGED row
    /\ UNCHANGED <<registered, objects, acquirers, source, outcome, leaked>>

\* INSERT ... ON CONFLICT DO NOTHING, committed with or without our knowing.
Claim(r) ==
    /\ pc[r] = "claim"
    /\ \/ /\ row = Absent
          /\ row' = AcquiringRow(source[r])
          /\ \/ Goto(r, "prepare") /\ UNCHANGED answer
             \/ Reply(r, "internal_failure")
       \/ Reply(r, "internal_failure") /\ UNCHANGED row
    /\ UNCHANGED <<registered, objects, acquirers, source, outcome, leaked>>

\* Mutant: the fingerprint of the row is not compared.
ReplayAnySource(r) ==
    /\ pc[r] = "claim" /\ row # Absent /\ ~RowLocked
    /\ Reply(r, row.result)
    /\ UNCHANGED <<row, registered, objects, acquirers, source, outcome, leaked>>

\* SELECT ... FOR UPDATE, and projectExistingAssetImport.
Replay(r) ==
    /\ pc[r] = "claim" /\ row # Absent /\ ~RowLocked
    /\ Reply(r, IF row.source = source[r] THEN row.result ELSE "conflict")
    /\ UNCHANGED <<row, registered, objects, acquirers, source, outcome, leaked>>

----------------------------------------------------------------------------
(* importYouTubeDirect() *)

\* createJobTempDirectories stands before the try block.
Prepare(r) ==
    /\ pc[r] = "prepare"
    /\ \/ Goto(r, "fetch") /\ acquirers' = acquirers \cup {r} /\ UNCHANGED outcome
       \/ Goto(r, "settle") /\ CameTo(r, "other") /\ UNCHANGED acquirers
    /\ UNCHANGED <<row, registered, objects, source, leaked, answer>>

\* The version probe, yt-dlp and the inspection of the file.
Fetch(r) ==
    /\ pc[r] = "fetch"
    /\ \/ Goto(r, "upload") /\ UNCHANGED outcome
       \/ Goto(r, "tidy") /\ \E o \in Failures : CameTo(r, o)
    /\ UNCHANGED <<row, registered, objects, acquirers, source, leaked, answer>>

\* An upload that fails or is aborted may have stored the object.
Upload(r) ==
    /\ pc[r] = "upload"
    /\ \/ Goto(r, "register") /\ objects' = objects \cup {r} /\ UNCHANGED outcome
       \/ Goto(r, "undo") /\ CameTo(r, "other") /\ objects' \in {objects, objects \cup {r}}
    /\ UNCHANGED <<row, registered, acquirers, source, leaked, answer>>

\* BEGIN and the two inserts; on an error ROLLBACK and release.
Register(r) ==
    /\ pc[r] = "register"
    /\ \/ Goto(r, "tidy") /\ UNCHANGED outcome
       \/ Goto(r, "undo") /\ CameTo(r, "other")
    /\ UNCHANGED <<row, registered, objects, acquirers, source, leaked, answer>>

\* The catch block deletes what was uploaded; a failing delete is ignored.
Undo(r) ==
    /\ pc[r] = "undo"
    /\ Goto(r, "tidy")
    /\ objects' \in {objects, objects \ {r}}
    /\ UNCHANGED <<row, registered, acquirers, source, outcome, leaked, answer>>

\* The finally block.  Its error replaces the outcome, and when the import had
\* succeeded nobody is left who would release the transaction's connection.
Tidy(r) ==
    /\ pc[r] = "tidy"
    /\ \/ /\ Goto(r, IF outcome[r] = "none" THEN "complete" ELSE "settle")
          /\ UNCHANGED <<outcome, leaked>>
       \/ /\ Goto(r, "settle")
          /\ CameTo(r, "other")
          /\ leaked' = IF outcome[r] = "none" THEN leaked \cup {r} ELSE leaked
    /\ UNCHANGED <<row, registered, objects, acquirers, source, answer>>

----------------------------------------------------------------------------
(* finalizeImportedAsset() and settle() *)

\* complete(): the update of the row, inside the importer's transaction.
Complete(r) ==
    /\ pc[r] = "complete"
    /\ \/ row.state = "acquiring" /\ Goto(r, "commit") /\ UNCHANGED outcome
       \/ Goto(r, "compensate") /\ CameTo(r, "other")
    /\ UNCHANGED <<row, registered, objects, acquirers, source, leaked, answer>>

\* ROLLBACK, then the object is deleted: no commit was attempted.
Compensate(r) ==
    /\ pc[r] = "compensate"
    /\ Goto(r, "settle")
    /\ objects' \in {objects, objects \ {r}}
    /\ UNCHANGED <<row, registered, acquirers, source, outcome, leaked, answer>>

Committed(r) ==
    /\ registered' = registered \cup {r}
    /\ row' = SucceededRow(source[r], r)

\* Mutant: a COMMIT that fails is compensated like everything before it.
CommitCompensates(r) ==
    /\ pc[r] = "commit"
    /\ \/ Committed(r) /\ Reply(r, "succeeded") /\ UNCHANGED outcome
       \/ /\ Committed(r) \/ UNCHANGED <<row, registered>>
          /\ CameTo(r, "other")
          /\ Goto(r, "compensate")
          /\ UNCHANGED answer
    /\ UNCHANGED <<objects, acquirers, source, leaked>>

\* COMMIT: acknowledged, or an error that leaves open whether it took effect.
Commit(r) ==
    /\ pc[r] = "commit"
    /\ \/ Committed(r) /\ Reply(r, "succeeded") /\ UNCHANGED outcome
       \/ /\ Committed(r) \/ UNCHANGED <<row, registered>>
          /\ CameTo(r, "other")
          /\ Goto(r, "settle")
          /\ UNCHANGED answer
    /\ UNCHANGED <<objects, acquirers, source, leaked>>

\* Mutant: the failure is returned although it could not be stored.
SettleAnswersAnyway(r) ==
    /\ pc[r] = "settle" /\ r \notin leaked
    /\ row' = row \/ (row.state = "acquiring" /\ row' = FailedRow(source[r], outcome[r]))
    /\ Reply(r, FailedRow(source[r], outcome[r]).result)
    /\ UNCHANGED <<registered, objects, acquirers, source, outcome, leaked>>

\* Mutant: the update is repeated until it has changed the row.
SettleUntilStored(r) ==
    /\ pc[r] = "settle" /\ r \notin leaked
    /\ row.state = "acquiring" /\ row' = FailedRow(source[r], outcome[r])
    /\ Reply(r, row'.result)
    /\ UNCHANGED <<registered, objects, acquirers, source, outcome, leaked>>

\* settle(): stored and acknowledged, or an error before or after it took
\* effect, which includes a row that is not acquiring any more.
Settle(r) ==
    LET failed == FailedRow(source[r], outcome[r])
    IN  /\ pc[r] = "settle" /\ r \notin leaked
        /\ \/ /\ row.state = "acquiring" /\ row' = failed
              /\ \E a \in {failed.result, "reconciliation_required"} : Reply(r, a)
           \/ Reply(r, "reconciliation_required") /\ UNCHANGED row
        /\ UNCHANGED <<registered, objects, acquirers, source, outcome, leaked>>

\* The pool has one connection, and it is the leaked one: settle() gives up
\* on a connection, and ending the pool waits for the leaked one for good.
Hang(r) ==
    /\ pc[r] = "settle" /\ r \in leaked
    /\ Goto(r, "hung")
    /\ UNCHANGED <<row, registered, objects, acquirers, source, outcome, leaked, answer>>

----------------------------------------------------------------------------
\* The instance is killed: an open transaction is rolled back, the call that
\* was in flight may have taken effect.
Crash(r) ==
    /\ pc[r] \notin Ended
    /\ Goto(r, "crashed")
    /\ \/ UNCHANGED <<row, registered, objects>>
       \/ /\ pc[r] = "claim" /\ row = Absent
          /\ row' = AcquiringRow(source[r])
          /\ UNCHANGED <<registered, objects>>
       \/ /\ pc[r] = "upload"
          /\ objects' = objects \cup {r}
          /\ UNCHANGED <<row, registered>>
       \/ /\ pc[r] \in {"undo", "compensate"}
          /\ objects' = objects \ {r}
          /\ UNCHANGED <<row, registered>>
       \/ pc[r] = "commit" /\ Committed(r) /\ UNCHANGED objects
       \/ /\ pc[r] = "settle" /\ r \notin leaked /\ row.state = "acquiring"
          /\ row' = FailedRow(source[r], outcome[r])
          /\ UNCHANGED <<registered, objects>>
    /\ UNCHANGED <<acquirers, source, outcome, leaked, answer>>

Execute(r) ==
    \/ Claim(r) \/ Replay(r)
    \/ Prepare(r) \/ Fetch(r) \/ Upload(r) \/ Register(r) \/ Undo(r) \/ Tidy(r)
    \/ Complete(r) \/ Compensate(r) \/ Commit(r) \/ Settle(r) \/ Hang(r)

Next == \E r \in Requests : Execute(r) \/ Crash(r)

Spec == Init /\ [][Next]_vars

\* Processes, transfers and statements are bounded by timeouts.
Fairness == \A r \in Requests : WF_vars(Execute(r))

FairSpec == Spec /\ Fairness

----------------------------------------------------------------------------
\* A key is acquired at most once, also when its row failed, was lost by its
\* owner, or is asked for again while the first request is still at work.
AcquiredOnce == \A r, d \in acquirers : r = d

\* A registered media row has its object, and is the one the row of the key
\* names: the compensation never deletes what a COMMIT may have published.
RegisteredIsStored ==
    \A r \in registered : r \in objects /\ row.state = "succeeded" /\ row.media = r

\* A row that says failed or succeeded accounts for every object: only an
\* undecided row may have left one behind.
DecidedLeavesNoOrphan ==
    row.state \in {"succeeded", "failed_retryable", "failed_final"} => objects = registered

\* A decisive answer is the stored one, of a request for the same source, and
\* every replay will repeat it.
DecisiveAnswersAreDurable ==
    \A r \in Requests : answer[r] \in Decisive =>
        row.result = answer[r] /\ row.source = source[r]

\* A row that left "acquiring" is never changed again.  (Proved; the run checks
\* it with ImplementsOutcome.)
DecidedRowIsFinal ==
    [][row.state \notin {"absent", "acquiring"} => UNCHANGED row]_vars

\* The command implements the promise of ImportOutcome: binding, publication
\* and decision are single steps of the key, and every answer is true of it.
Outcome == INSTANCE ImportOutcome WITH
    asked <- source,
    bound <- row.source,
    stored <- objects,
    published <- registered,
    outcome <- IF row.state \in {"absent", "acquiring"} THEN "none" ELSE row.result,
    Failures <- (Decisive \ {"succeeded"}) \cup {"reconciliation_required"}

ImplementsOutcome == Outcome!Spec

\* Every request is answered, unless its workspace could not be removed after
\* its import had been registered.
EveryRequestEnds == \A r \in Requests : <>(pc[r] \in Ended \/ r \in leaked)

\* The cleanup of the pool is scoped to the callback: once the callback is over,
\* whatever it met, the pool is ended and the request is answered.
CallbackScopedCleanup == \A r \in Requests : <>(pc[r] \in Ended)
============================================================================
