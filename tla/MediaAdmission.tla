--------------------------- MODULE MediaAdmission ---------------------------
(***************************************************************************)
(* POST /api/media/admit, action "finalize": requests that finalize ONE    *)
(* upload, that is one pair of job and media ids and their one object.     *)
(* A request reads the object's metadata, and registers job and media in   *)
(* one transaction; when anything fails it rolls back and deletes the      *)
(* object as its compensation.                                             *)
(*                                                                         *)
(* The transaction reads committed rows, statement by statement.  An       *)
(* insert that another transaction has not committed yet blocks the same   *)
(* insert until that transaction ends.                                     *)
(***************************************************************************)
CONSTANTS Requests    \* finalize requests for this upload

VARIABLES
    object,     \* the uploaded object
    admitted,   \* whether its job and media rows are committed
    pc,         \* where a request stands
    seenJob,    \* whether its transaction found the job row
    answer      \* what it answers

vars == <<object, admitted, pc, seenJob, answer>>

Ended     == {"done", "crashed"}
Statement == {"resolveJob", "resolveMedia", "accept", "insertJob", "insertMedia"}

TypeOK ==
    /\ object \in {"uploading", "stored", "deleted"}
    /\ admitted \in BOOLEAN
    /\ pc \in [Requests -> {"check", "commit", "undo"} \cup Statement \cup Ended]
    /\ seenJob \in [Requests -> BOOLEAN]
    /\ answer \in [Requests -> {"pending", "accepted", "not-found", "failed"}]

Init ==
    /\ object = "uploading"
    /\ admitted = FALSE
    /\ pc = [r \in Requests |-> "check"]
    /\ seenJob = [r \in Requests |-> FALSE]
    /\ answer = [r \in Requests |-> "pending"]

Goto(r, place) == pc' = [pc EXCEPT ![r] = place]

\* A failure to end the pool or the connector replaces the answer.
Reply(r, a) ==
    /\ Goto(r, "done")
    /\ \E sent \in {a, "failed"} : answer' = [answer EXCEPT ![r] = sent]

\* The client's PUT to the resumable upload completes.
Upload ==
    /\ object = "uploading"
    /\ object' = "stored"
    /\ UNCHANGED <<admitted, pc, seenJob, answer>>

\* getMetadata, its comparison with the request, and the connection.
Check(r) ==
    /\ pc[r] = "check"
    /\ \/ object = "stored" /\ Goto(r, "resolveJob") /\ UNCHANGED answer
       \/ object = "stored" /\ Reply(r, "not-found")
       \/ Reply(r, "failed")
    /\ UNCHANGED <<object, admitted, seenJob>>

ResolveJob(r) ==
    /\ pc[r] = "resolveJob"
    /\ Goto(r, "resolveMedia")
    /\ seenJob' = [seenJob EXCEPT ![r] = admitted]
    /\ UNCHANGED <<object, admitted, answer>>

\* Both rows are there: accepted before.  Only one of them: a conflict.
ResolveMedia(r) ==
    /\ pc[r] = "resolveMedia"
    /\ Goto(r, IF seenJob[r] /\ admitted THEN "accept"
               ELSE IF seenJob[r] \/ admitted THEN "undo" ELSE "insertJob")
    /\ UNCHANGED <<object, admitted, seenJob, answer>>

Accept(r) ==
    /\ pc[r] = "accept"
    /\ Reply(r, "accepted")
    /\ UNCHANGED <<object, admitted, seenJob>>

\* Mutant: a transaction outlives the instance that began it.
InsertingForGood == {r \in Requests : pc[r] \in {"insertMedia", "commit", "crashed"}}

Inserting == {r \in Requests : pc[r] \in {"insertMedia", "commit"}}

\* The primary key: a committed row is a unique violation, an uncommitted one
\* makes this insert wait.
InsertJob(r) ==
    /\ pc[r] = "insertJob" /\ Inserting = {}
    /\ Goto(r, IF admitted THEN "undo" ELSE "insertMedia")
    /\ UNCHANGED <<object, admitted, seenJob, answer>>

InsertMedia(r) ==
    /\ pc[r] = "insertMedia"
    /\ Goto(r, "commit")
    /\ UNCHANGED <<object, admitted, seenJob, answer>>

\* Any statement may fail or run into its timeout.
StatementFails(r) ==
    /\ pc[r] \in Statement
    /\ Goto(r, "undo")
    /\ UNCHANGED <<object, admitted, seenJob, answer>>

\* Mutant: the answer does not wait for the COMMIT.
CommitUnawaited(r) ==
    /\ pc[r] = "commit"
    /\ admitted' \in {admitted, TRUE}
    /\ Reply(r, "accepted")
    /\ UNCHANGED <<object, seenJob>>

\* COMMIT: acknowledged, rejected, or without an answer.
Commit(r) ==
    /\ pc[r] = "commit"
    /\ \/ admitted' = TRUE /\ Reply(r, "accepted")
       \/ UNCHANGED <<admitted, answer>> /\ Goto(r, "undo")
       \/ admitted' = TRUE /\ Goto(r, "undo") /\ UNCHANGED answer
    /\ UNCHANGED <<object, seenJob>>

\* ROLLBACK and the compensation; a failing delete is ignored.
Undo(r) ==
    /\ pc[r] = "undo"
    /\ object' \in {object, "deleted"}
    /\ Reply(r, "failed")
    /\ UNCHANGED <<admitted, seenJob>>

\* The instance is killed; a COMMIT or a delete in flight may take effect.
Crash(r) ==
    /\ pc[r] \notin Ended \cup {"check"}
    /\ Goto(r, "crashed")
    /\ admitted' \in {admitted, admitted \/ pc[r] = "commit"}
    /\ object' \in {object, IF pc[r] = "undo" THEN "deleted" ELSE object}
    /\ UNCHANGED <<seenJob, answer>>

Finalize(r) ==
    \/ Check(r) \/ ResolveJob(r) \/ ResolveMedia(r) \/ Accept(r)
    \/ InsertJob(r) \/ InsertMedia(r) \/ Commit(r) \/ Undo(r)

Next == Upload \/ \E r \in Requests : Finalize(r) \/ StatementFails(r) \/ Crash(r)

Spec == Init /\ [][Next]_vars

\* Every call is answered.  The statement timeout is not needed for it.
FairSpec == Spec /\ \A r \in Requests : WF_vars(Finalize(r))

----------------------------------------------------------------------------
\* An upload that was admitted keeps its object: the compensation is for a
\* transaction that failed.
AdmittedKeepsObject == admitted => object = "stored"

\* Whoever is told that the upload is admitted finds its rows, now and later.
AcceptedIsAdmitted ==
    \A r \in Requests : answer[r] = "accepted" => admitted

\* No request waits for good for another one's insert, even when that one died.
EveryFinalizeEnds == \A r \in Requests : <>(pc[r] \in Ended)
============================================================================
