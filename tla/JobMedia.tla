------------------------------ MODULE JobMedia ------------------------------
(***************************************************************************)
(* The requests that use ONE job's media on one server: POST /api/cut,     *)
(* which also keeps its result as an export, and POST /api/burn-subtitle.  *)
(* They run beside the finalize requests that admit the media, and they    *)
(* share the job's temp directories and the names of the files in them.    *)
(*                                                                         *)
(* A file is "none", "partial", or complete and known by its writer.  What *)
(* requests that share the directories read is anybody's: `met` has them.  *)
(* The process may die with all of them, and a clean-up fail: what they    *)
(* leave is met by whoever comes next, until a clean-up succeeds.          *)
(***************************************************************************)
EXTENDS MediaAdmission

CONSTANT Users      \* requests of either route

ASSUME UsersAreNotFiles == {"none", "partial"} \cap Users = {}

VARIABLES
    route,      \* of each request
    at,         \* where it stands
    dirs,       \* whether the job's directories are there
    source,     \* input/source.mp4
    subtitle,   \* work/subtitle.*
    output,     \* by route: output/cut.mp4, output/subtitled.mp4
    got,        \* what was read back from the output
    kept,       \* whether the export's object is in the bucket
    listed,     \* whether the export's row is committed
    reply,
    met,        \* who has shared the directories with another request
    litter      \* whether the last clean-up failed, or the process died since

files    == <<dirs, source, subtitle, output>>
exports  == <<kept, listed>>
userVars == <<route, at, files, got, exports, reply, met, litter>>

Routes  == {"cut", "burn"}
File    == Users \cup {"none", "partial"}
Reading == {"source", "subtitle", "render", "rendering", "read"}
Active  == {u \in Users : at[u] \notin {"resolve", "mkdir", "ended"}}

UsersTypeOK ==
    /\ route \in [Users -> Routes]
    /\ at \in [Users -> Reading \cup {"resolve", "mkdir", "save", "insert", "undo",
                                      "served", "failed", "ended"}]
    /\ dirs \in BOOLEAN
    /\ source \in File /\ subtitle \in File /\ output \in [Routes -> File]
    /\ got \in [Users -> {"none", "own", "other"}]
    /\ kept \in [Users -> BOOLEAN] /\ listed \in [Users -> BOOLEAN]
    /\ reply \in [Users -> {"pending", "served", "failed"}]
    /\ met \subseteq Users /\ litter \in BOOLEAN

UsersInit ==
    /\ route \in [Users -> Routes]
    /\ at = [u \in Users |-> "resolve"]
    /\ dirs = FALSE /\ source = "none" /\ subtitle = "none"
    /\ output = [n \in Routes |-> "none"]
    /\ got = [u \in Users |-> "none"]
    /\ kept = [u \in Users |-> FALSE] /\ listed = [u \in Users |-> FALSE]
    /\ reply = [u \in Users |-> "pending"]
    /\ met = {} /\ litter = FALSE

Move(u, place) == at' = [at EXCEPT ![u] = place]

\* A failure to end the pool or the connector replaces the answer.
End(u, a) ==
    /\ Move(u, "ended")
    /\ \E sent \in {a, "failed"} : reply' = [reply EXCEPT ![u] = sent]

\* A client uses the media it was told is admitted.  They are found under its
\* name, and the rest of the request is checked.
Resolve(u) ==
    /\ at[u] = "resolve"
    /\ \E r \in Requests : answer[r] = "accepted"
    /\ \/ admitted /\ Move(u, "mkdir") /\ UNCHANGED reply
       \/ End(u, "failed")
    /\ UNCHANGED <<route, files, got, exports, met, litter>>

\* createJobTempDirectories, before the try: a failure skips the clean-up.
MakeDirectories(u) ==
    /\ at[u] = "mkdir"
    /\ \/ /\ dirs' = TRUE /\ Move(u, "source") /\ UNCHANGED reply
          /\ met' = IF Active = {} THEN met ELSE met \cup Active \cup {u}
       \/ dirs' \in {dirs, TRUE} /\ End(u, "failed") /\ UNCHANGED met
    /\ UNCHANGED <<route, source, subtitle, output, got, exports, litter>>

\* The media's object is downloaded to input/source.mp4.
WriteSource(u) ==
    /\ at[u] = "source" /\ dirs /\ object = "stored"
    /\ source' = u
    /\ Move(u, IF route[u] = "cut" THEN "render" ELSE "subtitle")
    /\ UNCHANGED <<route, dirs, subtitle, output, got, exports, reply, met, litter>>

WriteSubtitle(u) ==
    /\ at[u] = "subtitle" /\ dirs
    /\ subtitle' = u
    /\ Move(u, "render")
    /\ UNCHANGED <<route, dirs, source, output, got, exports, reply, met, litter>>

\* FFmpeg opens its inputs, and its output with -y.
StartRender(u) ==
    /\ at[u] = "render" /\ dirs
    /\ source # "none" /\ (route[u] = "burn" => subtitle # "none")
    /\ output' = [output EXCEPT ![route[u]] = "partial"]
    /\ Move(u, "rendering")
    /\ UNCHANGED <<route, dirs, source, subtitle, got, exports, reply, met, litter>>

\* Complete, from the request's own inputs; a removed output stays removed.
Rendered(u) ==
    IF output[route[u]] = "none" THEN "none"
    ELSE IF source = u /\ (route[u] = "burn" => subtitle = u) THEN u ELSE "partial"

EndRender(u) ==
    /\ at[u] = "rendering"
    /\ output' = [output EXCEPT ![route[u]] = Rendered(u)]
    /\ Move(u, "read")
    /\ UNCHANGED <<route, dirs, source, subtitle, got, exports, reply, met, litter>>

\* Mutant: the output is read without waiting for FFmpeg to exit.
ReadsEarly(u) == at[u] \in {"rendering", "read"}

Reads(u) == at[u] = "read"

ReadOutput(u) ==
    /\ Reads(u) /\ output[route[u]] # "none"
    /\ got' \in {[got EXCEPT ![u] = g] :
                    g \in IF u \in met THEN {"own", "other"}
                          ELSE IF output[route[u]] = u THEN {"own"} ELSE {"other"}}
    /\ Move(u, IF route[u] = "cut" THEN "save" ELSE "served")
    /\ UNCHANGED <<route, files, exports, reply, met, litter>>

\* A missing file or object, a broken write, or FFmpeg's exit code.
Fails(u) ==
    /\ at[u] \in Reading
    /\ \/ UNCHANGED source
       \/ at[u] = "source" /\ dirs /\ source' = "partial"
    /\ Move(u, "failed")
    /\ UNCHANGED <<route, dirs, subtitle, output, got, exports, reply, met, litter>>

\* The upload, under a fresh export id: with an answer, or not.
Save(u) ==
    /\ at[u] = "save"
    /\ \/ kept' = [kept EXCEPT ![u] = TRUE] /\ Move(u, "insert")
       \/ kept' \in {kept, [kept EXCEPT ![u] = TRUE]} /\ Move(u, "undo")
    /\ UNCHANGED <<route, files, got, listed, reply, met, litter>>

\* Mutant: an insert that was not answered counts.
InsertUnchecked(u) ==
    /\ at[u] = "insert"
    /\ listed' \in {listed, [listed EXCEPT ![u] = TRUE]}
    /\ Move(u, "served")
    /\ UNCHANGED <<route, files, got, kept, reply, met, litter>>

\* The export's row, committed by itself: acknowledged, or not.
Insert(u) ==
    /\ at[u] = "insert"
    /\ \/ listed' = [listed EXCEPT ![u] = TRUE] /\ Move(u, "served")
       \/ listed' \in {listed, [listed EXCEPT ![u] = TRUE]} /\ Move(u, "undo")
    /\ UNCHANGED <<route, files, got, kept, reply, met, litter>>

\* The compensation; a failing delete is ignored.
UndoSave(u) ==
    /\ at[u] = "undo"
    /\ kept' \in {kept, [kept EXCEPT ![u] = FALSE]}
    /\ Move(u, "failed")
    /\ UNCHANGED <<route, files, got, listed, reply, met, litter>>

\* Mutant: only a success is cleaned up.
CleansUpSuccess(u) == at[u] = "served"

CleansUp(u) == TRUE

RemovesAll ==
    /\ dirs' = FALSE /\ source' = "none" /\ subtitle' = "none"
    /\ output' = [n \in Routes |-> "none"]

\* rm rejects in the middle, or is cut off: what it has met by then is gone.
RemovesSome ==
    /\ dirs' \in {dirs, FALSE}
    /\ source' \in {source, "none"} /\ subtitle' \in {subtitle, "none"}
    /\ output' \in {o \in [Routes -> File] : \A n \in Routes : o[n] \in {output[n], "none"}}

\* cleanupJobTempRoot, in finally: everything is removed; or rm rejects, because
\* the disk does or another request creates something meanwhile, and the error
\* replaces the answer.
Cleanup(u) ==
    /\ at[u] \in {"served", "failed"}
    /\ \/ CleansUp(u) /\ RemovesAll /\ litter' = FALSE /\ End(u, at[u])
       \/ ~CleansUp(u) /\ End(u, at[u]) /\ UNCHANGED <<files, litter>>
       \/ RemovesSome /\ litter' = TRUE /\ End(u, "failed")
    /\ UNCHANGED <<route, got, exports, met>>

\* What was being stored when the process died is there, or is not.
Arrives(stored, place) ==
    {[u \in Users |-> stored[u] \/ u \in S] : S \in SUBSET {u \in Users : at[u] = place}}

\* The process dies with everything it runs, between any two steps or in the
\* middle of one: a download, a clean-up, an upload or an insert.  The disk stays.
Die ==
    /\ Active # {}
    /\ at' = [u \in Users |-> IF at[u] = "resolve" THEN at[u] ELSE "ended"]
    /\ reply' = [u \in Users |->
                   IF at[u] \notin {"resolve", "ended"} THEN "failed" ELSE reply[u]]
    /\ \/ UNCHANGED files
       \/ /\ dirs /\ (\E u \in Users : at[u] = "source") /\ source' = "partial"
          /\ UNCHANGED <<dirs, subtitle, output>>
       \/ (\E u \in Users : at[u] \in {"served", "failed"}) /\ RemovesSome
    /\ kept' \in Arrives(kept, "save") /\ listed' \in Arrives(listed, "insert")
    /\ litter' = TRUE
    /\ UNCHANGED <<route, got, met>>

Use(u) ==
    \/ Resolve(u) \/ MakeDirectories(u) \/ WriteSource(u)
    \/ WriteSubtitle(u) \/ StartRender(u) \/ EndRender(u) \/ ReadOutput(u) \/ Fails(u)
    \/ Save(u) \/ Insert(u) \/ UndoSave(u) \/ Cleanup(u)

----------------------------------------------------------------------------
(* Admission and use together *)

JobInit == Init /\ UsersInit

JobNext ==
    \/ Next /\ UNCHANGED userVars
    \/ (Die \/ \E u \in Users : Use(u)) /\ UNCHANGED vars

JobSpec == JobInit /\ [][JobNext]_<<vars, userVars>>

JobFairSpec == JobSpec /\ \A r \in Requests : WF_vars(Finalize(r))

\* An export whose id was given to the caller can be fetched, whatever failed
\* or was cleaned up meanwhile.
ServedExportIsKept ==
    \A u \in Users : reply[u] = "served" /\ route[u] = "cut" => listed[u] /\ kept[u]

\* A request that has the job's directories to itself is answered with its own
\* video, whatever earlier requests of the job have left there.
ServedIsRequested ==
    \A u \in Users : reply[u] = "served" /\ u \notin met => got[u] = "own"

\* When the last request of the job has ended, nothing of the job is on the disk,
\* unless the clean-up before failed or the process died since: one clean-up that
\* works makes up for everything that earlier ones, overlapping requests and dead
\* processes have left.
NothingIsLeft ==
    Active = {} /\ ~litter =>
        {source, subtitle, output["cut"], output["burn"]} = {"none"}
============================================================================
