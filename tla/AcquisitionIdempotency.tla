---------------------- MODULE AcquisitionIdempotency ----------------------
(***************************************************************************)
(* The acquisition worker's persistent idempotency store: concurrent       *)
(* execute() calls for ONE acquisition id, the control object they fight   *)
(* over in Cloud Storage, and the acquisition that the winner runs.        *)
(*                                                                         *)
(* The control object carries a generation; every write names the          *)
(* generation it expects (0 for a create).  The winner of the create runs  *)
(* the operation while a heartbeat renews the lease; everybody else polls, *)
(* and closes the record for reconciliation when the lease has run out.    *)
(*                                                                         *)
(* Time is counted in ticks.  `lease' is what is left of the stored lease  *)
(* on a reference clock; a reader's clock may be ahead of it by at most    *)
(* ClockSkew ticks.  leaseOwner, fenceToken and the timestamps of the      *)
(* record are left out: the code writes them and never decides on them.    *)
(***************************************************************************)
EXTENDS Integers, FiniteSets

CONSTANTS
    Calls,          \* execute() invocations for this acquisition id
    Fingerprints,   \* digests of the request a call carries
    LeaseTicks,     \* ACQUISITION_LEASE_MS
    HeartbeatTicks, \* ACQUISITION_HEARTBEAT_MS
    ClockSkew,      \* how far a reader's clock may be ahead
    MaxDelay,       \* bound on a timer's overrun and on a request's flight
    MaxGeneration,  \* bound on the renewals: no renewal starts at it
    MaxLimbo        \* bound on the writes that are in limbo at a time

\* The constructor's lease policy check; the bounds are naturals.
ASSUME LeasePolicy == /\ LeaseTicks \in Nat
                      /\ HeartbeatTicks \in Nat \ {0}
                      /\ HeartbeatTicks < LeaseTicks
ASSUME Bounds == /\ ClockSkew \in Nat
                 /\ MaxDelay \in Nat
                 /\ MaxGeneration \in Nat
                 /\ MaxLimbo \in Nat

VARIABLES
    object,      \* the control record; its state is "absent" before a create
    generation,  \* the object's generation, 0 while absent
    lease,       \* ticks left of the stored lease
    limbo,       \* writes whose sender saw an error and that may still land
    fingerprint, \* the fingerprint each call carries
    pc,          \* where each call stands in execute / runClaim / operation
    held,        \* the generation a call read or wrote last
    aborted,     \* the caller's signal
    leaseLost,   \* the leaseLost controller of a running claim
    beat,        \* its heartbeat: "off", "sleep", or "flight" (a renewal sent)
    beatClock,   \* ticks since the heartbeat entered that state
    opResult,    \* what a call's operation came to
    artifacts,   \* calls whose artifact object reached the hand-off bucket
    answer       \* what execute() returned or threw

store   == <<object, generation, lease, limbo>>
signals == <<aborted, leaseLost>>
beats   == <<beat, beatClock>>
work    == <<opResult, artifacts>>
vars    == <<store, fingerprint, pc, held, signals, beats, work, answer>>

TerminalStates == {"succeeded", "failed", "reconciliation-required"}

\* "cancelled" is an operation that stopped on its signal, "failed" every
\* other failure code of the adapter, the inspection and the hand-off.
OperationResults == {"succeeded", "failed", "cancelled", "handoff-outcome-ambiguous"}
StoredResults    == OperationResults \cup {"acquisition-reconciliation-required"}

\* What execute() throws: acquisition-cancelled, idempotency-conflict, and any
\* other error, which the core maps to unknown-acquisition-failure.
ThrownAnswers == {"abandoned", "conflict", "unknown"}

Absent == [state |-> "absent", fingerprint |-> "none", result |-> "none"]

RunningRecord(f) == [state |-> "running", fingerprint |-> f, result |-> "none"]

\* Mutant: an ambiguous hand-off is persisted as an ordinary failure.
AmbiguousIsFailed(f, r) ==
    [state |-> IF r = "succeeded" THEN "succeeded"
               ELSE IF r = "acquisition-reconciliation-required"
               THEN "reconciliation-required" ELSE "failed",
     fingerprint |-> f,
     result |-> r]

\* The terminal record a finished operation is persisted as.
TerminalRecord(f, r) ==
    [state |-> IF r = "succeeded" THEN "succeeded"
               ELSE IF r \in {"handoff-outcome-ambiguous", "acquisition-reconciliation-required"}
               THEN "reconciliation-required" ELSE "failed",
     fingerprint |-> f,
     result |-> r]

Written == {RunningRecord(f) : f \in Fingerprints}
             \cup {TerminalRecord(f, r) : f \in Fingerprints, r \in StoredResults}

Writes == [expect : Nat, record : Written]

Operating == {"start", "acquire", "inspect", "handoff", "cleanup"}
Unwinding == {"settle", "abandon", "fail"}
Ended     == {"done", "crashed"}

TypeOK ==
    /\ object \in {Absent} \cup Written
    /\ generation \in Nat
    /\ lease \in 0..LeaseTicks
    /\ limbo \subseteq Writes
    /\ fingerprint \in [Calls -> Fingerprints]
    /\ pc \in [Calls -> {"create", "read", "poll", "reconcile"}
                            \cup Operating \cup Unwinding \cup Ended]
    /\ held \in [Calls -> Nat]
    /\ aborted \in [Calls -> BOOLEAN]
    /\ leaseLost \in [Calls -> BOOLEAN]
    /\ beat \in [Calls -> {"off", "sleep", "flight"}]
    /\ beatClock \in [Calls -> Nat]
    /\ opResult \in [Calls -> OperationResults \cup {"none", "running"}]
    /\ artifacts \subseteq Calls
    /\ answer \in [Calls -> StoredResults \cup ThrownAnswers \cup {"pending"}]

Init ==
    /\ object = Absent
    /\ generation = 0
    /\ lease = 0
    /\ limbo = {}
    /\ fingerprint \in [Calls -> Fingerprints]
    /\ pc = [c \in Calls |-> "create"]
    /\ held = [c \in Calls |-> 0]
    /\ aborted = [c \in Calls |-> FALSE]
    /\ leaseLost = [c \in Calls |-> FALSE]
    /\ beat = [c \in Calls |-> "off"]
    /\ beatClock = [c \in Calls |-> 0]
    /\ opResult = [c \in Calls |-> "none"]
    /\ artifacts = {}
    /\ answer = [c \in Calls |-> "pending"]

----------------------------------------------------------------------------
(* The control object store *)

\* Mutant: the write is not conditional on the generation.
LandUnconditionally(expect, record, ticks) ==
    /\ object' = record
    /\ generation' = generation + 1
    /\ lease' = ticks

\* A write lands: the object is at the generation the writer expected.
Land(expect, record, ticks) ==
    /\ generation = expect
    /\ object' = record
    /\ generation' = generation + 1
    /\ lease' = ticks

\* A write is still under way although nobody waits for it any more.
Linger(expect, record) ==
    /\ Cardinality(limbo) < MaxLimbo
    /\ limbo' = limbo \cup {[expect |-> expect, record |-> record]}

\* The writer gets an error: the request was lost, or it lingers and lands
\* later if the generation still matches.
Lose(expect, record) ==
    /\ UNCHANGED limbo \/ Linger(expect, record)
    /\ UNCHANGED <<object, generation, lease>>

\* A write out of limbo reaches the store and lands, or fails its precondition.
Deliver(w) ==
    /\ w \in limbo
    /\ limbo' = limbo \ {w}
    /\ \/ \E ticks \in 0..LeaseTicks : Land(w.expect, w.record, ticks)
       \/ generation # w.expect /\ UNCHANGED <<object, generation, lease>>
    /\ UNCHANGED <<fingerprint, pc, held, signals, beats, work, answer>>

----------------------------------------------------------------------------
(* execute(): claim, wait, reconcile *)

Goto(c, place) == pc' = [pc EXCEPT ![c] = place]

Return(c, a) ==
    /\ Goto(c, "done")
    /\ answer' = [answer EXCEPT ![c] = a]

\* Top of the loop: the caller's signal, then tryCreate.
AbortedAtLoop(c) ==
    /\ pc[c] \in {"create", "poll"} /\ aborted[c]
    /\ Return(c, "abandoned")
    /\ UNCHANGED <<store, fingerprint, held, signals, beats, work>>

\* Mutant: an expired claim is taken over and its operation started again.
TakeOverExpired(c) ==
    /\ pc[c] = "create" /\ ~aborted[c]
    /\ generation = 0 \/ (object.state = "running" /\ lease = 0)
    /\ Land(generation, RunningRecord(fingerprint[c]), LeaseTicks)
    /\ Goto(c, "start")
    /\ held' = [held EXCEPT ![c] = generation']
    /\ beat' = [beat EXCEPT ![c] = "sleep"]
    /\ opResult' = [opResult EXCEPT ![c] = "running"]
    /\ UNCHANGED <<limbo, fingerprint, signals, beatClock, artifacts, answer>>

TryCreate(c) ==
    /\ pc[c] = "create" /\ ~aborted[c]
    /\ \E flight \in 0..MaxDelay :
          /\ flight <= LeaseTicks
          /\ Land(0, RunningRecord(fingerprint[c]), LeaseTicks - flight)
    /\ Goto(c, "start")
    /\ held' = [held EXCEPT ![c] = 1]
    /\ beat' = [beat EXCEPT ![c] = "sleep"]
    /\ opResult' = [opResult EXCEPT ![c] = "running"]
    /\ UNCHANGED <<limbo, fingerprint, signals, beatClock, artifacts, answer>>

CreateExists(c) ==
    /\ pc[c] = "create" /\ ~aborted[c]
    /\ generation # 0
    /\ Goto(c, "read")
    /\ UNCHANGED <<store, fingerprint, held, signals, beats, work, answer>>

CreateFails(c) ==
    /\ pc[c] = "create" /\ ~aborted[c]
    /\ Lose(0, RunningRecord(fingerprint[c]))
    /\ Return(c, "unknown")
    /\ UNCHANGED <<fingerprint, held, signals, beats, work>>

\* Mutant: an expired claim is polled like a live one.
ReadNeverExpires(c) ==
    /\ pc[c] = "read"
    /\ held' = [held EXCEPT ![c] = generation]
    /\ \/ object.fingerprint # fingerprint[c] /\ Return(c, "conflict")
       \/ /\ object.fingerprint = fingerprint[c]
          /\ object.state \in TerminalStates
          /\ Return(c, object.result)
       \/ /\ object.fingerprint = fingerprint[c]
          /\ object.state = "running"
          /\ Goto(c, "poll")
          /\ UNCHANGED answer
    /\ UNCHANGED <<store, fingerprint, signals, beats, work>>

\* read() and everything the loop decides on the record before the next await.
Read(c) ==
    /\ pc[c] = "read"
    /\ held' = [held EXCEPT ![c] = generation]
    /\ \/ Return(c, "unknown")
       \/ /\ object.fingerprint # fingerprint[c]
          /\ Return(c, "conflict")
       \/ /\ object.fingerprint = fingerprint[c]
          /\ object.state \in TerminalStates
          /\ Return(c, object.result)
       \/ /\ object.fingerprint = fingerprint[c]
          /\ object.state = "running"
          /\ \E ahead \in 0..ClockSkew :
                Goto(c, IF lease <= ahead THEN "reconcile" ELSE "poll")
          /\ UNCHANGED answer
    /\ UNCHANGED <<store, fingerprint, signals, beats, work>>

Poll(c) ==
    /\ pc[c] = "poll" /\ ~aborted[c]
    /\ Goto(c, "create")
    /\ UNCHANGED <<store, fingerprint, held, signals, beats, work, answer>>

\* reconcileExpired: a conditional write against the generation that was read.
ReconcileExpired(c) ==
    LET closing == TerminalRecord(fingerprint[c], "acquisition-reconciliation-required")
    IN  /\ pc[c] = "reconcile"
        /\ \/ /\ Land(held[c], closing, 0)
              /\ Return(c, closing.result)
              /\ UNCHANGED limbo
           \/ /\ generation # held[c]
              /\ Goto(c, "create")
              /\ UNCHANGED <<store, answer>>
           \/ /\ Lose(held[c], closing)
              /\ Return(c, "unknown")
        /\ UNCHANGED <<fingerprint, held, signals, beats, work>>

----------------------------------------------------------------------------
(* runClaim(): the heartbeat beside the operation *)

\* The timer fired before stopHeartbeat: a renewal goes out.
BeatSend(c) ==
    /\ beat[c] = "sleep" /\ beatClock[c] >= HeartbeatTicks
    /\ generation < MaxGeneration
    /\ beat' = [beat EXCEPT ![c] = "flight"]
    /\ beatClock' = [beatClock EXCEPT ![c] = 0]
    /\ UNCHANGED <<store, fingerprint, pc, held, signals, work, answer>>

\* Mutant: the renewal writes the old expiry again.
BeatKeepsOldExpiry(c) ==
    /\ beat[c] = "flight"
    /\ Land(held[c], RunningRecord(fingerprint[c]), lease)
    /\ held' = [held EXCEPT ![c] = generation']
    /\ beat' = [beat EXCEPT ![c] = IF pc[c] \in Operating THEN "sleep" ELSE "off"]
    /\ beatClock' = [beatClock EXCEPT ![c] = 0]
    /\ UNCHANGED <<limbo, fingerprint, pc, signals, work, answer>>

\* The heartbeat loop goes on unless stopHeartbeat was aborted meanwhile.
BeatLands(c) ==
    /\ beat[c] = "flight"
    /\ \E ticks \in 0..LeaseTicks :
          /\ ticks = LeaseTicks - beatClock[c] \/ (beatClock[c] > LeaseTicks /\ ticks = 0)
          /\ Land(held[c], RunningRecord(fingerprint[c]), ticks)
    /\ held' = [held EXCEPT ![c] = generation']
    /\ beat' = [beat EXCEPT ![c] = IF pc[c] \in Operating THEN "sleep" ELSE "off"]
    /\ beatClock' = [beatClock EXCEPT ![c] = 0]
    /\ UNCHANGED <<limbo, fingerprint, pc, signals, work, answer>>

\* lease-lost on a failed precondition, lease-store-failed on an error.
BeatLost(c) ==
    /\ beat[c] = "flight"
    /\ \/ generation # held[c] /\ UNCHANGED store
       \/ Lose(held[c], RunningRecord(fingerprint[c]))
    /\ leaseLost' = [leaseLost EXCEPT ![c] = TRUE]
    /\ beat' = [beat EXCEPT ![c] = "off"]
    /\ beatClock' = [beatClock EXCEPT ![c] = 0]
    /\ UNCHANGED <<fingerprint, pc, held, aborted, work, answer>>

----------------------------------------------------------------------------
(* The operation: workspace, adapter, inspection, hand-off, cleanup *)

Signalled(c) == aborted[c] \/ leaseLost[c]

\* The operation's promise settles: runClaim looks at leaseLost once, then
\* stops the heartbeat.  A sleeping heartbeat ends at once, a renewal that is
\* already in flight is awaited.
LeaveOperation(c, place) ==
    /\ Goto(c, IF place = "settle" /\ leaseLost[c] THEN "abandon" ELSE place)
    /\ beat' = [beat EXCEPT ![c] = IF @ = "sleep" THEN "off" ELSE @]
    /\ beatClock' = [beatClock EXCEPT ![c] = IF beat[c] = "sleep" THEN 0 ELSE @]

CameTo(c, result) == opResult' = [opResult EXCEPT ![c] = result]

\* createAcquisitionWorkspace: before it there is nothing to clean up.
Start(c) ==
    /\ pc[c] = "start"
    /\ \/ ~Signalled(c) /\ Goto(c, "acquire") /\ UNCHANGED <<beats, opResult>>
       \/ ~Signalled(c) /\ CameTo(c, "failed") /\ LeaveOperation(c, "settle")
       \/ Signalled(c) /\ CameTo(c, "cancelled") /\ LeaveOperation(c, "settle")
    /\ UNCHANGED <<store, fingerprint, held, signals, artifacts, answer>>

\* adapter.acquire and inspectMedia.  Only the adapter listens to the signal.
AcquireOrInspect(c) ==
    /\ \/ pc[c] = "acquire" /\ Goto(c, "inspect") /\ UNCHANGED opResult
       \/ pc[c] = "acquire" /\ Signalled(c) /\ CameTo(c, "cancelled") /\ Goto(c, "cleanup")
       \/ pc[c] = "inspect" /\ Goto(c, "handoff") /\ UNCHANGED opResult
       \/ pc[c] \in {"acquire", "inspect"} /\ CameTo(c, "failed") /\ Goto(c, "cleanup")
    /\ UNCHANGED <<store, fingerprint, held, signals, beats, artifacts, answer>>

\* GcsArtifactHandoffStore.create: one upload under ifGenerationMatch 0.  A
\* definitive rejection stores nothing; any other error leaves it open.
Handoff(c) ==
    /\ pc[c] = "handoff"
    /\ \/ CameTo(c, "succeeded") /\ artifacts' = artifacts \cup {c}
       \/ CameTo(c, "failed") /\ UNCHANGED artifacts
       \/ CameTo(c, "handoff-outcome-ambiguous")
          /\ artifacts' \in {artifacts, artifacts \cup {c}}
    /\ Goto(c, "cleanup")
    /\ UNCHANGED <<store, fingerprint, held, signals, beats, answer>>

\* The finally block: a cleanup that throws replaces the result by its error.
Cleanup(c) ==
    /\ pc[c] = "cleanup"
    /\ \E place \in {"settle", "fail"} : LeaveOperation(c, place)
    /\ UNCHANGED <<store, fingerprint, held, signals, work, answer>>

----------------------------------------------------------------------------
(* runClaim(): after the heartbeat has ended *)

Rethrow(c) ==
    /\ beat[c] = "off"
    /\ \/ pc[c] = "abandon" /\ Return(c, "abandoned")
       \/ pc[c] = "fail" /\ Return(c, "unknown")
    /\ UNCHANGED <<store, fingerprint, held, signals, beats, work>>

\* Mutant: the outcome of the conditional write is not looked at.
PersistIgnoresPrecondition(c) ==
    /\ pc[c] = "settle" /\ beat[c] = "off"
    /\ \/ Land(held[c], TerminalRecord(fingerprint[c], opResult[c]), 0) /\ UNCHANGED limbo
       \/ generation # held[c] /\ UNCHANGED store
    /\ Return(c, opResult[c])
    /\ UNCHANGED <<fingerprint, held, signals, beats, work>>

\* Mutant: an error of the write is reported like a failed precondition.
PersistErrorIsAbandoned(c) ==
    LET terminal == TerminalRecord(fingerprint[c], opResult[c])
    IN  /\ pc[c] = "settle" /\ beat[c] = "off"
        /\ \/ Land(held[c], terminal, 0) /\ Return(c, opResult[c]) /\ UNCHANGED limbo
           \/ Lose(held[c], terminal) /\ Return(c, "abandoned")
        /\ UNCHANGED <<fingerprint, held, signals, beats, work>>

\* Mutant: the result is written against the latest generation.
PersistUnfenced(c) ==
    /\ pc[c] = "settle" /\ beat[c] = "off"
    /\ Land(generation, TerminalRecord(fingerprint[c], opResult[c]), 0)
    /\ Return(c, opResult[c])
    /\ UNCHANGED <<limbo, fingerprint, held, signals, beats, work>>

Persist(c) ==
    LET terminal == TerminalRecord(fingerprint[c], opResult[c])
    IN  /\ pc[c] = "settle" /\ beat[c] = "off"
        /\ \/ /\ Land(held[c], terminal, 0)
              /\ Return(c, opResult[c])
              /\ UNCHANGED limbo
           \/ /\ generation # held[c]
              /\ Return(c, "abandoned")
              /\ UNCHANGED store
           \/ /\ Lose(held[c], terminal)
              /\ Return(c, "unknown")
        /\ UNCHANGED <<fingerprint, held, signals, beats, work>>

----------------------------------------------------------------------------
(* Callers, processes and time *)

\* The HTTP request is aborted.
Abort(c) ==
    /\ pc[c] \notin Ended /\ ~aborted[c]
    /\ aborted' = [aborted EXCEPT ![c] = TRUE]
    /\ UNCHANGED <<store, fingerprint, pc, held, leaseLost, beats, work, answer>>

\* The worker process dies; a write or an upload it had sent may still land.
Crash(c) ==
    /\ pc[c] \notin Ended
    /\ Goto(c, "crashed")
    /\ beat' = [beat EXCEPT ![c] = "off"]
    /\ beatClock' = [beatClock EXCEPT ![c] = 0]
    /\ \/ UNCHANGED limbo
       \/ pc[c] = "create" /\ Linger(0, RunningRecord(fingerprint[c]))
       \/ beat[c] = "flight" /\ Linger(held[c], RunningRecord(fingerprint[c]))
       \/ pc[c] = "settle" /\ beat[c] = "off"
          /\ Linger(held[c], TerminalRecord(fingerprint[c], opResult[c]))
    /\ UNCHANGED artifacts \/ (pc[c] = "handoff" /\ artifacts' = artifacts \cup {c})
    /\ UNCHANGED <<object, generation, lease, fingerprint, held, signals, opResult, answer>>

\* How late a timer or a response may be, and where its clock saturates once
\* the bound on renewals keeps a heartbeat from being sent.
BeatLimit(c) == IF beat[c] = "sleep" THEN HeartbeatTicks + MaxDelay ELSE MaxDelay

Tick ==
    /\ \A c \in Calls : \/ beat[c] = "off"
                        \/ beatClock[c] < BeatLimit(c)
                        \/ beat[c] = "sleep" /\ generation >= MaxGeneration
    /\ lease' = IF lease = 0 THEN 0 ELSE lease - 1
    /\ beatClock' = [c \in Calls |->
          IF beat[c] # "off" /\ beatClock[c] < BeatLimit(c) THEN beatClock[c] + 1
                                                           ELSE beatClock[c]]
    /\ UNCHANGED <<object, generation, limbo, fingerprint, pc, held, signals, beat, work, answer>>

----------------------------------------------------------------------------
Execute(c) ==
    \/ AbortedAtLoop(c) \/ TryCreate(c) \/ CreateExists(c) \/ CreateFails(c)
    \/ Read(c) \/ Poll(c) \/ ReconcileExpired(c)
    \/ Start(c) \/ AcquireOrInspect(c) \/ Handoff(c) \/ Cleanup(c)
    \/ Rethrow(c) \/ Persist(c)

Heartbeat(c) == BeatSend(c) \/ BeatLands(c) \/ BeatLost(c)

Next ==
    \/ \E c \in Calls : Execute(c) \/ Heartbeat(c) \/ Abort(c) \/ Crash(c)
    \/ \E w \in limbo : Deliver(w)
    \/ Tick

Spec == Init /\ [][Next]_vars

\* Every await of the code is settled by a timer, a bounded child process or a
\* response or connection error; clocks advance.  Nothing forces an abort, a
\* crash, or the late arrival of a lost write.
Fairness ==
    /\ \A c \in Calls : WF_vars(Execute(c)) /\ WF_vars(Heartbeat(c))
    /\ WF_vars(Tick)

FairSpec == Spec /\ Fairness

----------------------------------------------------------------------------
(* Safety *)

\* At most one call ever runs the acquisition: whatever is aborted, crashes,
\* expires or is retried, an id is never acquired a second time.
AtMostOneOperation ==
    \A c, d \in Calls : opResult[c] # "none" /\ opResult[d] # "none" => c = d

\* A result that execute() returned is the durable one, of the same request:
\* the record is terminal and holds exactly that result.
AnswersAreDurable ==
    \A c \in Calls : answer[c] \in StoredResults =>
        /\ object.state \in TerminalStates
        /\ object.result = answer[c]
        /\ object.fingerprint = fingerprint[c]

\* The record never claims what the bucket does not hold: succeeded means the
\* artifact was handed off, failed means that it was not.
RecordMatchesArtifact ==
    /\ object.state = "succeeded" => artifacts # {}
    /\ object.state = "failed" => artifacts = {}

\* The owner that was told acquisition-cancelled, which invites a retry, never
\* turns out to have succeeded after all.
AbandonedIsNotSucceeded ==
    \A c \in Calls : answer[c] = "abandoned" /\ opResult[c] # "none"
        => object.state # "succeeded"

\* A terminal record is never overwritten, neither by a late heartbeat, a
\* competing reconciler nor a write that lands long after its sender gave up.
\* (Proved; the runs check it with ImplementsOutcome, as far as the result goes.)
TerminalIsFinal ==
    [][object.state \in TerminalStates => UNCHANGED <<object, generation>>]_vars

\* An id is bound to the first request that claimed it: no write, however late,
\* ever puts another request's fingerprint into the record.
IdentityIsBound ==
    [][object.state # "absent" => object'.fingerprint = object.fingerprint]_vars

\* An owner whose heartbeat is alive and on time keeps its claim: no reader
\* closes the record under it.  (Timing: see the ticks of the run.)
LiveOwnerKeepsClaim ==
    \A c \in Calls : beat[c] # "off" /\ generation < MaxGeneration
        => object.state = "running" /\ generation = held[c]

\* The store implements the promise of AcquisitionOutcome.
Outcome == INSTANCE AcquisitionOutcome WITH
    claimed <- object.state # "absent",
    outcome <- object.result

ImplementsOutcome == Outcome!Spec

(* Liveness *)

\* Every call ends: an owner finishes, and a waiter gets a result, also when
\* the owner crashed and only the waiter is left to close the record.
EveryCallEnds == \A c \in Calls : <>(pc[c] \in Ended)
============================================================================
