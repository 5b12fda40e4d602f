-------------------- MODULE AcquisitionIdempotencyProofs --------------------
(***************************************************************************)
(* Proofs about AcquisitionIdempotency, for any sets of calls and          *)
(* fingerprints, any lease policy and any of the bounds.                   *)
(*                                                                         *)
(* The inductive invariant is built in layers, each proved with the help   *)
(* of the ones before it:                                                  *)
(*   Typed       types, and what opResult is at each place of a call;      *)
(*   Claimed     an operation runs only after the one create that landed;  *)
(*   Fenced      nobody holds a generation the store has not reached, and  *)
(*               once the record is terminal every writer's is stale;      *)
(*   Faithful    every write that can still land is for the fingerprint    *)
(*               of the record it would replace;                           *)
(*   Truthful    every stored or lingering outcome is that of a call that  *)
(*               has ended and was not told "cancelled";                   *)
(*   Kept        for policies that are OnTime: the claim of an owner whose *)
(*               heartbeat is alive can be renewed before anybody may take *)
(*               it for expired.                                           *)
(***************************************************************************)
EXTENDS AcquisitionIdempotency, TLAPS

Waiting == {"create", "read", "poll"}
Owning  == Operating \cup Unwinding

OperationPhase ==
    \A c \in Calls :
        /\ pc[c] \in Waiting \cup {"reconcile"} => opResult[c] = "none"
        /\ pc[c] \in Operating \ {"cleanup"} => opResult[c] = "running"
        /\ pc[c] \in {"cleanup"} \cup Unwinding => opResult[c] \in OperationResults
        /\ beat[c] # "off" => pc[c] \in Owning
        /\ pc[c] # "done" => answer[c] = "pending"

Typed == TypeOK /\ OperationPhase

OnlyAfterCreate ==
    /\ generation = 0 => object = Absent
    /\ generation # 0 => object.state # "absent"
    /\ \A c \in Calls : opResult[c] # "none" => generation # 0

Claimed == OnlyAfterCreate /\ AtMostOneOperation

Writer(c) == pc[c] \in {"reconcile"} \cup Owning

Fenced ==
    /\ \A c \in Calls : held[c] <= generation
    /\ \A w \in limbo : w.expect <= generation
    /\ object.state \in TerminalStates =>
          /\ \A c \in Calls : Writer(c) => held[c] < generation
          /\ \A w \in limbo : w.expect < generation

Faithful ==
    /\ \A c \in Calls : Writer(c) =>
          held[c] # 0 /\ fingerprint[c] = object.fingerprint
    /\ \A w \in limbo :
          /\ w.expect = 0 => w.record.state = "running"
          /\ w.expect # 0 => w.record.fingerprint = object.fingerprint

\* r is what the operation came to, in a call that ended untold.
Settled(r) ==
    \E c \in Calls : opResult[c] = r /\ pc[c] \in Ended /\ answer[c] # "abandoned"

\* Whether c's artifact is in the bucket, as far as its result tells.
Delivered(c) ==
    /\ opResult[c] \in {"none", "failed", "cancelled"} => c \notin artifacts
    /\ opResult[c] = "running" /\ pc[c] # "crashed" => c \notin artifacts
    /\ opResult[c] = "succeeded" => c \in artifacts

Truthful ==
    /\ object.result \in OperationResults => Settled(object.result)
    /\ \A w \in limbo :
          w.record.result \in OperationResults => Settled(w.record.result)
    /\ \A c \in Calls : Delivered(c)

IInv == Typed /\ Claimed /\ Fenced /\ Faithful /\ Truthful
----------------------------------------------------------------------------
\* A write that carries a record of the right type keeps limbo well typed.
LEMMA LingerType ==
    ASSUME limbo \subseteq Writes, NEW e \in Nat, NEW r \in Written,
           Linger(e, r) \/ UNCHANGED limbo
    PROVE  limbo' \subseteq Writes
BY DEF Linger, Writes

\* The record of a claim or a renewal is one of the records that are written.
LEMMA RunningWritten ==
    ASSUME NEW f \in Fingerprints
    PROVE  RunningRecord(f) \in Written
BY DEF Written

\* So is the record a call closes an id with, whatever the result.
LEMMA TerminalWritten ==
    ASSUME NEW f \in Fingerprints, NEW r \in StoredResults
    PROVE  TerminalRecord(f, r) \in Written
BY DEF Written

\* What a reader of a claim or a renewal sees.
LEMMA RunningFields ==
    ASSUME NEW f
    PROVE  /\ RunningRecord(f).state = "running"
           /\ RunningRecord(f).result = "none"
           /\ RunningRecord(f).fingerprint = f
BY DEF RunningRecord

\* What a reader of a terminal record sees: the result, and a state that fits it.
LEMMA TerminalFields ==
    ASSUME NEW f, NEW r
    PROVE  /\ TerminalRecord(f, r).state \in TerminalStates
           /\ TerminalRecord(f, r).result = r
           /\ TerminalRecord(f, r).fingerprint = f
           /\ TerminalRecord(f, r).state = "succeeded" <=> r = "succeeded"
           /\ TerminalRecord(f, r).state = "failed" =>
                 r \notin {"succeeded", "handoff-outcome-ambiguous",
                           "acquisition-reconciliation-required"}
BY DEF TerminalRecord, TerminalStates

\* A written record has a result exactly when it is terminal.
LEMMA WrittenForms ==
    ASSUME NEW record \in Written
    PROVE  /\ record.fingerprint \in Fingerprints
           /\ \/ record.state = "running" /\ record.result = "none"
              \/ record.state \in TerminalStates /\ record.result \in StoredResults
           /\ record.state = "succeeded" => record.result = "succeeded"
           /\ record.state = "failed" => record.result \in {"failed", "cancelled"}
<1>1. CASE \E f \in Fingerprints : record = RunningRecord(f)
  BY <1>1, RunningFields
<1>2. CASE \E f \in Fingerprints, r \in StoredResults : record = TerminalRecord(f, r)
  BY <1>2, TerminalFields DEF StoredResults, OperationResults
<1> QED BY <1>1, <1>2 DEF Written

\* Type correctness: every variable keeps its type, in particular the lease
\* stays within the policy and every write in limbo carries a valid record;
\* and a call's opResult, heartbeat and answer fit the place where it stands.
LEMMA TypedInvariant == Spec => []Typed
<1>1. Init => Typed
  BY LeasePolicy DEF Init, Typed, TypeOK, OperationPhase, Absent,
                     Waiting, Operating, Unwinding, Ended, OperationResults
<1>2. ASSUME Typed, [Next]_vars PROVE Typed'
  <2> USE <1>2 DEF Typed, TypeOK, OperationPhase, store, signals, beats, work,
                   Waiting, Owning, Operating, Unwinding, Ended
  <2>1. ASSUME NEW c \in Calls, Execute(c) PROVE Typed'
    <3>1. CASE AbortedAtLoop(c)
      BY <3>1 DEF AbortedAtLoop, Return, Goto, ThrownAnswers
    <3>2. CASE TryCreate(c)
      BY <3>2, RunningWritten, LeasePolicy, Bounds DEF TryCreate, Land, Goto
    <3>3. CASE CreateExists(c)
      BY <3>3 DEF CreateExists, Goto
    <3>4. CASE CreateFails(c)
      BY <3>4, RunningWritten, LingerType DEF CreateFails, Lose, Return, Goto, ThrownAnswers
    <3>5. CASE Read(c)
      <4>1. object.state \in TerminalStates => object.result \in StoredResults
        BY WrittenForms DEF Absent, TerminalStates
      <4> QED BY <3>5, <4>1 DEF Read, Return, Goto, ThrownAnswers
    <3>6. CASE Poll(c)
      BY <3>6 DEF Poll, Goto
    <3>7. CASE ReconcileExpired(c)
      <4> DEFINE closing == TerminalRecord(fingerprint[c], "acquisition-reconciliation-required")
      <4>1. closing \in Written /\ closing.result \in StoredResults
        BY TerminalWritten, TerminalFields DEF StoredResults
      <4> HIDE DEF closing
      <4> QED
        BY <3>7, <4>1, LingerType, LeasePolicy DEF ReconcileExpired, Land, Lose, Return, Goto, ThrownAnswers, closing
    <3>8. CASE Start(c)
      BY <3>8 DEF Start, CameTo, LeaveOperation, Goto, OperationResults
    <3>9. CASE AcquireOrInspect(c)
      BY <3>9 DEF AcquireOrInspect, CameTo, Goto, OperationResults
    <3>10. CASE Handoff(c)
      BY <3>10 DEF Handoff, CameTo, Goto, OperationResults
    <3>11. CASE Cleanup(c)
      BY <3>11 DEF Cleanup, LeaveOperation, Goto
    <3>12. CASE Rethrow(c)
      BY <3>12 DEF Rethrow, Return, Goto, ThrownAnswers
    <3>13. CASE Persist(c)
      <4> DEFINE terminal == TerminalRecord(fingerprint[c], opResult[c])
      <4>1. opResult[c] \in StoredResults /\ terminal \in Written
        BY <3>13, TerminalWritten DEF Persist, StoredResults
      <4> HIDE DEF terminal
      <4> QED
        BY <3>13, <4>1, LingerType, LeasePolicy DEF Persist, Land, Lose, Return, Goto, ThrownAnswers, terminal
    <3> QED
      BY <2>1, <3>1, <3>2, <3>3, <3>4, <3>5, <3>6, <3>7, <3>8, <3>9, <3>10, <3>11, <3>12, <3>13 DEF Execute
  <2>2. ASSUME NEW c \in Calls, Heartbeat(c) PROVE Typed'
    <3>1. CASE BeatSend(c)
      BY <3>1 DEF BeatSend
    <3>2. CASE BeatLands(c)
      BY <3>2, RunningWritten, LeasePolicy DEF BeatLands, Land
    <3>3. CASE BeatLost(c)
      BY <3>3, RunningWritten, LingerType DEF BeatLost, Lose
    <3> QED
      BY <2>2, <3>1, <3>2, <3>3 DEF Heartbeat
  <2>3. ASSUME NEW c \in Calls, Abort(c) PROVE Typed'
    BY <2>3 DEF Abort
  <2>4. ASSUME NEW c \in Calls, Crash(c) PROVE Typed'
    <3>1. pc[c] = "settle" => TerminalRecord(fingerprint[c], opResult[c]) \in Written
      BY TerminalWritten DEF StoredResults
    <3>2. limbo' \subseteq Writes
      BY <2>4, <3>1, RunningWritten, LingerType DEF Crash
    <3> QED
      BY <2>4, <3>2 DEF Crash, Goto
  <2>5. ASSUME NEW w \in limbo, Deliver(w) PROVE Typed'
    BY <2>5 DEF Deliver, Land, Writes
  <2>6. CASE Tick
    <3>1. lease' \in 0..LeaseTicks
      BY <2>6, LeasePolicy DEF Tick
    <3>2. beatClock' \in [Calls -> Nat]
      BY <2>6 DEF Tick
    <3> QED BY <2>6, <3>1, <3>2 DEF Tick
  <2>7. CASE UNCHANGED vars
    BY <2>7 DEF vars
  <2> QED
    BY <2>1, <2>2, <2>3, <2>4, <2>5, <2>6, <2>7 DEF Next
<1> QED
  BY <1>1, <1>2, PTL DEF Spec

\* Type correctness of the store, of every write on its way to it and of every
\* call, in particular that the stored lease stays within the policy.
THEOREM TypeCorrect == Spec => []TypeOK
BY TypedInvariant, PTL DEF Typed

----------------------------------------------------------------------------
\* An operation runs only after a create landed, and only one create lands.
LEMMA ClaimedInvariant == Spec => []Claimed
<1>1. Init => Claimed
  BY DEF Init, Claimed, OnlyAfterCreate, AtMostOneOperation, Absent
<1>2. ASSUME Typed, Claimed, [Next]_vars PROVE Claimed'
  <2> USE <1>2 DEF Claimed, OnlyAfterCreate, AtMostOneOperation, store, signals, beats, work
  <2>1. generation \in Nat /\ opResult \in [Calls -> OperationResults \cup {"none", "running"}]
    BY DEF Typed, TypeOK
  <2>2. \A c \in Calls : pc[c] \in Owning => opResult[c] # "none"
    BY DEF Typed, OperationPhase, Owning, Operating, Unwinding, OperationResults
  <2>3. \A record \in Written : record.state # "absent"
    BY WrittenForms DEF TerminalStates
  <2>4. ASSUME NEW c \in Calls, Execute(c) PROVE Claimed'
    <3>1. CASE AbortedAtLoop(c)
      BY <3>1 DEF AbortedAtLoop
    <3>2. CASE TryCreate(c)
      BY <2>1, <3>2, RunningFields DEF TryCreate, Land
    <3>3. CASE CreateExists(c)
      BY <3>3 DEF CreateExists
    <3>4. CASE CreateFails(c)
      BY <3>4 DEF CreateFails, Lose
    <3>5. CASE Read(c)
      BY <3>5 DEF Read
    <3>6. CASE Poll(c)
      BY <3>6 DEF Poll
    <3>7. CASE ReconcileExpired(c)
      BY <2>1, <3>7, TerminalFields DEF ReconcileExpired, Land, Lose, TerminalStates
    <3>8. CASE Start(c)
      BY <2>1, <2>2, <3>8 DEF Start, CameTo, Owning, Operating
    <3>9. CASE AcquireOrInspect(c)
      BY <2>1, <2>2, <3>9 DEF AcquireOrInspect, CameTo, Owning, Operating
    <3>10. CASE Handoff(c)
      BY <2>1, <2>2, <3>10 DEF Handoff, CameTo, Owning, Operating
    <3>11. CASE Cleanup(c)
      BY <3>11 DEF Cleanup
    <3>12. CASE Rethrow(c)
      BY <3>12 DEF Rethrow
    <3>13. CASE Persist(c)
      BY <2>1, <3>13, TerminalFields DEF Persist, Land, Lose, TerminalStates
    <3> QED
      BY <2>4, <3>1, <3>2, <3>3, <3>4, <3>5, <3>6, <3>7, <3>8, <3>9, <3>10, <3>11, <3>12, <3>13 DEF Execute
  <2>5. ASSUME NEW c \in Calls, Heartbeat(c) PROVE Claimed'
    BY <2>1, <2>5, RunningFields DEF Heartbeat, BeatSend, BeatLands, BeatLost, Land, Lose
  <2>6. ASSUME NEW c \in Calls, Abort(c) PROVE Claimed'
    BY <2>6 DEF Abort
  <2>7. ASSUME NEW c \in Calls, Crash(c) PROVE Claimed'
    BY <2>7 DEF Crash
  <2>8. ASSUME NEW w \in limbo, Deliver(w) PROVE Claimed'
    <3>1. w.record \in Written
      BY DEF Typed, TypeOK, Writes
    <3> QED BY <2>1, <2>3, <2>8, <3>1 DEF Deliver, Land
  <2>9. CASE Tick
    BY <2>9 DEF Tick
  <2>10. CASE UNCHANGED vars
    BY <2>10 DEF vars
  <2> QED
    BY <2>4, <2>5, <2>6, <2>7, <2>8, <2>9, <2>10 DEF Next
<1> QED
  BY <1>1, <1>2, TypedInvariant, PTL DEF Spec

\* At most one call ever runs the acquisition of an id.
THEOREM NeverAcquiredTwice == Spec => []AtMostOneOperation
BY ClaimedInvariant, PTL DEF Claimed

----------------------------------------------------------------------------
\* Nobody is ahead of the store, and a terminal record leaves every writer
\* with a stale generation: the argument for TerminalIsFinal.
LEMMA FencedInvariant == Spec => []Fenced
<1>1. Init => Fenced
  BY DEF Init, Fenced, Absent, TerminalStates
<1>2. ASSUME Typed, Claimed, Fenced, [Next]_vars PROVE Fenced'
  <2> USE <1>2 DEF Fenced, store, signals, beats, work
  <2>1. /\ generation \in Nat
        /\ held \in [Calls -> Nat]
        /\ pc \in [Calls -> Waiting \cup {"reconcile"} \cup Owning \cup Ended]
    BY DEF Typed, TypeOK, Waiting, Owning
  <2>2. \A w \in limbo : w.expect \in Nat /\ w.record \in Written
    BY DEF Typed, TypeOK, Writes
  <2>3. object.state \in TerminalStates => generation # 0
    BY DEF Claimed, OnlyAfterCreate, Absent, TerminalStates
  <2>4. ASSUME NEW c \in Calls, Execute(c) PROVE Fenced'
    <3> USE DEF Writer, Owning, Waiting, Operating, Unwinding, Ended
    <3>1. CASE AbortedAtLoop(c)
      BY <2>1, <3>1 DEF AbortedAtLoop, Return, Goto
    <3>2. CASE TryCreate(c)
      BY <2>1, <2>2, <3>2, RunningFields DEF TryCreate, Land, Goto, TerminalStates
    <3>3. CASE CreateExists(c)
      BY <2>1, <3>3 DEF CreateExists, Goto
    <3>4. CASE CreateFails(c)
      BY <2>1, <2>2, <2>3, <3>4 DEF CreateFails, Lose, Linger, Return, Goto
    <3>5. CASE Read(c)
      BY <2>1, <3>5 DEF Read, Return, Goto, TerminalStates
    <3>6. CASE Poll(c)
      BY <2>1, <3>6 DEF Poll, Goto
    <3>7. CASE ReconcileExpired(c)
      BY <2>1, <2>2, <3>7 DEF ReconcileExpired, Land, Lose, Linger, Return, Goto
    <3>8. CASE Start(c)
      BY <2>1, <3>8 DEF Start, LeaveOperation, Goto
    <3>9. CASE AcquireOrInspect(c)
      BY <2>1, <3>9 DEF AcquireOrInspect, Goto
    <3>10. CASE Handoff(c)
      BY <2>1, <3>10 DEF Handoff, Goto
    <3>11. CASE Cleanup(c)
      BY <2>1, <3>11 DEF Cleanup, LeaveOperation, Goto
    <3>12. CASE Rethrow(c)
      BY <2>1, <3>12 DEF Rethrow, Return, Goto
    <3>13. CASE Persist(c)
      BY <2>1, <2>2, <3>13 DEF Persist, Land, Lose, Linger, Return, Goto
    <3> QED
      BY <2>4, <3>1, <3>2, <3>3, <3>4, <3>5, <3>6, <3>7, <3>8, <3>9, <3>10, <3>11, <3>12, <3>13 DEF Execute
  <2>5. ASSUME NEW c \in Calls, Heartbeat(c) PROVE Fenced'
    <3>1. beat[c] = "flight" => Writer(c)
      BY DEF Typed, OperationPhase, Writer
    <3>2. CASE BeatSend(c)
      BY <3>2 DEF BeatSend, Writer
    <3>3. CASE BeatLands(c)
      BY <2>1, <2>2, <3>3, RunningFields DEF BeatLands, Land, TerminalStates, Writer
    <3>4. CASE BeatLost(c)
      BY <2>1, <2>2, <3>1, <3>4 DEF BeatLost, Lose, Linger, Writer
    <3> QED BY <2>5, <3>2, <3>3, <3>4 DEF Heartbeat
  <2>6. ASSUME NEW c \in Calls, Abort(c) PROVE Fenced'
    BY <2>6 DEF Abort, Writer
  <2>7. ASSUME NEW c \in Calls, Crash(c) PROVE Fenced'
    <3>1. beat[c] = "flight" => Writer(c)
      BY DEF Typed, OperationPhase, Writer
    <3>2. pc[c] = "settle" => Writer(c)
      BY DEF Writer, Owning, Unwinding
    <3>3. \A d \in Calls : Writer(d)' => Writer(d)
      BY <2>1, <2>7 DEF Crash, Goto, Writer, Owning, Operating, Unwinding
    <3> QED BY <2>1, <2>2, <2>3, <2>7, <3>1, <3>2, <3>3 DEF Crash, Linger
  <2>8. ASSUME NEW w \in limbo, Deliver(w) PROVE Fenced'
    BY <2>1, <2>2, <2>8 DEF Deliver, Land, Writer
  <2>9. CASE Tick
    BY <2>9 DEF Tick, Writer
  <2>10. CASE UNCHANGED vars
    BY <2>10 DEF vars, Writer
  <2> QED
    BY <2>4, <2>5, <2>6, <2>7, <2>8, <2>9, <2>10 DEF Next
<1> QED
  BY <1>1, <1>2, TypedInvariant, ClaimedInvariant, PTL DEF Spec

\* The step behind TerminalIsFinal: whatever was sent before a terminal record
\* or is sent after it carries a generation the object has left behind.
LEMMA TerminalStep ==
    ASSUME Typed, Claimed, Fenced, [Next]_vars, object.state \in TerminalStates
    PROVE  UNCHANGED <<object, generation>>
<1> USE DEF store, signals, beats, work
<1>1. \A c \in Calls : Writer(c) => held[c] # generation
  BY DEF Fenced, Typed, TypeOK
<1>2. generation # 0
  BY DEF Claimed, OnlyAfterCreate, Absent, TerminalStates
<1>3. ASSUME NEW c \in Calls, Execute(c) PROVE UNCHANGED <<object, generation>>
  <2>1. pc[c] \in {"reconcile", "settle"} => held[c] # generation
    BY <1>1 DEF Writer, Owning, Unwinding
  <2> QED
    BY <1>2, <1>3, <2>1
    DEF Execute, AbortedAtLoop, TryCreate, CreateExists, CreateFails, Read, Poll,
        ReconcileExpired, Start, AcquireOrInspect, Handoff, Cleanup, Rethrow, Persist,
        Land, Lose
<1>4. ASSUME NEW c \in Calls, Heartbeat(c) PROVE UNCHANGED <<object, generation>>
  <2>1. beat[c] = "flight" => held[c] # generation
    BY <1>1 DEF Typed, OperationPhase, Writer
  <2> QED
    BY <1>4, <2>1 DEF Heartbeat, BeatSend, BeatLands, BeatLost, Land, Lose
<1>5. ASSUME NEW w \in limbo, Deliver(w) PROVE UNCHANGED <<object, generation>>
  BY <1>5 DEF Fenced, Typed, TypeOK, Writes, Deliver, Land
<1> QED
  BY <1>3, <1>4, <1>5 DEF Next, vars, Abort, Crash, Tick

\* A terminal record is final: no late heartbeat, competing reconciler or
\* write out of limbo ever replaces it.
THEOREM TerminalStays == Spec => TerminalIsFinal
<1>1. ASSUME Typed, Claimed, Fenced, [Next]_vars
      PROVE  object.state \in TerminalStates => UNCHANGED <<object, generation>>
  BY <1>1, TerminalStep
<1> QED
  BY <1>1, TypedInvariant, ClaimedInvariant, FencedInvariant, PTL
  DEF Spec, TerminalIsFinal

----------------------------------------------------------------------------
\* Whoever may still write carries the fingerprint of the stored record.
LEMMA FaithfulInvariant == Spec => []Faithful
<1>1. Init => Faithful
  BY DEF Init, Faithful, Writer, Owning, Operating, Unwinding
<1>2. ASSUME Typed, Claimed, Fenced, Faithful, [Next]_vars PROVE Faithful'
  <2> USE <1>2 DEF Faithful, store, signals, beats, work
  <2>1. /\ generation \in Nat
        /\ held \in [Calls -> Nat]
        /\ pc \in [Calls -> Waiting \cup {"reconcile"} \cup Owning \cup Ended]
    BY DEF Typed, TypeOK, Waiting, Owning
  <2>2. \A w \in limbo : w.expect \in Nat /\ w.record \in Written /\ w.expect <= generation
    BY DEF Typed, TypeOK, Writes, Fenced
  <2>3. \A c \in Calls : Writer(c) => generation # 0
    BY <2>1 DEF Fenced
  <2>4. object.state = "running" => generation # 0
    BY DEF Claimed, OnlyAfterCreate, Absent
  <2>5. ASSUME NEW c \in Calls, Execute(c) PROVE Faithful'
    <3> USE DEF Writer, Owning, Waiting, Operating, Unwinding, Ended
    <3>1. CASE AbortedAtLoop(c)
      BY <2>1, <3>1 DEF AbortedAtLoop, Return, Goto
    <3>2. CASE TryCreate(c)
      BY <2>1, <2>2, <2>3, <3>2, RunningFields DEF TryCreate, Land, Goto
    <3>3. CASE CreateExists(c)
      BY <2>1, <3>3 DEF CreateExists, Goto
    <3>4. CASE CreateFails(c)
      BY <2>1, <2>2, <3>4, RunningFields DEF CreateFails, Lose, Linger, Return, Goto
    <3>5. CASE Read(c)
      BY <2>1, <2>4, <3>5 DEF Read, Return, Goto
    <3>6. CASE Poll(c)
      BY <2>1, <3>6 DEF Poll, Goto
    <3>7. CASE ReconcileExpired(c)
      BY <2>1, <2>2, <3>7, TerminalFields DEF ReconcileExpired, Land, Lose, Linger, Return, Goto
    <3>8. CASE Start(c)
      BY <2>1, <3>8 DEF Start, LeaveOperation, Goto
    <3>9. CASE AcquireOrInspect(c)
      BY <2>1, <3>9 DEF AcquireOrInspect, Goto
    <3>10. CASE Handoff(c)
      BY <2>1, <3>10 DEF Handoff, Goto
    <3>11. CASE Cleanup(c)
      BY <2>1, <3>11 DEF Cleanup, LeaveOperation, Goto
    <3>12. CASE Rethrow(c)
      BY <2>1, <3>12 DEF Rethrow, Return, Goto
    <3>13. CASE Persist(c)
      BY <2>1, <2>2, <3>13, TerminalFields DEF Persist, Land, Lose, Linger, Return, Goto
    <3> QED
      BY <2>5, <3>1, <3>2, <3>3, <3>4, <3>5, <3>6, <3>7, <3>8, <3>9, <3>10, <3>11, <3>12, <3>13 DEF Execute
  <2>6. ASSUME NEW c \in Calls, Heartbeat(c) PROVE Faithful'
    <3>1. beat[c] = "flight" => Writer(c)
      BY DEF Typed, OperationPhase, Writer
    <3>2. CASE BeatSend(c)
      BY <3>2 DEF BeatSend, Writer
    <3>3. CASE BeatLands(c)
      BY <2>1, <2>2, <3>1, <3>3, RunningFields DEF BeatLands, Land, Writer
    <3>4. CASE BeatLost(c)
      BY <2>1, <2>2, <3>1, <3>4, RunningFields DEF BeatLost, Lose, Linger, Writer
    <3> QED BY <2>6, <3>2, <3>3, <3>4 DEF Heartbeat
  <2>7. ASSUME NEW c \in Calls, Abort(c) PROVE Faithful'
    BY <2>7 DEF Abort, Writer
  <2>8. ASSUME NEW c \in Calls, Crash(c) PROVE Faithful'
    <3>1. beat[c] = "flight" => Writer(c)
      BY DEF Typed, OperationPhase, Writer
    <3>2. pc[c] = "settle" => Writer(c)
      BY DEF Writer, Owning, Unwinding
    <3>3. \A d \in Calls : Writer(d)' => Writer(d)
      BY <2>1, <2>8 DEF Crash, Goto, Writer, Owning, Operating, Unwinding
    <3> QED
      BY <2>1, <2>2, <2>8, <3>1, <3>2, <3>3, RunningFields, TerminalFields DEF Crash, Linger
  <2>9. ASSUME NEW w \in limbo, Deliver(w) PROVE Faithful'
    BY <2>1, <2>2, <2>3, <2>9 DEF Deliver, Land, Writer
  <2>10. CASE Tick
    BY <2>10 DEF Tick, Writer
  <2>11. CASE UNCHANGED vars
    BY <2>11 DEF vars, Writer
  <2> QED
    BY <2>5, <2>6, <2>7, <2>8, <2>9, <2>10, <2>11 DEF Next
<1> QED
  BY <1>1, <1>2, TypedInvariant, ClaimedInvariant, FencedInvariant, PTL DEF Spec

\* execute() only ever returns the result that the record holds for good.
THEOREM DurableAnswers == Spec => []AnswersAreDurable
<1>1. Init => AnswersAreDurable
  BY DEF Init, AnswersAreDurable, StoredResults, OperationResults
<1>2. ASSUME Typed, Claimed, Fenced, AnswersAreDurable, [Next]_vars
      PROVE  AnswersAreDurable'
  <2> SUFFICES ASSUME NEW c \in Calls, answer'[c] \in StoredResults
               PROVE  /\ object'.state \in TerminalStates
                      /\ object'.result = answer'[c]
                      /\ object'.fingerprint = fingerprint'[c]
    BY DEF AnswersAreDurable
  <2> USE <1>2 DEF store, signals, beats, work
  <2>1. answer \in [Calls -> StoredResults \cup ThrownAnswers \cup {"pending"}]
    BY DEF Typed, TypeOK
  <2>2. "abandoned" \notin StoredResults /\ "conflict" \notin StoredResults /\ "unknown" \notin StoredResults
    BY DEF StoredResults, OperationResults
  <2>3. fingerprint' = fingerprint
    BY DEF Next, vars, Execute, Heartbeat, AbortedAtLoop, TryCreate, CreateExists, CreateFails, Read,
           Poll, ReconcileExpired, Start, AcquireOrInspect, Handoff, Cleanup, Rethrow, Persist,
           BeatSend, BeatLands, BeatLost, Abort, Crash, Deliver, Tick
  <2>4. CASE answer'[c] = answer[c]
    BY <2>3, <2>4, TerminalStep DEF AnswersAreDurable
  <2>5. CASE answer'[c] # answer[c]
    <3>1. PICK d \in Calls : \/ AbortedAtLoop(d) \/ CreateFails(d) \/ Read(d)
                             \/ ReconcileExpired(d) \/ Rethrow(d) \/ Persist(d)
      BY <2>5 DEF Next, vars, Execute, Heartbeat, TryCreate, CreateExists, Poll, Start,
                  AcquireOrInspect, Handoff, Cleanup, BeatSend, BeatLands, BeatLost,
                  Abort, Crash, Deliver, Tick
    <3>2. CASE AbortedAtLoop(d) \/ CreateFails(d) \/ Rethrow(d)
      BY <2>1, <2>2, <2>5, <3>2 DEF AbortedAtLoop, CreateFails, Rethrow, Return
    <3>3. CASE Read(d)
      BY <2>1, <2>2, <2>3, <2>5, <3>3 DEF Read, Return
    <3>4. CASE ReconcileExpired(d)
      BY <2>1, <2>2, <2>3, <2>5, <3>4, TerminalFields DEF ReconcileExpired, Return, Land
    <3>5. CASE Persist(d)
      BY <2>1, <2>2, <2>3, <2>5, <3>5, TerminalFields DEF Persist, Return, Land
    <3> QED BY <3>1, <3>2, <3>3, <3>4, <3>5
  <2> QED BY <2>4, <2>5
<1> QED
  BY <1>1, <1>2, TypedInvariant, ClaimedInvariant, FencedInvariant, PTL DEF Spec

----------------------------------------------------------------------------
\* A call that has ended keeps its operation's result and its answer.
LEMMA SettledStays ==
    ASSUME Typed, [Next]_vars, NEW r, Settled(r)
    PROVE  Settled(r)'
<1>1. PICK c \in Calls : opResult[c] = r /\ pc[c] \in Ended /\ answer[c] # "abandoned"
  BY DEF Settled
<1>2. opResult'[c] = r /\ pc'[c] \in Ended /\ answer'[c] # "abandoned"
  <2> USE <1>1 DEF Typed, TypeOK, Ended, Goto, Return, store, signals, beats, work
  <2>1. ASSUME NEW d \in Calls, Execute(d)
        PROVE  opResult'[c] = r /\ pc'[c] \in Ended /\ answer'[c] # "abandoned"
    BY <2>1 DEF Execute, AbortedAtLoop, TryCreate, CreateExists, CreateFails, Read, Poll,
                ReconcileExpired, Start, AcquireOrInspect, Handoff, Cleanup, Rethrow, Persist,
                LeaveOperation, CameTo
  <2>2. ASSUME NEW d \in Calls, Heartbeat(d) \/ Abort(d) \/ Crash(d)
        PROVE  opResult'[c] = r /\ pc'[c] \in Ended /\ answer'[c] # "abandoned"
    BY <2>2 DEF Heartbeat, BeatSend, BeatLands, BeatLost, Abort, Crash
  <2> QED BY <2>1, <2>2 DEF Next, vars, Deliver, Tick
<1> QED BY <1>2 DEF Settled

\* Every outcome in the record or still on its way to it is the true one.
LEMMA TruthfulInvariant == Spec => []Truthful
<1>1. Init => Truthful
  BY DEF Init, Truthful, Delivered, Absent, OperationResults
<1>2. ASSUME Typed, Claimed, Truthful, [Next]_vars PROVE Truthful'
  <2> USE <1>2 DEF store, signals, beats, work
  <2>1. /\ pc \in [Calls -> Waiting \cup {"reconcile"} \cup Owning \cup Ended]
        /\ opResult \in [Calls -> OperationResults \cup {"none", "running"}]
        /\ answer \in [Calls -> StoredResults \cup ThrownAnswers \cup {"pending"}]
    BY DEF Typed, TypeOK, Waiting, Owning
  <2>2. \A c \in Calls : pc[c] = "settle" =>
           opResult[c] \in OperationResults /\ opResult[c] # "abandoned"
    BY DEF Typed, OperationPhase, Unwinding, OperationResults
  <2>3. \A c \in Calls : pc[c] \notin Ended => answer[c] = "pending"
    BY DEF Typed, OperationPhase, Ended
  <2>4. "none" \notin OperationResults /\ "acquisition-reconciliation-required" \notin OperationResults
    BY DEF OperationResults
  <2>5. object'.result \in OperationResults => Settled(object.result)'
    <3>1. CASE object' = object
      BY <3>1, SettledStays DEF Truthful
    <3>2. CASE \E c \in Calls : TryCreate(c) \/ BeatLands(c)
      BY <2>4, <3>2, RunningFields DEF TryCreate, BeatLands, Land
    <3>3. CASE \E c \in Calls : ReconcileExpired(c)
      BY <2>4, <3>1, <3>3, TerminalFields DEF ReconcileExpired, Land, Lose
    <3>4. ASSUME NEW c \in Calls, Persist(c), object' # object
          PROVE  Settled(object.result)'
      <4>1. object'.result = opResult[c] /\ opResult' = opResult
        BY <3>4, TerminalFields DEF Persist, Land, Lose
      <4>2. pc'[c] \in Ended /\ answer'[c] # "abandoned"
        BY <2>1, <2>2, <3>4 DEF Persist, Land, Lose, Return, Goto, Ended
      <4> QED BY <4>1, <4>2 DEF Settled
    <3>5. ASSUME NEW w \in limbo, Deliver(w), object' # object, object'.result \in OperationResults
          PROVE  Settled(object.result)'
      <4>1. object' = w.record
        BY <3>5 DEF Deliver, Land
      <4> QED BY <3>5, <4>1, SettledStays DEF Truthful
    <3>6. object' = object \/ (\E c \in Calls : TryCreate(c) \/ BeatLands(c) \/ ReconcileExpired(c) \/ Persist(c))
                           \/ (\E w \in limbo : Deliver(w))
      BY DEF Next, vars, Execute, Heartbeat, AbortedAtLoop, CreateExists, CreateFails, Lose, Read, Poll,
             Start, AcquireOrInspect, Handoff, Cleanup, Rethrow, BeatSend, BeatLost, Abort, Crash, Tick
    <3> QED BY <3>1, <3>2, <3>3, <3>4, <3>5, <3>6
  <2>6. ASSUME NEW w \in limbo', w.record.result \in OperationResults
        PROVE  Settled(w.record.result)'
    <3>1. CASE w \in limbo
      BY <2>6, <3>1, SettledStays DEF Truthful
    <3>2. CASE w \notin limbo
      <4>1. PICK c \in Calls :
               \/ CreateFails(c) \/ BeatLost(c) \/ ReconcileExpired(c) \/ Persist(c) \/ Crash(c)
        BY <3>2 DEF Next, vars, Execute, Heartbeat, AbortedAtLoop, TryCreate, CreateExists, Read, Poll,
               Start, AcquireOrInspect, Handoff, Cleanup, Rethrow, BeatSend, BeatLands, Abort, Deliver, Tick
      <4>2. CASE CreateFails(c) \/ BeatLost(c) \/ ReconcileExpired(c)
        BY <2>4, <2>6, <3>2, <4>2, RunningFields, TerminalFields
        DEF CreateFails, BeatLost, ReconcileExpired, Lose, Linger
      <4>3. CASE Persist(c)
        <5>1. w.record.result = opResult[c]
          BY <3>2, <4>3, TerminalFields DEF Persist, Lose, Linger
        <5>2. pc'[c] \in Ended /\ answer'[c] # "abandoned" /\ opResult' = opResult
          BY <2>1, <3>2, <4>3 DEF Persist, Lose, Linger, Return, Goto, Ended
        <5> QED BY <5>1, <5>2 DEF Settled
      <4>4. CASE Crash(c)
        <5>1. w.record.result = opResult[c]
          BY <2>4, <2>6, <3>2, <4>4, RunningFields, TerminalFields DEF Crash, Linger
        <5>2. pc'[c] \in Ended /\ answer'[c] # "abandoned" /\ opResult' = opResult
          BY <2>1, <2>3, <4>4 DEF Crash, Goto, Ended
        <5> QED BY <5>1, <5>2 DEF Settled
      <4> QED BY <4>1, <4>2, <4>3, <4>4
    <3> QED BY <3>1, <3>2
  <2>7. ASSUME NEW c \in Calls PROVE Delivered(c)'
    <3>1. \A d \in Calls :
             /\ pc[d] \in {"create", "reconcile"} => opResult[d] = "none"
             /\ pc[d] \in {"start", "acquire", "inspect", "handoff"} => opResult[d] = "running"
      BY DEF Typed, OperationPhase, Waiting, Operating
    <3>2. CASE UNCHANGED <<opResult, artifacts>> /\ (pc[c] = "crashed" => pc'[c] = "crashed")
      BY <3>2 DEF Truthful, Delivered
    <3>3. ASSUME NEW d \in Calls, TryCreate(d) \/ Start(d) \/ AcquireOrInspect(d) \/ Handoff(d)
          PROVE  Delivered(c)'
      <4>1. pc[c] = "crashed" => pc'[c] = "crashed"
        BY <2>1, <3>3 DEF TryCreate, Start, AcquireOrInspect, Handoff, LeaveOperation, Goto
      <4> QED
        BY <2>1, <3>1, <3>3, <4>1
        DEF Truthful, Delivered, TryCreate, Start, AcquireOrInspect, Handoff, CameTo
    <3>4. ASSUME NEW d \in Calls, Crash(d) PROVE Delivered(c)'
      BY <2>1, <3>1, <3>4 DEF Truthful, Delivered, Crash, Goto
    <3>5. ASSUME NEW d \in Calls, Execute(d), ~(TryCreate(d) \/ Start(d) \/ AcquireOrInspect(d) \/ Handoff(d))
          PROVE  UNCHANGED <<opResult, artifacts>> /\ (pc[c] = "crashed" => pc'[c] = "crashed")
      BY <2>1, <3>5
      DEF Execute, AbortedAtLoop, CreateExists, CreateFails, Read, Poll, ReconcileExpired,
          Cleanup, Rethrow, Persist, Return, Goto, LeaveOperation, Unwinding
    <3> QED
      BY <3>2, <3>3, <3>4, <3>5
      DEF Next, vars, Heartbeat, BeatSend, BeatLands, BeatLost, Abort, Deliver, Tick
  <2> QED
    BY <2>5, <2>6, <2>7 DEF Truthful
<1> QED
  BY <1>1, <1>2, TypedInvariant, ClaimedInvariant, PTL DEF Spec

\* A record that says succeeded has its artifact in the bucket, and one that
\* says failed has none there.
THEOREM ArtifactTruth == Spec => []RecordMatchesArtifact
<1>1. ASSUME Typed, Claimed, Truthful PROVE RecordMatchesArtifact
  <2> USE <1>1
  <2>1. object.state \in {"succeeded", "failed"} =>
           object.result \in {"succeeded", "failed", "cancelled"} /\ Settled(object.result)
    BY WrittenForms DEF Typed, TypeOK, Absent, Truthful, OperationResults
  <2>2. object.state = "succeeded" => artifacts # {}
    BY <2>1, WrittenForms DEF Typed, TypeOK, Absent, Truthful, Delivered, Settled
  <2>3. ASSUME object.state = "failed", NEW c \in artifacts PROVE FALSE
    <3>1. PICK d \in Calls : opResult[d] \in {"failed", "cancelled"}
      BY <2>1, <2>3, WrittenForms DEF Typed, TypeOK, Absent, Settled
    <3>2. c \in Calls /\ opResult[c] \notin {"none", "failed", "cancelled"}
      BY DEF Truthful, Delivered, Typed, TypeOK
    <3> QED BY <3>1, <3>2 DEF Claimed, AtMostOneOperation
  <2> QED BY <2>2, <2>3 DEF RecordMatchesArtifact
<1> QED
  BY <1>1, TypedInvariant, ClaimedInvariant, TruthfulInvariant, PTL

\* An owner that was told acquisition-cancelled never succeeds behind its back.
THEOREM AbandonedStaysOpen == Spec => []AbandonedIsNotSucceeded
<1>1. ASSUME Typed, Claimed, Truthful PROVE AbandonedIsNotSucceeded
  <2> SUFFICES ASSUME NEW c \in Calls, answer[c] = "abandoned", opResult[c] # "none",
                      object.state = "succeeded"
               PROVE  FALSE
    BY DEF AbandonedIsNotSucceeded
  <2>1. object.result = "succeeded"
    BY <1>1, WrittenForms DEF Typed, TypeOK, Absent
  <2>2. PICK d \in Calls : opResult[d] = "succeeded" /\ answer[d] # "abandoned"
    BY <1>1, <2>1 DEF Truthful, Settled, OperationResults
  <2> QED BY <1>1, <2>2 DEF Claimed, AtMostOneOperation
<1> QED
  BY <1>1, TypedInvariant, ClaimedInvariant, TruthfulInvariant, PTL

----------------------------------------------------------------------------
\* What a write does to the record: nothing, the first claim, a renewal, or
\* the one step from running to a terminal record of the same request.
Claiming   == generation = 0 /\ object'.state = "running" /\ object'.result = "none"
Renewing   == object.state = "running" /\ object'.state = "running" /\ object'.result = "none"
Finishing(record) == /\ object.state = "running" /\ object' = record
                     /\ record \in Written /\ record.state \in TerminalStates
SameRequest == object'.fingerprint = object.fingerprint

\* A landed write of a claim's owner or of a reconciler, seen at the record.
LEMMA WriterLands ==
    ASSUME Typed, Claimed, Fenced, Faithful, NEW c \in Calls, Writer(c), generation = held[c]
    PROVE  /\ object.state = "running" /\ object.result = "none"
           /\ object.fingerprint = fingerprint[c]
<1>1. object.state \notin TerminalStates /\ generation # 0
  BY DEF Typed, TypeOK, Fenced, Faithful
<1> QED
  BY <1>1, WrittenForms DEF Typed, TypeOK, Absent, Claimed, OnlyAfterCreate, Faithful

\* A write out of limbo, seen at the record.
LEMMA LimboLands ==
    ASSUME Typed, Claimed, Fenced, Faithful, NEW w \in limbo, generation = w.expect,
           object' = w.record
    PROVE  Claiming \/ (Renewing /\ SameRequest) \/ (Finishing(w.record) /\ SameRequest)
<1>1. w.record \in Written /\ w.expect \in Nat
  BY DEF Typed, TypeOK, Writes
<1>2. CASE generation = 0
  BY <1>1, <1>2, WrittenForms DEF Faithful, Claiming, TerminalStates
<1>3. CASE generation # 0
  <2>1. object.state = "running"
    BY <1>1, <1>3, WrittenForms DEF Typed, TypeOK, Absent, Fenced, Claimed, OnlyAfterCreate
  <2> QED
    BY <1>1, <1>3, <2>1, WrittenForms DEF Faithful, Renewing, Finishing, SameRequest
<1> QED BY <1>2, <1>3

\* An id stays bound to the request that claimed it.
THEOREM BoundIdentity == Spec => IdentityIsBound
<1>1. ASSUME Typed, Claimed, Fenced, Faithful, [Next]_vars, object.state # "absent"
      PROVE  object'.fingerprint = object.fingerprint
  <2> USE <1>1 DEF store, signals, beats, work
  <2>1. generation # 0
    BY DEF Claimed, OnlyAfterCreate, Absent
  <2>2. ASSUME NEW c \in Calls, Execute(c) PROVE SameRequest
    <3>1. pc[c] \in {"reconcile", "settle"} => Writer(c)
      BY DEF Writer, Owning, Unwinding
    <3> QED
      BY <2>1, <2>2, <3>1, WriterLands, TerminalFields
      DEF Execute, AbortedAtLoop, TryCreate, CreateExists, CreateFails, Read, Poll,
          ReconcileExpired, Start, AcquireOrInspect, Handoff, Cleanup, Rethrow, Persist,
          Land, Lose, SameRequest
  <2>3. ASSUME NEW c \in Calls, Heartbeat(c) PROVE SameRequest
    <3>1. beat[c] = "flight" => Writer(c)
      BY DEF Typed, OperationPhase, Writer
    <3> QED
      BY <2>3, <3>1, WriterLands, RunningFields
      DEF Heartbeat, BeatSend, BeatLands, BeatLost, Land, Lose, SameRequest
  <2>4. ASSUME NEW w \in limbo, Deliver(w) PROVE SameRequest
    BY <2>1, <2>4, LimboLands DEF Deliver, Land, Claiming, SameRequest
  <2> QED
    BY <2>2, <2>3, <2>4 DEF Next, vars, Abort, Crash, Tick, SameRequest
<1>2. ASSUME Typed, Claimed, Fenced, Faithful, [Next]_vars
      PROVE  object.state # "absent" => object'.fingerprint = object.fingerprint
  BY <1>1, <1>2
<1> QED
  BY <1>2, TypedInvariant, ClaimedInvariant, FencedInvariant, FaithfulInvariant, PTL
  DEF Spec, IdentityIsBound

\* The idempotency store implements the promise of AcquisitionOutcome.
THEOREM Refinement == Spec => ImplementsOutcome
<1>1. Init => Outcome!Init
  BY DEF Init, Outcome!Init, Absent
<1>2. ASSUME IInv, [Next]_vars PROVE [Outcome!Next]_(Outcome!vars)
  <2> USE <1>2 DEF IInv, store, signals, beats, work
  <2>1. /\ generation \in Nat
        /\ answer \in [Calls -> StoredResults \cup ThrownAnswers \cup {"pending"}]
        /\ \A c \in Calls : pc[c] \notin Ended => answer[c] = "pending"
    BY DEF Typed, TypeOK, OperationPhase, Ended
  <2>2. ASSUME NEW c \in Calls, NEW a \in StoredResults \cup ThrownAnswers,
               a \in ThrownAnswers \cup {object.result},
               pc[c] \notin Ended, Return(c, a), UNCHANGED <<object, artifacts>>
        PROVE  Outcome!Next
    <3>1. Outcome!Answer(c, a)
      BY <2>1, <2>2 DEF Return, Outcome!Answer
    <3> QED BY <3>1 DEF Outcome!Next
  <2>3. ASSUME NEW r \in StoredResults, NEW record \in Written, record.result = r,
               Finishing(record), UNCHANGED artifacts,
               r = "succeeded" => artifacts # {},
               r \in {"failed", "cancelled"} => artifacts = {}
        PROVE  Outcome!Decide(r)
    BY <2>3, WrittenForms DEF Finishing, Outcome!Decide, TerminalStates, Typed, TypeOK, Absent
  <2>4. ASSUME NEW c \in Calls, opResult[c] \in OperationResults
        PROVE  /\ opResult[c] = "succeeded" => artifacts # {}
               /\ opResult[c] \in {"failed", "cancelled"} => artifacts = {}
    BY <2>4 DEF Truthful, Delivered, Claimed, AtMostOneOperation, Typed, TypeOK, OperationResults
  <2>5. ASSUME NEW c \in Calls, pc[c] = "handoff", artifacts' = artifacts \cup {c},
               UNCHANGED <<object, answer>>
        PROVE  Outcome!HandOff(c)
    <3>1. opResult[c] = "running"
      BY <2>5 DEF Typed, OperationPhase, Operating
    <3>2. artifacts = {}
      BY <2>5, <3>1 DEF Truthful, Delivered, Claimed, AtMostOneOperation, Typed, TypeOK
    <3>3. object.state # "absent"
      BY <3>1 DEF Claimed, OnlyAfterCreate
    <3>4. object.result \notin OperationResults
      BY <2>5, <3>1 DEF Truthful, Settled, Claimed, AtMostOneOperation, Ended, OperationResults
    <3>5. object.result \in {"none", "acquisition-reconciliation-required"}
      BY <3>4, WrittenForms DEF Typed, TypeOK, Absent, StoredResults
    <3> QED BY <2>5, <3>2, <3>3, <3>5 DEF Outcome!HandOff
  <2>6. ASSUME NEW c \in Calls, Execute(c) PROVE [Outcome!Next]_(Outcome!vars)
    <3> USE DEF Ended
    <3>1. CASE AbortedAtLoop(c)
      BY <2>2, <3>1 DEF AbortedAtLoop, ThrownAnswers
    <3>2. CASE TryCreate(c)
      <4>1. object = Absent
        BY <3>2 DEF TryCreate, Land, Claimed, OnlyAfterCreate
      <4>2. Outcome!Claim
        BY <3>2, <4>1, RunningFields DEF TryCreate, Land, Absent, Outcome!Claim
      <4> QED BY <4>2 DEF Outcome!Next
    <3>3. CASE CreateExists(c) \/ Poll(c) \/ Start(c) \/ AcquireOrInspect(c) \/ Cleanup(c)
      BY <3>3 DEF CreateExists, Poll, Start, AcquireOrInspect, Cleanup, Outcome!vars
    <3>4. CASE CreateFails(c)
      BY <2>2, <3>4 DEF CreateFails, Lose, ThrownAnswers
    <3>5. CASE Read(c)
      <4>1. object.state \in TerminalStates => object.result \in StoredResults
        BY WrittenForms DEF Typed, TypeOK, Absent, TerminalStates
      <4>2. CASE \/ Return(c, "unknown") \/ Return(c, "conflict")
                 \/ object.state \in TerminalStates /\ Return(c, object.result)
        BY <2>2, <3>5, <4>1, <4>2 DEF Read, ThrownAnswers
      <4>3. CASE UNCHANGED answer
        BY <3>5, <4>3 DEF Read, Outcome!vars
      <4> QED BY <3>5, <4>2, <4>3 DEF Read
    <3>6. CASE ReconcileExpired(c)
      <4> DEFINE r == "acquisition-reconciliation-required"
      <4> DEFINE closing == TerminalRecord(fingerprint[c], r)
      <4>1. closing \in Written /\ closing.state \in TerminalStates /\ closing.result = r
        BY TerminalWritten, TerminalFields DEF StoredResults, Typed, TypeOK
      <4>2. Writer(c)
        BY <3>6 DEF ReconcileExpired, Writer
      <4> HIDE DEF closing
      <4>3. CASE Land(held[c], closing, 0) /\ Return(c, closing.result)
        <5>1. Finishing(closing)
          BY <4>1, <4>2, <4>3, WriterLands DEF Land, Finishing
        <5>2. Outcome!Decide(r)
          BY <2>3, <3>6, <4>1, <5>1 DEF ReconcileExpired, StoredResults
        <5>3. Outcome!Answer(c, r)
          BY <2>1, <3>6, <4>1, <4>3, <5>2 DEF ReconcileExpired, Return, Outcome!Answer, StoredResults
        <5> QED BY <5>3 DEF Outcome!Next, StoredResults
      <4>4. CASE UNCHANGED <<store, answer>>
        BY <3>6, <4>4 DEF ReconcileExpired, Outcome!vars
      <4>5. CASE Lose(held[c], closing) /\ Return(c, "unknown")
        BY <2>2, <3>6, <4>5 DEF ReconcileExpired, Lose, ThrownAnswers
      <4> QED BY <3>6, <4>3, <4>4, <4>5 DEF ReconcileExpired, closing
    <3>7. CASE Handoff(c)
      <4>1. CASE artifacts' = artifacts
        BY <3>7, <4>1 DEF Handoff, Outcome!vars
      <4>2. CASE artifacts' = artifacts \cup {c}
        BY <2>5, <3>7, <4>2 DEF Handoff, Outcome!Next
      <4> QED BY <3>7, <4>1, <4>2 DEF Handoff
    <3>8. CASE Rethrow(c)
      BY <2>2, <3>8 DEF Rethrow, ThrownAnswers
    <3>9. CASE Persist(c)
      <4> DEFINE r == opResult[c]
      <4> DEFINE terminal == TerminalRecord(fingerprint[c], r)
      <4>1. r \in OperationResults /\ Writer(c)
        BY <3>9 DEF Persist, Typed, OperationPhase, Writer, Owning, Unwinding
      <4>2. terminal \in Written /\ terminal.state \in TerminalStates /\ terminal.result = r
        BY <4>1, TerminalWritten, TerminalFields DEF StoredResults, Typed, TypeOK
      <4> HIDE DEF terminal
      <4>3. CASE Land(held[c], terminal, 0) /\ Return(c, r)
        <5>1. Finishing(terminal)
          BY <4>1, <4>2, <4>3, WriterLands DEF Land, Finishing
        <5>2. Outcome!Decide(r)
          BY <2>3, <2>4, <3>9, <4>1, <4>2, <5>1 DEF Persist, StoredResults
        <5>3. Outcome!Answer(c, r)
          BY <2>1, <3>9, <4>1, <4>3, <5>2 DEF Persist, Return, Outcome!Answer, StoredResults
        <5> QED BY <4>1, <5>3 DEF Outcome!Next, StoredResults
      <4>4. CASE UNCHANGED store /\ Return(c, "abandoned")
        BY <2>2, <3>9, <4>4 DEF Persist, ThrownAnswers
      <4>5. CASE Lose(held[c], terminal) /\ Return(c, "unknown")
        BY <2>2, <3>9, <4>5 DEF Persist, Lose, ThrownAnswers
      <4> QED BY <3>9, <4>3, <4>4, <4>5 DEF Persist, terminal
    <3> QED
      BY <2>6, <3>1, <3>2, <3>3, <3>4, <3>5, <3>6, <3>7, <3>8, <3>9 DEF Execute
  <2>7. ASSUME NEW c \in Calls, Heartbeat(c) PROVE UNCHANGED Outcome!vars
    <3>1. beat[c] = "flight" => Writer(c)
      BY DEF Typed, OperationPhase, Writer
    <3> QED
      BY <2>7, <3>1, WriterLands, RunningFields
      DEF Heartbeat, BeatSend, BeatLands, BeatLost, Land, Lose, Outcome!vars
  <2>8. ASSUME NEW w \in limbo, Deliver(w) PROVE [Outcome!Next]_(Outcome!vars)
    <3>1. CASE UNCHANGED object
      BY <2>8, <3>1 DEF Deliver, Outcome!vars
    <3>2. CASE generation = w.expect /\ object' = w.record
      <4>1. CASE Claiming
        <5>1. object = Absent
          BY <4>1 DEF Claiming, Claimed, OnlyAfterCreate
        <5>2. Outcome!Claim
          BY <2>8, <4>1, <5>1 DEF Claiming, Absent, Deliver, Outcome!Claim
        <5> QED BY <5>2 DEF Outcome!Next
      <4>2. CASE Renewing
        <5>1. object.result = "none"
          BY <4>2, WrittenForms DEF Renewing, Typed, TypeOK, Absent, TerminalStates
        <5> QED BY <2>8, <4>2, <5>1 DEF Renewing, Deliver, Outcome!vars
      <4>3. CASE Finishing(w.record)
        <5> DEFINE r == w.record.result
        <5>1. r \in StoredResults
          BY <4>3, WrittenForms DEF Finishing, TerminalStates
        <5>2. /\ r = "succeeded" => artifacts # {}
              /\ r \in {"failed", "cancelled"} => artifacts = {}
          BY <2>4 DEF Truthful, Settled, OperationResults
        <5>3. Outcome!Decide(r) /\ UNCHANGED answer
          BY <2>3, <2>8, <4>3, <5>1, <5>2 DEF Finishing, Deliver
        <5> QED BY <5>1, <5>3 DEF Outcome!Next
      <4> QED BY <3>2, <4>1, <4>2, <4>3, LimboLands
    <3> QED BY <2>8, <3>1, <3>2 DEF Deliver, Land
  <2>9. ASSUME NEW c \in Calls, Crash(c) PROVE [Outcome!Next]_(Outcome!vars)
    <3>1. CASE UNCHANGED artifacts
      BY <2>9, <3>1 DEF Crash, Outcome!vars
    <3>2. CASE pc[c] = "handoff" /\ artifacts' = artifacts \cup {c}
      BY <2>5, <2>9, <3>2 DEF Crash, Outcome!Next
    <3> QED BY <2>9, <3>1, <3>2 DEF Crash
  <2> QED
    BY <2>6, <2>7, <2>8, <2>9 DEF Next, vars, Abort, Tick, Outcome!vars
<1> QED
  BY <1>1, <1>2, TypedInvariant, ClaimedInvariant, FencedInvariant, FaithfulInvariant,
     TruthfulInvariant, PTL
  DEF Spec, ImplementsOutcome, Outcome!Spec, IInv
----------------------------------------------------------------------------
\* The timing policy under which a claim is safe from reconcilers: when the
\* owner's renewal lands at the latest, a claim's flight, a timer's overrun and
\* the renewal's own flight after the heartbeat interval, the lease still
\* exceeds what a reader's clock may be ahead.
OnTime == LeaseTicks > HeartbeatTicks + 3 * MaxDelay + ClockSkew

\* What is left of the lease, by the state of the heartbeat that renews it.
Renewable(c) ==
    /\ beatClock[c] <= BeatLimit(c)
    /\ beat[c] = "sleep"  => lease + beatClock[c] >= LeaseTicks - MaxDelay
    /\ beat[c] = "flight" => lease + beatClock[c] >= LeaseTicks - HeartbeatTicks - 2 * MaxDelay

\* No reconciler and no write in limbo can still take the record from its owner.
Unrivalled ==
    /\ \A d \in Calls : pc[d] = "reconcile" => held[d] # generation
    /\ \A w \in limbo : w.expect # generation

Keeps(c) ==
    /\ beat[c] = "off" => beatClock[c] = 0
    /\ beat[c] # "off" /\ generation < MaxGeneration =>
          /\ object.state = "running"
          /\ generation = held[c]
          /\ Renewable(c)
          /\ Unrivalled

Kept == \A c \in Calls : Keeps(c)

\* A lease that its owner still can renew in time has not run out for anybody.
LEMMA RenewableIsLive ==
    ASSUME OnTime, Typed, NEW c \in Calls, beat[c] # "off", Renewable(c)
    PROVE  lease > ClockSkew
BY LeasePolicy, Bounds DEF OnTime, Typed, TypeOK, Renewable, BeatLimit

\* An owner whose heartbeat is alive holds the generation of a running record,
\* with enough of the lease left and nobody in a position to write over it.
LEMMA KeptInvariant ==
    ASSUME OnTime
    PROVE  Spec => []Kept
<1> USE LeasePolicy, Bounds
<1>1. Init => Kept
  BY DEF Init, Kept, Keeps
<1>2. ASSUME Typed, Claimed, Fenced, Kept, [Next]_vars PROVE Kept'
  <2> SUFFICES ASSUME NEW o \in Calls PROVE Keeps(o)'
    BY DEF Kept
  <2> USE <1>2 DEF store, signals, beats, work
  <2>1. /\ generation \in Nat
        /\ held \in [Calls -> Nat]
        /\ pc \in [Calls -> {"create", "read", "poll", "reconcile"}
                               \cup Operating \cup Unwinding \cup Ended]
        /\ beat \in [Calls -> {"off", "sleep", "flight"}]
        /\ beatClock \in [Calls -> Nat]
        /\ lease \in 0..LeaseTicks
        /\ \A w \in limbo : w.expect \in Nat /\ w.expect <= generation
        /\ \A c \in Calls : held[c] <= generation
    BY DEF Typed, TypeOK, Fenced, Writes
  <2>2. Keeps(o)
    BY DEF Kept
  <2>3. beat[o] # "off" =>
           /\ pc[o] \in Operating \cup Unwinding
           /\ generation # 0
           /\ \A d \in Calls : pc[d] \in Operating \cup Unwinding => d = o
    BY DEF Typed, OperationPhase, Owning, Operating, Unwinding, OperationResults,
           Claimed, OnlyAfterCreate, AtMostOneOperation
  \* A step that leaves the store and the heartbeat alone.
  <2>4. ASSUME UNCHANGED <<object, generation, lease, beat[o], beatClock[o]>>,
               beat[o] # "off" => UNCHANGED held[o],
               \A w \in limbo' : w \in limbo \/ w.expect = 0,
               \A d \in Calls : pc'[d] = "reconcile" =>
                   pc[d] = "reconcile" /\ UNCHANGED held[d]
        PROVE  Keeps(o)'
    BY <2>1, <2>2, <2>3, <2>4 DEF Keeps, Renewable, Unrivalled, BeatLimit
  <2>5. ASSUME NEW c \in Calls, Execute(c) PROVE Keeps(o)'
    <3> USE DEF Operating, Unwinding, Ended
    <3>1. CASE AbortedAtLoop(c) \/ CreateExists(c) \/ Poll(c) \/ Rethrow(c)
      BY <2>1, <2>4, <3>1 DEF AbortedAtLoop, CreateExists, Poll, Rethrow, Return, Goto
    <3>2. CASE TryCreate(c)
      <4>1. CASE c = o
        <5>1. \A d \in Calls : held[d] # 1
          BY <2>1, <3>2 DEF TryCreate, Land
        <5>2. Unrivalled'
          BY <2>1, <3>2, <5>1 DEF TryCreate, Land, Goto, Unrivalled
        <5>3. beatClock[o] = 0
          BY <2>1, <2>2, <2>3, <3>2, <4>1 DEF TryCreate, Keeps
        <5>4. Renewable(o)'
          BY <2>1, <3>2, <4>1, <5>3 DEF TryCreate, Land, Renewable, BeatLimit
        <5> QED
          BY <2>1, <3>2, <4>1, <5>2, <5>4, RunningFields DEF TryCreate, Land, Keeps
      <4>2. CASE c # o
        BY <2>1, <2>2, <2>3, <3>2, <4>2 DEF TryCreate, Land, Keeps
      <4> QED BY <4>1, <4>2
    <3>3. CASE CreateFails(c)
      BY <2>1, <2>4, <3>3 DEF CreateFails, Lose, Linger, Return, Goto
    <3>4. CASE Read(c)
      <4>1. CASE pc'[c] = "reconcile" /\ beat[o] # "off" /\ generation < MaxGeneration
        <5>1. lease <= ClockSkew
          BY <2>1, <3>4, <4>1 DEF Read, Return, Goto
        <5>2. lease > ClockSkew
          BY <2>2, <4>1, RenewableIsLive DEF Keeps
        <5> QED BY <2>1, <5>1, <5>2
      <4>2. CASE pc'[c] # "reconcile"
        BY <2>1, <2>3, <2>4, <3>4, <4>2 DEF Read, Return, Goto
      <4>3. CASE beat[o] = "off" \/ ~(generation < MaxGeneration)
        BY <2>2, <3>4, <4>3 DEF Read, Keeps
      <4> QED BY <4>1, <4>2, <4>3
    <3>5. CASE ReconcileExpired(c)
      <4>1. CASE generation = held[c]
        BY <2>1, <2>2, <3>5, <4>1 DEF ReconcileExpired, Land, Lose, Keeps, Unrivalled
      <4>2. CASE generation # held[c]
        BY <2>1, <2>2, <3>5, <4>2
        DEF ReconcileExpired, Land, Lose, Linger, Return, Goto, Keeps, Renewable, Unrivalled, BeatLimit
      <4> QED BY <4>1, <4>2
    <3>6. CASE Start(c) \/ AcquireOrInspect(c) \/ Handoff(c) \/ Cleanup(c)
      <4>1. UNCHANGED <<store, held>>
            /\ \A d \in Calls : pc'[d] = "reconcile" => pc[d] = "reconcile"
        BY <2>1, <3>6 DEF Start, AcquireOrInspect, Handoff, Cleanup, LeaveOperation, Goto
      <4>2. \/ UNCHANGED <<beat[o], beatClock[o]>>
            \/ beat'[o] = "off" /\ beatClock'[o] = 0
        BY <2>1, <3>6 DEF Start, AcquireOrInspect, Handoff, Cleanup, LeaveOperation
      <4>3. CASE UNCHANGED <<beat[o], beatClock[o]>>
        BY <2>4, <4>1, <4>3
      <4>4. CASE beat'[o] = "off" /\ beatClock'[o] = 0
        BY <4>4 DEF Keeps
      <4> QED BY <4>2, <4>3, <4>4
    <3>7. CASE Persist(c)
      <4>1. beat[o] = "off"
        BY <2>1, <2>3, <3>7 DEF Persist
      <4> QED BY <2>2, <3>7, <4>1 DEF Persist, Keeps
    <3> QED
      BY <2>5, <3>1, <3>2, <3>3, <3>4, <3>5, <3>6, <3>7 DEF Execute
  <2>6. ASSUME NEW c \in Calls, Heartbeat(c) PROVE Keeps(o)'
    <3>1. beat[c] # "off" /\ pc[c] \in Operating \cup Unwinding
      BY <2>6 DEF Heartbeat, BeatSend, BeatLands, BeatLost, Typed, OperationPhase, Owning
    <3>2. CASE c # o
      <4>1. beat[o] = "off"
        BY <2>3, <3>1, <3>2
      <4> QED
        BY <2>1, <2>2, <2>6, <3>2, <4>1 DEF Heartbeat, BeatSend, BeatLands, BeatLost, Keeps
    <3>3. CASE c = o /\ BeatSend(o)
      <4>1. Renewable(o)'
        BY <2>1, <2>2, <3>3 DEF BeatSend, Keeps, Renewable, BeatLimit
      <4> QED BY <2>1, <2>2, <3>3, <4>1 DEF BeatSend, Keeps, Unrivalled
    <3>4. CASE c = o /\ BeatLands(o)
      <4>1. Unrivalled'
        BY <2>1, <3>1, <3>4 DEF BeatLands, Land, Unrivalled, Operating, Unwinding
      <4>2. generation < MaxGeneration => Renewable(o)'
        BY <2>1, <2>2, <3>4 DEF BeatLands, Land, Keeps, Renewable, BeatLimit, OnTime
      <4> QED
        BY <2>1, <3>4, <4>1, <4>2, RunningFields DEF BeatLands, Land, Keeps
    <3>5. CASE c = o /\ BeatLost(o)
      BY <2>1, <3>5 DEF BeatLost, Keeps
    <3> QED BY <2>6, <3>2, <3>3, <3>4, <3>5 DEF Heartbeat
  <2>7. ASSUME NEW c \in Calls, Abort(c) PROVE Keeps(o)'
    BY <2>4, <2>7 DEF Abort
  <2>8. ASSUME NEW c \in Calls, Crash(c) PROVE Keeps(o)'
    <3>1. CASE c = o
      BY <2>1, <2>8, <3>1 DEF Crash, Keeps
    <3>2. CASE c # o /\ beat[o] = "off"
      BY <2>1, <2>2, <2>8, <3>2 DEF Crash, Keeps
    <3>3. CASE c # o /\ beat[o] # "off"
      <4>1. pc[c] \notin Operating \cup Unwinding /\ beat[c] = "off"
        BY <2>3, <3>3 DEF Typed, OperationPhase, Owning
      <4> QED
        BY <2>1, <2>4, <2>8, <3>3, <4>1 DEF Crash, Linger, Goto, Unwinding
    <3> QED BY <3>1, <3>2, <3>3
  <2>9. ASSUME NEW w \in limbo, Deliver(w) PROVE Keeps(o)'
    <3>1. CASE UNCHANGED <<object, generation, lease>>
      BY <2>4, <2>9, <3>1 DEF Deliver
    <3>2. CASE generation = w.expect /\ generation' = generation + 1
      BY <2>1, <2>2, <2>9, <3>2 DEF Deliver, Keeps, Unrivalled
    <3> QED BY <2>9, <3>1, <3>2 DEF Deliver, Land
  <2>10. CASE Tick
    <3>1. /\ beat'[o] = beat[o]
          /\ beatClock'[o] = IF beat[o] # "off" /\ beatClock[o] < BeatLimit(o)
                               THEN beatClock[o] + 1 ELSE beatClock[o]
          /\ lease' = IF lease = 0 THEN 0 ELSE lease - 1
      BY <2>10 DEF Tick
    <3>2. beat[o] # "off" /\ generation < MaxGeneration => beatClock[o] < BeatLimit(o)
      BY <2>1, <2>10 DEF Tick
    <3>3. BeatLimit(o) \in Nat /\ UNCHANGED BeatLimit(o)
      BY <3>1 DEF BeatLimit
    <3>4. beat[o] # "off" /\ generation < MaxGeneration /\ Renewable(o) => Renewable(o)'
      BY <2>1, <3>1, <3>2, <3>3 DEF Renewable
    <3> QED
      BY <2>1, <2>2, <2>10, <3>1, <3>4 DEF Tick, Keeps, Unrivalled
  <2>11. CASE UNCHANGED vars
    BY <2>4, <2>11 DEF vars
  <2> QED
    BY <2>5, <2>6, <2>7, <2>8, <2>9, <2>10, <2>11 DEF Next
<1> QED
  BY <1>1, <1>2, TypedInvariant, ClaimedInvariant, FencedInvariant, PTL DEF Spec

\* Under the timing policy no reader closes the record under a live owner: while
\* an owner's heartbeat is alive and on time its claim is the stored one.
THEOREM OwnerKeepsClaim ==
    ASSUME OnTime
    PROVE  Spec => []LiveOwnerKeepsClaim
<1>1. Kept => LiveOwnerKeepsClaim
  BY DEF Kept, Keeps, LiveOwnerKeepsClaim
<1> QED
  BY <1>1, OnTime, KeptInvariant, PTL
============================================================================
