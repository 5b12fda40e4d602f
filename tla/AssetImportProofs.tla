------------------------- MODULE AssetImportProofs -------------------------
(***************************************************************************)
(* Proofs about AssetImport, for any sets of requests and sources.  The    *)
(* inductive invariant in layers, each proved with those before it:        *)
(*   Typed      types, the forms a row can have, and where an outcome is   *)
(*              known;                                                     *)
(*   Owned      one request at most ever gets past the claim, and the row  *)
(*              is there when it does;                                     *)
(*   Progress   what that request may rely on at each place: its row, its  *)
(*              object, and that nothing has been registered yet;          *)
(*   Accounted  what a decided row says about objects, registrations and   *)
(*              the answers given;                                         *)
(*   Unanswered nobody is answered before the end, which the refinement of *)
(*              ImportOutcome needs beside the others.                     *)
(***************************************************************************)
EXTENDS AssetImport, TLAPS

Forms ==
    \/ row = Absent
    \/ \E s \in Sources : row = AcquiringRow(s)
    \/ \E s \in Sources, r \in Requests : row = SucceededRow(s, r)
    \/ \E s \in Sources, o \in Failures : row = FailedRow(s, o)

Placed ==
    \A r \in Requests :
        /\ pc[r] \in {"undo", "compensate"} => outcome[r] = "other"
        /\ pc[r] = "settle" => outcome[r] \in Failures
        /\ pc[r] \in {"claim", "prepare", "fetch", "upload", "register", "complete", "commit"}
              => outcome[r] = "none"

Typed == TypeOK /\ Forms /\ Placed

Involved(r) == r \in acquirers \/ pc[r] \in Working

Owned ==
    /\ \A r, d \in Requests : Involved(r) /\ Involved(d) => r = d
    /\ \A r \in Requests : Involved(r) => row # Absent

Stands(r) ==
    /\ pc[r] \in Working \ {"settle"} => row = AcquiringRow(source[r]) /\ registered = {}
    /\ pc[r] \in Working \ {"prepare", "settle"} => r \in acquirers
    /\ pc[r] \in {"prepare", "fetch", "upload"} => objects = {}
    /\ pc[r] \in {"register", "complete", "commit"} => r \in objects
    /\ pc[r] = "tidy" /\ outcome[r] = "none" => r \in objects
    /\ pc[r] \in {"tidy", "settle"} /\ outcome[r] \in Decisive => objects = {}
    /\ pc[r] = "settle" => row.state \in {"acquiring", "succeeded"} /\ row.source = source[r]

Progress == \A r \in Requests : Stands(r)

Accounted ==
    /\ objects \subseteq acquirers
    /\ \A r \in registered : r \in objects /\ row = SucceededRow(source[r], r)
    /\ row.state = "succeeded" => registered # {}
    /\ row.state \in {"failed_retryable", "failed_final"} => objects = {}
    /\ DecisiveAnswersAreDurable

----------------------------------------------------------------------------
\* The fields of a row by its form; only a decided row has a decisive result.
LEMMA RowFields ==
    ASSUME NEW s
    PROVE  /\ Absent.state = "absent" /\ Absent.result = "in_progress"
           /\ AcquiringRow(s).state = "acquiring" /\ AcquiringRow(s).source = s
           /\ AcquiringRow(s).result = "in_progress"
           /\ \A r : /\ SucceededRow(s, r).state = "succeeded"
                     /\ SucceededRow(s, r).source = s
                     /\ SucceededRow(s, r).result = "succeeded"
           /\ \A o \in Failures :
                 /\ FailedRow(s, o).state \in {"failed_retryable", "failed_final", "reconciliation_required"}
                 /\ FailedRow(s, o).state = "reconciliation_required" <=> o = "other"
                 /\ FailedRow(s, o).source = s
                 /\ FailedRow(s, o).result = IF o = "other" THEN "reconciliation_required" ELSE o
BY DEF Absent, AcquiringRow, SucceededRow, FailedRow, Failures, Decisive

\* Each form is a row of the table.
LEMMA RowTypes ==
    ASSUME NEW s \in Sources
    PROVE  /\ AcquiringRow(s) \in Rows
           /\ \A r \in Requests : SucceededRow(s, r) \in Rows
           /\ \A o \in Failures : FailedRow(s, o) \in Rows
BY DEF Absent, AcquiringRow, SucceededRow, FailedRow, Failures, Decisive, Rows, RowStates

\* Type correctness: the row has one of the forms the code writes, and a
\* request that compensates or settles knows what its acquisition came to.
LEMMA TypedInvariant == Spec => []Typed
<1>1. Init => Typed
  BY DEF Init, Typed, TypeOK, Forms, Placed, Absent, Rows, RowStates
<1>2. ASSUME Typed, [Next]_vars PROVE Typed'
  <2> USE <1>2 DEF Typed, TypeOK, Placed, Working, Ended
  <2>1. ASSUME NEW r \in Requests, Execute(r) PROVE Typed'
    <3> USE DEF Goto, CameTo, Reply, Failures, Answers, Decisive
    <3>1. CASE Claim(r)
      <4>1. row' = row \/ row' = AcquiringRow(source[r])
        BY <3>1 DEF Claim
      <4>2. row' \in Rows /\ Forms'
        BY <4>1, RowTypes DEF Forms
      <4> QED BY <3>1, <4>2 DEF Claim
    <3>2. CASE Replay(r)
      <4>1. row.result \in Answers
        BY <3>2 DEF Rows
      <4> QED BY <3>2, <4>1 DEF Replay, Forms
    <3>3. CASE Prepare(r)
      BY <3>3 DEF Prepare, Forms
    <3>4. CASE Fetch(r)
      BY <3>4 DEF Fetch, Forms
    <3>5. CASE Upload(r)
      BY <3>5 DEF Upload, Forms
    <3>6. CASE Register(r)
      BY <3>6 DEF Register, Forms
    <3>7. CASE Undo(r)
      BY <3>7 DEF Undo, Forms
    <3>8. CASE Tidy(r)
      BY <3>8 DEF Tidy, Forms
    <3>9. CASE Complete(r)
      BY <3>9 DEF Complete, Forms
    <3>10. CASE Compensate(r)
      BY <3>10 DEF Compensate, Forms
    <3>11. CASE Commit(r)
      <4>1. row' = row \/ row' = SucceededRow(source[r], r)
        BY <3>11 DEF Commit, Committed
      <4>2. row' \in Rows /\ Forms'
        BY <4>1, RowTypes DEF Forms
      <4> QED BY <3>11, <4>2 DEF Commit, Committed
    <3>12. CASE Settle(r)
      <4>1. row' = row \/ row' = FailedRow(source[r], outcome[r])
        BY <3>12 DEF Settle
      <4>2. outcome[r] \in Failures
        BY <3>12 DEF Settle
      <4>3. row' \in Rows /\ Forms'
        BY <4>1, <4>2, RowTypes DEF Forms
      <4>4. FailedRow(source[r], outcome[r]).result \in Answers
        BY <4>2, RowFields
      <4> QED BY <3>12, <4>3, <4>4 DEF Settle
    <3>13. CASE Hang(r)
      BY <3>13 DEF Hang, Forms
    <3> QED
      BY <2>1, <3>1, <3>2, <3>3, <3>4, <3>5, <3>6, <3>7, <3>8, <3>9, <3>10, <3>11, <3>12, <3>13 DEF Execute
  <2>2. ASSUME NEW r \in Requests, Crash(r) PROVE Typed'
    <3>1. \/ row' = row \/ row' = AcquiringRow(source[r]) \/ row' = SucceededRow(source[r], r)
          \/ outcome[r] \in Failures /\ row' = FailedRow(source[r], outcome[r])
      BY <2>2 DEF Crash, Committed
    <3>2. row' \in Rows /\ Forms'
      BY <3>1, RowTypes DEF Forms
    <3> QED BY <2>2, <3>2 DEF Crash, Committed, Goto
  <2>3. CASE UNCHANGED vars
    BY <2>3 DEF vars, Forms
  <2> QED BY <2>1, <2>2, <2>3 DEF Next
<1> QED
  BY <1>1, <1>2, PTL DEF Spec

\* Type correctness of the row, the sets and every request.
THEOREM TypeCorrect == Spec => []TypeOK
BY TypedInvariant, PTL DEF Typed

----------------------------------------------------------------------------
\* The insert decides which request gets past the claim, and nobody else does.
LEMMA OwnedInvariant == Spec => []Owned
<1>1. Init => Owned
  BY DEF Init, Owned, Involved, Working
<1>2. ASSUME Typed, Owned, [Next]_vars PROVE Owned'
  <2> USE <1>2 DEF Owned, Involved, Working
  <2>1. /\ pc \in [Requests -> {"claim", "hung"} \cup Working \cup Ended]
        /\ outcome \in [Requests -> Failures \cup {"none"}]
    BY DEF Typed, TypeOK
  <2>2. row # Absent => row' # Absent
    <3>1. \A s, r : AcquiringRow(s) # Absent /\ SucceededRow(s, r) # Absent /\ FailedRow(s, r) # Absent
      BY DEF AcquiringRow, SucceededRow, FailedRow, Absent
    <3>2. ASSUME NEW r \in Requests, Execute(r)
          PROVE  \/ row' = row \/ row' = AcquiringRow(source[r])
                 \/ row' = SucceededRow(source[r], r) \/ row' = FailedRow(source[r], outcome[r])
      BY <3>2 DEF Execute, Claim, Replay, Prepare, Fetch, Upload, Register,
                  Undo, Tidy, Complete, Compensate, Commit, Committed, Settle, Hang
    <3>3. ASSUME NEW r \in Requests, Crash(r)
          PROVE  \/ row' = row \/ row' = AcquiringRow(source[r])
                 \/ row' = SucceededRow(source[r], r) \/ row' = FailedRow(source[r], outcome[r])
      BY <3>3 DEF Crash, Committed
    <3> QED BY <3>1, <3>2, <3>3 DEF Next, vars
  <2>3. ASSUME NEW r \in Requests, Claim(r) PROVE Owned'
    <3>1. AcquiringRow(source[r]) # Absent
      BY DEF AcquiringRow, Absent
    <3> QED BY <2>1, <2>2, <2>3, <3>1 DEF Claim, Goto, Reply, Ended
  <2>4. ASSUME NEW r \in Requests, Execute(r) \/ Crash(r), ~Claim(r) PROVE Owned'
    <3>1. \A d \in Requests : Involved(d)' => Involved(d)
      BY <2>1, <2>4 DEF Execute, Replay, Prepare, Fetch, Upload, Register, Undo, Tidy, Complete,
           Compensate, Commit, Settle, Hang, Crash, Goto, Reply, Ended
    <3> QED BY <2>2, <3>1
  <2>5. CASE UNCHANGED vars
    BY <2>5 DEF vars
  <2> QED BY <2>3, <2>4, <2>5 DEF Next
<1> QED
  BY <1>1, <1>2, TypedInvariant, PTL DEF Spec

\* A key is acquired at most once.
THEOREM NeverAcquiredTwice == Spec => []AcquiredOnce
<1>1. TypeOK /\ Owned => AcquiredOnce
  BY DEF TypeOK, Owned, Involved, AcquiredOnce
<1> QED BY <1>1, TypeCorrect, OwnedInvariant, PTL

----------------------------------------------------------------------------
\* Only a row that is not there or still acquiring is ever written.
LEMMA RowStep ==
    ASSUME Typed, Progress, [Next]_vars
    PROVE  row' = row \/ row.state \in {"absent", "acquiring"}
<1>1. Absent.state = "absent" /\ \A s \in Sources : AcquiringRow(s).state = "acquiring"
  BY DEF Absent, AcquiringRow
<1>2. \A r \in Requests : pc[r] = "commit" => row.state = "acquiring"
  BY <1>1 DEF Typed, TypeOK, Progress, Stands, Working
<1>3. ASSUME NEW r \in Requests, Execute(r)
      PROVE  row' = row \/ row.state \in {"absent", "acquiring"}
  BY <1>1, <1>2, <1>3
  DEF Execute, Claim, Replay, Prepare, Fetch, Upload, Register, Undo, Tidy, Complete, Compensate,
      Commit, Settle, Hang
<1>4. ASSUME NEW r \in Requests, Crash(r)
      PROVE  row' = row \/ row.state \in {"absent", "acquiring"}
  BY <1>1, <1>2, <1>4 DEF Crash
<1> QED BY <1>3, <1>4 DEF Next, vars

\* What the owner of the key relies on, and what a decided row accounts for.
LEMMA AccountedInvariant == Spec => [](Progress /\ Accounted)
<1>1. Init => Progress /\ Accounted
  BY DEF Init, Progress, Stands, Accounted, DecisiveAnswersAreDurable, Absent, Working, Decisive
<1>2. ASSUME Typed, Owned, Progress, Accounted, [Next]_vars PROVE (Progress /\ Accounted)'
  <2> USE <1>2
  <2>1. /\ pc \in [Requests -> {"claim", "hung"} \cup Working \cup Ended]
        /\ outcome \in [Requests -> Failures \cup {"none"}]
        /\ answer \in [Requests -> Answers \cup {"pending"}]
        /\ source \in [Requests -> Sources]
        /\ objects \subseteq Requests /\ registered \subseteq Requests /\ acquirers \subseteq Requests
    BY DEF Typed, TypeOK
  <2>2. row = Absent => objects = {} /\ registered = {} /\ acquirers = {}
    BY <2>1 DEF Accounted, Owned, Involved
  <2>3. ASSUME NEW r \in Requests, pc[r] \in Working
        PROVE  \A d \in Requests : d # r => pc[d] \notin Working /\ d \notin acquirers
    BY <2>3 DEF Owned, Involved
  <2>4. \A d \in Requests : answer[d] \in Decisive => row' = row
    <3>1. row.state \in {"absent", "acquiring"} => row.result = "in_progress"
      <4>1. \A s, r : /\ AcquiringRow(s).result = "in_progress"
                      /\ SucceededRow(s, r).state = "succeeded"
                      /\ Absent.result = "in_progress"
        BY RowFields
      <4>2. \A s \in Sources, o \in Failures : FailedRow(s, o).state \notin {"absent", "acquiring"}
        BY RowFields
      <4> QED BY <4>1, <4>2 DEF Typed, Forms
    <3> QED BY <3>1, RowStep DEF Accounted, DecisiveAnswersAreDurable, Decisive
  <2>5. ASSUME NEW r \in Requests, NEW a, Reply(r, a), source' = source,
               a \in Decisive => row'.result = a /\ row'.source = source[r]
        PROVE  DecisiveAnswersAreDurable'
    BY <2>1, <2>4, <2>5 DEF Reply, Accounted, DecisiveAnswersAreDurable, Decisive
  <2>6. ASSUME UNCHANGED <<answer, source>> PROVE DecisiveAnswersAreDurable'
    BY <2>4, <2>6 DEF Accounted, DecisiveAnswersAreDurable
  <2>7. ASSUME NEW r \in Requests, pc' = [pc EXCEPT ![r] = pc'[r]], pc'[r] \notin Working,
                row = Absent \/ pc[r] \in Working
                  \/ UNCHANGED <<row, registered, objects, acquirers, source, outcome>>
         PROVE  Progress'
    <3>1. ASSUME NEW d \in Requests, d # r PROVE Stands(d)'
      <4>1. pc'[d] = pc[d]
        BY <2>1, <2>7, <3>1
      <4>2. CASE pc[d] \notin Working
        BY <4>1, <4>2 DEF Stands, Working
      <4>3. CASE pc[d] \in Working
        BY <2>3, <2>7, <3>1, <4>1, <4>3 DEF Stands, Progress, Owned, Involved
      <4> QED BY <4>2, <4>3
    <3>2. Stands(r)'
      BY <2>7 DEF Stands, Working
    <3> QED BY <3>1, <3>2 DEF Progress
  <2>8. ASSUME NEW r \in Requests, pc[r] = "settle", row.state = "acquiring",
                row' = FailedRow(source[r], outcome[r])
         PROVE  /\ registered = {} /\ row'.state # "succeeded"
                /\ row'.state \in {"failed_retryable", "failed_final"} => objects = {}
    <3>1. registered = {}
      <4>1. \A s, d : SucceededRow(s, d).state = "succeeded"
        BY RowFields
      <4> QED BY <2>8, <4>1 DEF Accounted
    <3>2. outcome[r] \in Failures
      BY <2>8 DEF Typed, Placed
    <3>3. outcome[r] # "other" => objects = {}
      BY <2>8, <3>2 DEF Progress, Stands, Decisive, Failures
    <3> QED BY <2>8, <3>1, <3>2, <3>3, RowFields
  <2>9. ASSUME NEW r \in Requests, Execute(r) PROVE (Progress /\ Accounted)'
    <3> USE DEF Goto, CameTo, Working, Ended
    <3>0. ASSUME \A d \in Requests : d # r => pc[d] \notin Working /\ pc'[d] = pc[d], Stands(r)'
          PROVE  Progress'
      BY <3>0 DEF Progress, Stands
    <3>1. CASE Claim(r)
      <4>1. CASE row = Absent /\ row' = AcquiringRow(source[r])
        <5>1. objects' = {} /\ registered' = {} /\ acquirers' = {} /\ source' = source
          BY <2>2, <3>1, <4>1 DEF Claim
        <5>2. \A d \in Requests : pc[d] \notin Working
          BY <4>1 DEF Owned, Involved
        <5>3. Stands(r)'
          BY <2>1, <3>1, <4>1, <5>1 DEF Claim, Reply, Stands
        <5>4. Progress'
          BY <2>1, <3>0, <3>1, <5>2, <5>3 DEF Claim, Reply
        <5>5. DecisiveAnswersAreDurable'
          BY <2>5, <2>6, <3>1, <4>1 DEF Claim, Decisive
        <5> QED BY <4>1, <5>1, <5>4, <5>5, RowFields DEF Accounted
      <4>2. CASE Reply(r, "internal_failure") /\ UNCHANGED row
        <5>1. Progress'
          BY <2>1, <2>7, <3>1, <4>2 DEF Claim, Reply
        <5>2. DecisiveAnswersAreDurable'
          BY <2>5, <3>1, <4>2 DEF Claim, Decisive
        <5> QED BY <3>1, <4>2, <5>1, <5>2 DEF Claim, Accounted
      <4> QED BY <3>1, <4>1, <4>2 DEF Claim
    <3>2. CASE Replay(r)
      <4>1. Progress'
        BY <2>1, <2>7, <3>2 DEF Replay, Reply
      <4>2. DecisiveAnswersAreDurable'
        BY <2>5, <3>2 DEF Replay, Decisive
      <4> QED BY <3>2, <4>1, <4>2 DEF Replay, Accounted
    <3>3. CASE Prepare(r)
      <4>1. Stands(r)'
        BY <2>1, <3>3, RowFields DEF Prepare, Progress, Stands, Decisive, Failures, Typed, Placed
      <4>2. Progress'
        BY <2>1, <2>3, <3>0, <3>3, <4>1 DEF Prepare
      <4>3. Accounted'
        BY <2>1, <2>3, <2>6, <3>3 DEF Prepare, Accounted, Progress, Stands
      <4> QED BY <4>2, <4>3
    <3>4. CASE Fetch(r)
      <4>1. Stands(r)'
        BY <2>1, <3>4 DEF Fetch, Progress, Stands, Decisive, Failures
      <4>2. Progress'
        BY <2>1, <2>3, <3>0, <3>4, <4>1 DEF Fetch
      <4>3. Accounted'
        BY <2>1, <2>3, <2>6, <3>4 DEF Fetch, Accounted, Progress, Stands
      <4> QED BY <4>2, <4>3
    <3>5. CASE Upload(r)
      <4>1. Stands(r)'
        BY <2>1, <3>5 DEF Upload, Progress, Stands, Decisive, Failures
      <4>2. Progress'
        BY <2>1, <2>3, <3>0, <3>5, <4>1 DEF Upload
      <4>3. Accounted'
        BY <2>1, <2>3, <2>6, <3>5, RowFields DEF Upload, Accounted, Progress, Stands
      <4> QED BY <4>2, <4>3
    <3>6. CASE Register(r)
      <4>1. Stands(r)'
        BY <2>1, <3>6, RowFields DEF Register, Progress, Stands, Decisive, Failures, Typed, Placed
      <4>2. Progress'
        BY <2>1, <2>3, <3>0, <3>6, <4>1 DEF Register
      <4>3. Accounted'
        BY <2>1, <2>3, <2>6, <3>6 DEF Register, Accounted, Progress, Stands
      <4> QED BY <4>2, <4>3
    <3>7. CASE Undo(r)
      <4>1. Stands(r)'
        BY <2>1, <3>7, RowFields DEF Undo, Progress, Stands, Decisive, Failures, Typed, Placed
      <4>2. Progress'
        BY <2>1, <2>3, <3>0, <3>7, <4>1 DEF Undo
      <4>3. Accounted'
        BY <2>1, <2>3, <2>6, <3>7 DEF Undo, Accounted, Progress, Stands
      <4> QED BY <4>2, <4>3
    <3>8. CASE Tidy(r)
      <4>1. Stands(r)'
        BY <2>1, <3>8, RowFields DEF Tidy, Progress, Stands, Decisive, Failures, Typed, Placed
      <4>2. Progress'
        BY <2>1, <2>3, <3>0, <3>8, <4>1 DEF Tidy
      <4>3. Accounted'
        BY <2>1, <2>3, <2>6, <3>8 DEF Tidy, Accounted, Progress, Stands
      <4> QED BY <4>2, <4>3
    <3>9. CASE Complete(r)
      <4>1. Stands(r)'
        BY <2>1, <3>9 DEF Complete, Progress, Stands, Decisive, Failures
      <4>2. Progress'
        BY <2>1, <2>3, <3>0, <3>9, <4>1 DEF Complete
      <4>3. Accounted'
        BY <2>1, <2>3, <2>6, <3>9 DEF Complete, Accounted, Progress, Stands
      <4> QED BY <4>2, <4>3
    <3>10. CASE Compensate(r)
      <4>1. Stands(r)'
        BY <2>1, <3>10, RowFields DEF Compensate, Progress, Stands, Decisive, Failures, Typed, Placed
      <4>2. Progress'
        BY <2>1, <2>3, <3>0, <3>10, <4>1 DEF Compensate
      <4>3. Accounted'
        BY <2>1, <2>3, <2>6, <3>10 DEF Compensate, Accounted, Progress, Stands
      <4> QED BY <4>2, <4>3
    <3>11. CASE Commit(r)
      <4>1. /\ row = AcquiringRow(source[r]) /\ registered = {} /\ r \in objects
            /\ pc[r] \in Working /\ row.state = "acquiring" /\ row.source = source[r]
        BY <3>11, RowFields DEF Commit, Progress, Stands
      <4>2. Committed(r) =>
               /\ row'.state = "succeeded" /\ row'.source = source[r] /\ row'.result = "succeeded"
               /\ registered' = {r}
        BY <4>1, RowFields DEF Committed
      <4>3. Stands(r)'
        BY <2>1, <3>11, <4>1, <4>2 DEF Commit, Reply, Stands, Decisive
      <4>4. Progress'
        BY <2>1, <2>3, <3>0, <3>11, <4>1, <4>3 DEF Commit, Reply
      <4>5. DecisiveAnswersAreDurable'
        BY <2>5, <2>6, <3>11, <4>2 DEF Commit
      <4> QED BY <3>11, <4>1, <4>2, <4>4, <4>5 DEF Commit, Committed, Accounted
    <3>12. CASE Settle(r)
      <4>1. Progress'
        BY <2>1, <2>7, <3>12 DEF Settle, Reply
      <4>2. DecisiveAnswersAreDurable'
        BY <2>5, <3>12, RowFields DEF Settle, Decisive, Typed, Placed
      <4>3. CASE UNCHANGED row
        BY <3>12, <4>1, <4>2, <4>3 DEF Settle, Accounted
      <4>4. CASE row.state = "acquiring" /\ row' = FailedRow(source[r], outcome[r])
        BY <3>12, <4>1, <4>2, <4>4, <2>8 DEF Settle, Accounted
      <4> QED BY <3>12, <4>3, <4>4 DEF Settle
    <3>13. CASE Hang(r)
      BY <2>1, <2>3, <2>6, <3>13 DEF Hang, Progress, Stands, Accounted
    <3> QED
      BY <2>9, <3>1, <3>2, <3>3, <3>4, <3>5, <3>6, <3>7, <3>8, <3>9, <3>10, <3>11, <3>12, <3>13 DEF Execute
  <2>10. ASSUME NEW r \in Requests, Crash(r) PROVE (Progress /\ Accounted)'
    <3> USE DEF Goto, Working, Ended
    <3>1. DecisiveAnswersAreDurable' /\ UNCHANGED <<acquirers, source>>
      BY <2>6, <2>10 DEF Crash
    <3>2. Progress'
      BY <2>1, <2>10, <2>7 DEF Crash
    <3>3. CASE UNCHANGED <<row, registered, objects>>
      BY <3>1, <3>2, <3>3 DEF Accounted
    <3>4. CASE pc[r] = "claim" /\ row = Absent /\ row' = AcquiringRow(source[r]) /\ UNCHANGED <<registered, objects>>
      BY <2>2, <3>1, <3>2, <3>4, RowFields DEF Accounted
    <3>5. CASE pc[r] = "upload" /\ objects' = objects \cup {r} /\ UNCHANGED <<row, registered>>
      BY <3>1, <3>2, <3>5, RowFields DEF Accounted, Progress, Stands
    <3>6. CASE pc[r] \in {"undo", "compensate"} /\ objects' = objects \ {r} /\ UNCHANGED <<row, registered>>
      BY <3>1, <3>2, <3>6, RowFields DEF Accounted, Progress, Stands
    <3>7. CASE pc[r] = "commit" /\ Committed(r) /\ UNCHANGED objects
      BY <3>1, <3>2, <3>7, RowFields DEF Committed, Accounted, Progress, Stands
    <3>8. CASE /\ pc[r] = "settle" /\ row.state = "acquiring"
               /\ row' = FailedRow(source[r], outcome[r]) /\ UNCHANGED <<registered, objects>>
      BY <2>8, <3>1, <3>2, <3>8 DEF Accounted
    <3> QED BY <2>10, <3>3, <3>4, <3>5, <3>6, <3>7, <3>8 DEF Crash
  <2>11. CASE UNCHANGED vars
    BY <2>11 DEF vars, Progress, Stands, Accounted, DecisiveAnswersAreDurable
  <2> QED BY <2>9, <2>10, <2>11 DEF Next
<1> QED
  BY <1>1, <1>2, TypedInvariant, OwnedInvariant, PTL DEF Spec

\* A registered media row has its object, and the row of the key names it.
THEOREM RegistrationsAreStored == Spec => []RegisteredIsStored
<1>1. Typed /\ Progress /\ Accounted => RegisteredIsStored
  BY DEF Accounted, RegisteredIsStored, SucceededRow
<1> QED BY <1>1, TypedInvariant, AccountedInvariant, PTL

\* A key that is decided has left no object without a registration behind.
THEOREM NoOrphans == Spec => []DecidedLeavesNoOrphan
<1>1. ASSUME Typed, Owned, Accounted PROVE DecidedLeavesNoOrphan
  <2>1. \A r, d \in objects : r = d
    BY <1>1 DEF Typed, TypeOK, Owned, Involved, Accounted
  <2> QED BY <1>1, <2>1 DEF Accounted, DecidedLeavesNoOrphan
<1> QED BY <1>1, TypedInvariant, OwnedInvariant, AccountedInvariant, PTL

\* What a caller is told about the import is what the row says for good.
THEOREM DurableAnswers == Spec => []DecisiveAnswersAreDurable
BY AccountedInvariant, PTL DEF Accounted

\* A decided row is final.
THEOREM RowIsFinal == Spec => DecidedRowIsFinal
<1>1. ASSUME Typed, Progress, [Next]_vars
      PROVE  row.state \notin {"absent", "acquiring"} => UNCHANGED row
  BY <1>1, RowStep
<1> QED BY <1>1, TypedInvariant, AccountedInvariant, PTL DEF Spec, DecidedRowIsFinal
----------------------------------------------------------------------------
\* A request is answered at its end and not before.
Unanswered == \A r \in Requests : pc[r] # "done" => answer[r] = "pending"

\* Nobody is answered twice: no place but the end follows an answer.
LEMMA UnansweredInvariant == Spec => []Unanswered
<1>1. Init => Unanswered
  BY DEF Init, Unanswered
<1>2. ASSUME Typed, Unanswered, [Next]_vars PROVE Unanswered'
  <2> USE <1>2 DEF Unanswered, Typed, TypeOK, Goto, Reply, Ended
  <2>1. ASSUME NEW r \in Requests, Execute(r) PROVE Unanswered'
    BY <2>1 DEF Execute, Claim, Replay, Prepare, Fetch, Upload, Register, Undo, Tidy,
                Complete, Compensate, Commit, Settle, Hang
  <2>2. ASSUME NEW r \in Requests, Crash(r) PROVE Unanswered'
    BY <2>2 DEF Crash
  <2> QED BY <2>1, <2>2 DEF Next, vars
<1> QED BY <1>1, <1>2, TypedInvariant, PTL DEF Spec

\* A row is bound to a source from its claim on, and is open while acquiring.
LEMMA RowReading ==
    ASSUME Typed
    PROVE  /\ row = Absent <=> row.source = "none"
           /\ row = Absent <=> row.state = "absent"
           /\ row.state \in {"absent", "acquiring"} => row.result = "in_progress"
           /\ row.state \notin {"absent", "acquiring"} =>
                 row.result \in Decisive \cup {"reconciliation_required"}
<1>1. Absent.source = "none" /\ Absent.state = "absent" /\ Absent.result = "in_progress"
  BY DEF Absent
<1>2. CASE \E s \in Sources : row = AcquiringRow(s)
  BY <1>1, <1>2, RowFields, SourcesAreDigests
<1>3. CASE \E s \in Sources, r \in Requests : row = SucceededRow(s, r)
  BY <1>1, <1>3, RowFields, SourcesAreDigests DEF Decisive
<1>4. CASE \E s \in Sources, o \in Failures : row = FailedRow(s, o)
  BY <1>1, <1>4, RowFields, SourcesAreDigests DEF Decisive, Failures
<1> QED BY <1>1, <1>2, <1>3, <1>4 DEF Typed, Forms

\* The import command implements the promise of ImportOutcome.
THEOREM Refinement == Spec => ImplementsOutcome
<1>1. Init => Outcome!Init
  BY DEF Init, Outcome!Init, Absent
<1>2. ASSUME Typed, Owned, Progress, Accounted, Unanswered, [Next]_vars
      PROVE  [Outcome!Next]_(Outcome!vars)
  <2> USE <1>2
  <2>1. /\ source \in [Requests -> Sources]
        /\ outcome \in [Requests -> Failures \cup {"none"}]
        /\ registered \subseteq Requests /\ objects \subseteq Requests
        /\ objects \subseteq acquirers
    BY DEF Typed, TypeOK, Accounted
  <2>2. ASSUME NEW r \in Requests, Outcome!Change \/ UNCHANGED <<row, objects, registered>>,
               UNCHANGED <<source, answer>>
        PROVE  [Outcome!Next]_(Outcome!vars)
    BY <2>2 DEF Outcome!Next, Outcome!vars
  \* The step of a request that is working on an acquiring row.
  <2>3. ASSUME NEW r \in Requests, pc[r] \in Working \ {"settle"}
        PROVE  /\ Outcome!Open /\ row.source = source[r] /\ row.state = "acquiring"
               /\ registered = {}
    BY <2>1, <2>3, RowFields, SourcesAreDigests DEF Outcome!Open, Progress, Stands
  <2>4. ASSUME NEW r \in Requests, row = Absent, row' = AcquiringRow(source[r]),
               UNCHANGED <<objects, registered>>
        PROVE  Outcome!Bind(r)
    BY <2>4, RowFields DEF Outcome!Bind, Absent
  <2>5. ASSUME NEW r \in Requests, pc[r] = "upload", objects' = objects \cup {r},
               UNCHANGED <<row, registered>>
        PROVE  Outcome!Store(r)
    BY <2>3, <2>5 DEF Outcome!Store, Progress, Stands, Working
  <2>6. ASSUME NEW r \in Requests, pc[r] \in {"undo", "compensate"}, objects' = objects \ {r},
               UNCHANGED <<row, registered>>
        PROVE  Outcome!Discard
    <3>1. objects' = {}
      BY <2>1, <2>6 DEF Owned, Involved, Working
    <3> QED BY <2>3, <2>6, <3>1 DEF Outcome!Discard, Working
  <2>7. ASSUME NEW r \in Requests, pc[r] = "commit", Committed(r), UNCHANGED objects
        PROVE  /\ Outcome!Publish(r)
               /\ row'.state = "succeeded" /\ row'.result = "succeeded" /\ row'.source = source[r]
    <3>1. objects = {r}
      BY <2>1, <2>7 DEF Progress, Stands, Owned, Involved, Working
    <3> QED BY <2>3, <2>7, <3>1, RowFields DEF Outcome!Publish, Committed, Working
  <2>8. ASSUME NEW r \in Requests, pc[r] = "settle", row.state = "acquiring",
               row' = FailedRow(source[r], outcome[r]), UNCHANGED <<objects, registered>>
        PROVE  /\ \E f \in Decisive \cup {"reconciliation_required"} :
                     f # "succeeded" /\ Outcome!GiveUp(f)
               /\ row'.state \notin {"absent", "acquiring"} /\ row'.source = source[r]
    <3>1. outcome[r] \in Failures /\ row.source = source[r]
      BY <2>8 DEF Typed, Placed, Progress, Stands
    <3>2. outcome[r] \in Decisive => objects = {}
      BY <2>8 DEF Progress, Stands
    <3>3. Outcome!Open
      BY <2>1, <2>8, <3>1, SourcesAreDigests DEF Outcome!Open
    <3>4. /\ row'.state \in {"failed_retryable", "failed_final", "reconciliation_required"}
          /\ row'.source = source[r]
          /\ row'.result = IF outcome[r] = "other" THEN "reconciliation_required" ELSE outcome[r]
      BY <2>8, <3>1, RowFields
    <3>5. Outcome!GiveUp(row'.result)
      BY <2>8, <3>1, <3>2, <3>3, <3>4 DEF Outcome!GiveUp, Decisive
    <3> QED BY <3>1, <3>4, <3>5 DEF Failures, Decisive
  <2>9. ASSUME NEW r \in Requests, NEW a \in Answers, answer' = [answer EXCEPT ![r] = a],
               pc[r] # "done", UNCHANGED source,
               Outcome!Change \/ UNCHANGED <<row, objects, registered>>,
               a \in Decisive =>
                  row'.result = a /\ row'.source = source[r] /\ row'.state \notin {"absent", "acquiring"},
               a = "in_progress" => row'.state \in {"absent", "acquiring"} /\ row'.source = source[r],
               a = "conflict" => row'.source \notin {"none", source[r]},
               a = "reconciliation_required" => row'.source = source[r]
        PROVE  Outcome!Next
    <3>1. Outcome!Tell(r, a)
      BY <2>9 DEF Outcome!Tell, Unanswered, Decisive
    <3> QED BY <2>9, <3>1 DEF Outcome!Next, Outcome!Change, Answers
  <2>10. ASSUME NEW r \in Requests, Execute(r) PROVE [Outcome!Next]_(Outcome!vars)
    <3>1. CASE Claim(r)
      <4>1. Outcome!Change \/ UNCHANGED <<row, objects, registered>>
        BY <2>4, <3>1 DEF Claim, Outcome!Change
      <4>2. CASE UNCHANGED answer
        BY <2>2, <3>1, <4>1, <4>2 DEF Claim
      <4>3. CASE Reply(r, "internal_failure")
        BY <2>9, <3>1, <4>1, <4>3 DEF Claim, Reply, Answers, Decisive
      <4> QED BY <3>1, <4>2, <4>3 DEF Claim
    <3>2. CASE Replay(r)
      <4>1. PICK a : /\ answer' = [answer EXCEPT ![r] = a]
                     /\ a \in {IF row.source = source[r] THEN row.result ELSE "conflict",
                               "internal_failure"}
        BY <3>2 DEF Replay, Reply
      <4>2. row.result \in Decisive \cup {"in_progress", "reconciliation_required"}
        BY RowReading
      <4> QED BY <2>9, <3>2, <4>1, <4>2, RowReading DEF Replay, Answers, Decisive
    <3>3. CASE \/ Prepare(r) \/ Fetch(r) \/ Register(r) \/ Tidy(r) \/ Complete(r) \/ Hang(r)
      BY <2>2, <3>3 DEF Prepare, Fetch, Register, Tidy, Complete, Hang
    <3>4. CASE Upload(r)
      BY <2>2, <2>5, <3>4 DEF Upload, Outcome!Change
    <3>5. CASE Undo(r) \/ Compensate(r)
      BY <2>2, <2>6, <3>5 DEF Undo, Compensate, Outcome!Change
    <3>6. CASE Commit(r)
      <4>1. Committed(r) => Outcome!Change
        BY <2>7, <3>6 DEF Commit, Outcome!Change
      <4>2. CASE UNCHANGED answer
        BY <2>2, <3>6, <4>1, <4>2 DEF Commit
      <4>3. CASE Committed(r) /\ Reply(r, "succeeded")
        BY <2>7, <2>9, <3>6, <4>1, <4>3 DEF Commit, Reply, Answers, Decisive
      <4> QED BY <3>6, <4>2, <4>3 DEF Commit
    <3>7. CASE Settle(r)
      <4> DEFINE failed == FailedRow(source[r], outcome[r])
      <4>1. outcome[r] \in Failures /\ row.source = source[r]
        BY <3>7 DEF Settle, Typed, Placed, Progress, Stands
      <4>2. /\ failed.result \in Answers
            /\ failed.result \notin {"in_progress", "conflict"}
        BY <4>1, RowFields DEF Answers, Decisive, Failures
      <4> HIDE DEF failed
      <4>3. CASE row.state = "acquiring" /\ row' = failed
        <5>1. Outcome!Change /\ row'.state \notin {"absent", "acquiring"} /\ row'.source = source[r]
          BY <2>8, <3>7, <4>3 DEF Settle, Outcome!Change, failed
        <5>2. PICK a : /\ answer' = [answer EXCEPT ![r] = a]
                       /\ a \in {failed.result, "reconciliation_required", "internal_failure"}
          BY <3>7, <4>3 DEF Settle, Reply, failed
        <5> QED BY <2>9, <3>7, <4>2, <4>3, <5>1, <5>2 DEF Settle, Answers, Decisive
      <4>4. CASE UNCHANGED row /\ Reply(r, "reconciliation_required")
        BY <2>9, <3>7, <4>1, <4>4 DEF Settle, Reply, Answers, Decisive
      <4> QED BY <3>7, <4>3, <4>4 DEF Settle, failed
    <3> QED
      BY <2>10, <3>1, <3>2, <3>3, <3>4, <3>5, <3>6, <3>7 DEF Execute
  <2>11. ASSUME NEW r \in Requests, Crash(r) PROVE [Outcome!Next]_(Outcome!vars)
    <3>1. Outcome!Change \/ UNCHANGED <<row, objects, registered>>
      BY <2>4, <2>5, <2>6, <2>7, <2>8, <2>11 DEF Crash, Outcome!Change
    <3> QED BY <2>2, <2>11, <3>1 DEF Crash
  <2>12. CASE UNCHANGED vars
    BY <2>12 DEF vars, Outcome!vars
  <2> QED BY <2>10, <2>11, <2>12 DEF Next
<1> QED
  BY <1>1, <1>2, TypedInvariant, OwnedInvariant, AccountedInvariant, UnansweredInvariant, PTL
  DEF Spec, ImplementsOutcome, Outcome!Spec
============================================================================
