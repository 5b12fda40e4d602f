------------------------ MODULE ReconciliationProofs ------------------------
(***************************************************************************)
(* The properties of Reconciliation, for any workers and drafts, that it   *)
(* implements ReconciliationOutcome, and that no workers wait in a circle. *)
(***************************************************************************)
EXTENDS Reconciliation, TLAPS

\* A transaction that has asked for its COMMIT, with or without an answer.
Moved(w) == pc[w] = "commit" \/ tx[w] = "sent"

\* Where a worker is, and what its transaction has written by then.
Placed ==
    \A w \in Workers :
        /\ pc[w] \in {"idle", "held"} <=> tx[w] # "open"
        /\ tx[w] = "none" => wrote[w] = {}
        /\ "request" \in wrote[w] <=> Moved(w)

\* What a worker knows is not ahead of the row.
Fresh ==
    \A w \in Workers :
        /\ record[w].fence <= row.fence /\ record[w].revision <= row.revision
        /\ input[w].fence <= row.fence /\ input[w].revision <= row.revision

\* A transaction that has locked the row still has the claim that it decided on.
Locked == \A w \in Workers : "request" \in wrote[w] => Authorized(w)

\* One transaction has locked the row, and one has inserted a draft.
OneMoves ==
    \A w, v \in Workers : "request" \in wrote[w] /\ "request" \in wrote[v] => w = v

OneInserts ==
    \A w, v \in Workers, t \in Tables :
        t \in wrote[w] /\ t \in wrote[v] /\ input[w].id = input[v].id => w = v

Written(w, t) == t \in wrote[w] \/ table[t][input[w].id] = Draft(w, t)

\* What each place has behind it.
Drafted ==
    \A w \in Workers :
        /\ \A t \in Tables : t \in wrote[w] => table[t][input[w].id] = None
        /\ pc[w] \in {"resolution", "outbox", "cas"} \/ Moved(w) => Written(w, "observation")
        /\ input[w].result # "unavailable" /\ (pc[w] \in {"outbox", "cas"} \/ Moved(w)) =>
             Written(w, "resolution")
        /\ input[w].result # "unavailable" /\ (pc[w] = "cas" \/ Moved(w)) =>
             Written(w, "outbox")
        /\ input[w].result = "unavailable" =>
             /\ pc[w] \notin {"resolution", "outbox"}
             /\ "resolution" \notin wrote[w] /\ "outbox" \notin wrote[w]

\* Somebody closes the request without a result.
Closes == \E state \in {"cancelled", "manual-repair-required"} : Close(state)

IInv ==
    /\ TypeOK /\ Placed /\ Fresh /\ Locked /\ OneMoves /\ OneInserts /\ Drafted
    /\ ResolutionMatchesRequest /\ CommittedIsFinal /\ ConflictsAreFinal
----------------------------------------------------------------------------
\* What a worker learns from its own statement.
LEMMA BumpEffect == ASSUME TypeOK, NEW w \in Workers, Bump(w), row.fence = record[w].fence PROVE
   /\ record' \in [Workers -> [revision : Nat, fence : Nat]]
   /\ \A v \in Workers : record'[v].fence = record[v].fence
   /\ \A v \in Workers : record'[v].revision \in {record[v].revision, row.revision + 1}
<1>1. row.revision \in Nat /\ row.fence \in Nat
  BY DEF TypeOK, Requests
<1>2. CASE UNCHANGED record
  BY <1>2 DEF TypeOK
<1>3. CASE record' = [record EXCEPT ![w] = [revision |-> row.revision + 1, fence |-> row.fence]]
  <2> DEFINE new == [revision |-> row.revision + 1, fence |-> row.fence]
  <2>1. new \in [revision : Nat, fence : Nat] /\ new.fence = record[w].fence /\ new.revision = row.revision + 1
    BY <1>1
  <2>2. record' = [record EXCEPT ![w] = new] BY <1>3
  <2> HIDE DEF new
  <2> QED BY <2>1, <2>2 DEF TypeOK
<1> QED BY <1>2, <1>3 DEF Bump

\* A draft always says something.
LEMMA DraftSays == ASSUME TypeOK, NEW w \in Workers, NEW t \in Tables PROVE
   /\ Draft(w, t) \in Results /\ Draft(w, t) # None
   /\ t # "observation" => Draft(w, t) = input[w].result
  BY NoneIsNothing DEF TypeOK, Draft, Says, Results

\* Where a completion leaves the request.
LEMMA Moves == ASSUME NEW r \in Results PROVE
   /\ NextState(r) \in Decided \cup {"retry-wait"}
   /\ NextState(r) \in Decided <=> r # "unavailable"
  BY DEF NextState, Results, Decided

\* What a transaction that commits leaves in the four tables.
LEMMA ApplyEffect == ASSUME TypeOK, NEW w \in Workers, Apply(w) PROVE
   /\ row' \in Requests
   /\ "request" \notin wrote[w] => row' = row
   /\ "request" \in wrote[w] =>
      /\ row'.fence = row.fence /\ row'.revision = row.revision + 1 /\ row'.owner = None
      /\ row'.state = NextState(input[w].result)
      /\ row'.result = IF input[w].result = "unavailable" THEN None ELSE input[w].result
   /\ table' \in [Tables -> [Ids -> Results \cup {None}]]
   /\ \A t \in Tables, e \in Ids : table'[t][e] =
        IF t \in wrote[w] /\ e = input[w].id THEN Draft(w, t) ELSE table[t][e]
<1>1. table' \in [Tables -> [Ids -> Results \cup {None}]]
   BY DraftSays DEF TypeOK, Apply
<1>2. \A t \in Tables, e \in Ids : table'[t][e] =
        IF t \in wrote[w] /\ e = input[w].id THEN Draft(w, t) ELSE table[t][e]
   BY DEF TypeOK, Apply
<1>t. row \in Requests /\ row.fence \in Nat /\ input[w].result \in Results
   BY DEF TypeOK, Requests
<1>3. CASE "request" \notin wrote[w]
  BY <1>1, <1>2, <1>3, <1>t DEF Apply
<1>4. CASE "request" \in wrote[w]
  <2> DEFINE state == NextState(input[w].result)
             result == IF input[w].result = "unavailable" THEN None ELSE input[w].result
  <2>1. SetRow(state, None, row.fence, FALSE, result)
    BY <1>4 DEF Apply
  <2>2. state \in Terminal \cup {"retry-wait"} /\ result \in Results \cup {None}
    BY <1>t, Moves DEF Terminal
  <2> HIDE DEF state, result
  <2>3. /\ row' \in Requests /\ row'.state = state /\ row'.revision = row.revision + 1
        /\ row'.fence = row.fence /\ row'.owner = None /\ row'.result = result
    BY <1>t, <2>1, <2>2 DEF SetRow, Requests
  <2> QED BY <1>1, <1>2, <1>4, <2>3 DEF state, result
<1> QED BY <1>3, <1>4

\* A rollback keeps the types.
LEMMA RefuseTyped == ASSUME TypeOK, NEW w \in Workers, NEW a \in Answers, Refuse(w, a) PROVE TypeOK'
  BY DEF TypeOK, Refuse, Goto, Say, Places

\* An insert, a replay and a conflict keep the types.
LEMMA AppendTyped == ASSUME TypeOK, NEW w \in Workers, NEW t \in Tables, NEW m, NEW n \in Places, Append(w, t, m, n)
   PROVE TypeOK'
<1>1. CASE Refuse(w, "semantic-conflict")
  BY <1>1, RefuseTyped DEF Answers
<1>2. CASE \E p \in Places : Goto(w, p) /\ UNCHANGED <<row, table, record, input, tx, wrote, answer>>
  BY <1>2 DEF TypeOK, Goto
<1>3. CASE wrote' = [wrote EXCEPT ![w] = @ \cup {t}] /\ Goto(w, n) /\ UNCHANGED <<row, table, record, input, tx, answer>>
  BY <1>3 DEF TypeOK, Goto
<1> QED BY <1>1, <1>2, <1>3 DEF Append, Places

\* A COMMIT writes the resolution, its observation and its event with the row, or
\* ("unavailable") none of the first three.
LEMMA ApplyMatches ==
    ASSUME IInv, NEW w \in Workers, Moved(w), Apply(w)
    PROVE  ResolutionMatchesRequest'
<1> USE NoneIsNothing DEF IInv
<1> DEFINE i == input[w]
<1>1. /\ "request" \in wrote[w] /\ i.id \in Ids /\ i.result \in Results /\ i.result # None
      /\ \A e \in Ids : table["resolution"][e] = None /\ table["outbox"][e] = None
  <2>1. "request" \in wrote[w] /\ row.state \in Leased
    BY DEF Placed, Locked, Authorized
  <2> QED BY <2>1 DEF ResolutionMatchesRequest, Leased, Decided, TypeOK, Results
<1>2. \A t \in Tables, e \in Ids : table'[t][e] =
        IF t \in wrote[w] /\ e = i.id THEN Draft(w, t) ELSE table[t][e]
  BY ApplyEffect
<1>3. CASE i.result = "unavailable"
  <2>1. row'.state \notin Decided
    BY <1>1, <1>3, ApplyEffect, Moves
  <2>2. \A t \in {"resolution", "outbox"}, e \in Ids : table'[t][e] = None
    BY <1>1, <1>2, <1>3 DEF Drafted, Tables
  <2> QED BY <2>1, <2>2 DEF ResolutionMatchesRequest
<1>4. CASE i.result # "unavailable"
  <2>1. row'.state = NextState(i.result) /\ row'.state \in Decided /\ row'.result = i.result
    BY <1>1, <1>4, ApplyEffect, Moves
  <2>2. \A t \in Tables : Written(w, t)
    BY <1>4 DEF Drafted, Tables
  <2>3. \A t \in Tables : table'[t][i.id] = Draft(w, t) /\ Draft(w, t) = Says(t, row'.result)
    BY <1>1, <1>2, <2>1, <2>2 DEF Written, Draft
  <2>4. \A t \in {"resolution", "outbox"}, e \in Ids : e # i.id => table'[t][e] = None
    BY <1>1, <1>2 DEF Tables
  <2>5. table'["resolution"][i.id] # None
    BY <2>3, DraftSays DEF Tables
  <2> QED BY <1>1, <2>1, <2>3, <2>4, <2>5 DEF ResolutionMatchesRequest, Tables
<1> QED BY <1>3, <1>4

\* Every step keeps the types: each of the four tables, and what every worker knows.
LEMMA TypeOKStep == IInv /\ [Next]_vars => TypeOK'
<1> SUFFICES ASSUME IInv, [Next]_vars PROVE TypeOK'
  OBVIOUS
<1> USE NoneIsNothing DEF IInv
<1>1. CASE Expire
  BY <1>1 DEF Expire, Answers, Leased, Places, Requests, Results, Tables, Decided, Terminal,
       TypeOK
<1>2. CASE Closes
  BY <1>2 DEF Closes, Close, RowLocked, SetRow, Answers, Leased, Places, Requests, Results,
       Tables, Decided, Terminal, TypeOK
<1>3. ASSUME NEW w \in Workers, Worker(w) PROVE TypeOK'
  <2>1. CASE Claim(w)
    <3>1. row' \in Requests
      BY <2>1 DEF SetRow, Claim, TypeOK, Requests, NextFence, Leased, Decided, Terminal
    <3>2. record' \in [Workers -> [revision : Nat, fence : Nat]]
      <4>1. row.revision + 1 \in Nat /\ NextFence \in Nat
        BY DEF TypeOK, Requests, NextFence
      <4> QED BY <4>1, <2>1 DEF Claim, TypeOK
    <3>3. pc' \in [Workers -> Places] /\ answer' \in [Workers -> Answers]
      BY <2>1 DEF Claim, TypeOK, Goto, Say, Places, Answers
    <3> QED BY <3>1, <3>2, <3>3, <2>1 DEF Claim, TypeOK
  <2>2. CASE Renew(w)
    <3>1. row' \in Requests
      BY <2>2 DEF SetRow, Renew, Holds, TypeOK, Requests, Leased
    <3> QED BY <3>1, <2>2, BumpEffect DEF Renew, Holds, TypeOK
  <2>3. CASE StartObserving(w)
    <3>1. row' \in Requests
      BY <2>3 DEF SetRow, StartObserving, TypeOK, Requests, Leased, Decided, Terminal
    <3> QED BY <3>1, <2>3, BumpEffect DEF StartObserving, TypeOK
  <2>4. CASE Release(w)
    <3>1. row' \in Requests
      <4>1. CASE UNCHANGED row
        BY <4>1 DEF TypeOK
      <4>2. CASE SetRow("retry-wait", None, row.fence, FALSE, row.result)
        BY <4>2 DEF TypeOK, SetRow, Requests
      <4> QED BY <4>1, <4>2, <2>4 DEF Release
    <3>2. pc' \in [Workers -> Places]
      BY <2>4 DEF Release, Goto, TypeOK, Places
    <3> QED BY <3>1, <3>2, <2>4 DEF Release, TypeOK
  <2>5. CASE Execute(w)
    BY <2>5 DEF Execute, Goto, Answers, Leased, Places, Requests, Results, Tables,
         Decided, Terminal, TypeOK
  <2>6. CASE Retry(w)
    BY <2>6 DEF Retry, Goto, Say, Answers, Leased, Places, Requests, Results, Tables,
         Decided, Terminal, TypeOK
  <2>7. CASE AppendObservation(w)
    BY <2>7, AppendTyped, RefuseTyped DEF SequenceTaken, Answers, AppendObservation, Tables, Places
  <2>8. CASE AppendResolution(w)
    BY <2>8, AppendTyped DEF AppendResolution, Tables, Places
  <2>9. CASE AppendOutbox(w)
    BY <2>9, AppendTyped DEF AppendOutbox, Tables, Places
  <2>10. CASE MoveRequest(w)
    <3>1. wrote' \in [Workers -> SUBSET (Tables \cup {"request"})]
      BY <2>10 DEF MoveRequest, TypeOK
    <3> QED BY <2>10, <3>1 DEF MoveRequest, TypeOK, Goto, Places
  <2>11. CASE Classify(w)
    BY <2>11 DEF Classify, Conflict, Refuse, Goto, Say, Answers, Leased, Places,
         Requests, Results, Tables, Decided, Terminal, TypeOK
  <2>12. CASE StatementFails(w)
    BY <2>12 DEF StatementFails, Refuse, Goto, Say, Answers, Leased, Places, Requests,
         Results, Tables, Decided, Terminal, TypeOK
  <2>13. CASE Commit(w)
    <3>1. row' \in Requests /\ table' \in [Tables -> [Ids -> Results \cup {None}]]
      BY <2>13, ApplyEffect DEF Commit, TypeOK
    <3>2. wrote' \in [Workers -> SUBSET (Tables \cup {"request"})]
      BY <2>13 DEF Commit, EndTransaction, TypeOK
    <3>3. tx' \in [Workers -> {"none", "open", "sent"}]
      BY <2>13 DEF Commit, EndTransaction, TypeOK
    <3>4. pc' \in [Workers -> Places] /\ answer' \in [Workers -> Answers]
      BY <2>13 DEF Commit, Goto, Say, TypeOK, Places, Answers
    <3> QED BY <3>1, <3>2, <3>3, <3>4, <2>13 DEF Commit, TypeOK
  <2>14. CASE Land(w)
    <3>1. row' \in Requests /\ table' \in [Tables -> [Ids -> Results \cup {None}]]
      BY <2>14, ApplyEffect DEF Land, TypeOK
    <3> QED BY <3>1, <2>14 DEF Land, EndTransaction, TypeOK
  <2>15. CASE Lookup(w)
    BY <2>15 DEF Lookup, LookedUp, Say, Answers, Leased, Places, Requests, Results,
         Tables, Decided, Terminal, TypeOK
  <2>16. CASE Reread(w)
    <3>1. row.revision \in Nat /\ row.fence \in Nat
      BY DEF TypeOK, Requests
    <3>2. record' \in [Workers -> [revision : Nat, fence : Nat]]
      <4>1. CASE UNCHANGED record
        BY <4>1 DEF TypeOK
      <4>2. CASE record' = [record EXCEPT ![w] = [revision |-> row.revision, fence |-> row.fence]]
        BY <4>2, <3>1 DEF TypeOK
      <4> QED BY <4>1, <4>2, <2>16 DEF Reread
    <3> QED BY <3>2, <2>16 DEF Reread, TypeOK, Goto, Say, Places, Answers
  <2>17. CASE Stop(w)
    BY <2>17 DEF Stop, Goto, Answers, Leased, Places, Requests, Results, Tables,
         Decided, Terminal, TypeOK
  <2>18. CASE Crash(w)
    BY <2>18 DEF Crash, Goto, Say, EndTransaction, Answers, Leased, Places, Requests,
         Results, Tables, Decided, Terminal, TypeOK
  <2> QED BY <1>3, <2>1, <2>2, <2>3, <2>4, <2>5, <2>6, <2>7, <2>8, <2>9,
            <2>10, <2>11, <2>12, <2>13, <2>14, <2>15, <2>16, <2>17, <2>18 DEF Worker
<1>4. CASE UNCHANGED vars
  BY <1>4 DEF vars, Answers, Leased, Places, Requests, Results, Tables, Decided, Terminal, TypeOK
<1> QED BY <1>1, <1>2, <1>3, <1>4 DEF Next, Closes

\* A step moves a worker and its transaction together: the row is locked from the
\* compare-and-set to the end of the COMMIT.
LEMMA PlacedStep == IInv /\ [Next]_vars => Placed'
<1> SUFFICES ASSUME IInv, [Next]_vars PROVE Placed'
  OBVIOUS
<1> USE NoneIsNothing DEF IInv
<1>1. CASE Expire
  BY <1>1 DEF Expire, Moved, Placed, Places, Requests, Tables, TypeOK
<1>2. CASE Closes
  BY <1>2 DEF Closes, Close, RowLocked, SetRow, Moved, Placed, Places, Requests, Tables, TypeOK
<1>3. ASSUME NEW w \in Workers, Worker(w) PROVE Placed'
  <2>1. CASE Claim(w)
    BY <2>1 DEF Claim, SetRow, NextFence, Goto, Say, KeyLocked, Moved, Placed, Places,
         Requests, Tables, TypeOK
  <2>2. CASE Renew(w)
    BY <2>2 DEF Renew, SetRow, Holds, Bump, RowLocked, Moved, Placed, Places, Requests,
         Tables, TypeOK
  <2>3. CASE StartObserving(w)
    BY <2>3 DEF StartObserving, SetRow, Holds, Bump, RowLocked, Moved, Placed, Places,
         Requests, Tables, TypeOK
  <2>4. CASE Release(w)
    BY <2>4 DEF Release, SetRow, Holds, Goto, RowLocked, Moved, Placed, Places,
         Requests, Tables, TypeOK
  <2>5. CASE Execute(w)
    BY <2>5 DEF Execute, Goto, Moved, Placed, Places, Requests, Tables, TypeOK
  <2>6. CASE Retry(w)
    BY <2>6 DEF Retry, Goto, Say, Moved, Placed, Places, Requests, Tables, TypeOK
  <2>7. CASE AppendObservation(w)
    BY <2>7 DEF AppendObservation, Append, Free, Replayed, Refuse, Goto, Say,
         SequenceTaken, Moved, Placed, Places, Requests, Tables, TypeOK
  <2>8. CASE AppendResolution(w)
    BY <2>8 DEF AppendResolution, Append, Free, Replayed, Refuse, Goto, Say, Authorized,
         Moved, Placed, Places, Requests, Tables, TypeOK
  <2>9. CASE AppendOutbox(w)
    BY <2>9 DEF AppendOutbox, Append, Free, Replayed, Refuse, Goto, Say, Moved, Placed,
         Places, Requests, Tables, TypeOK
  <2>10. CASE MoveRequest(w)
    BY <2>10 DEF MoveRequest, Authorized, Goto, RowLocked, Moved, Placed,
         Places, Requests, Tables, TypeOK
  <2>11. CASE Classify(w)
    BY <2>11 DEF Classify, Conflict, Refuse, Goto, Say, Moved, Placed, Places, Requests,
         Tables, TypeOK
  <2>12. CASE StatementFails(w)
    BY <2>12 DEF StatementFails, Refuse, Goto, Say, Moved, Placed, Places, Requests,
         Tables, TypeOK
  <2>13. CASE Commit(w)
    BY <2>13 DEF Commit, SetRow, Apply, EndTransaction, Goto, Say, Moved, Placed,
         Places, Requests, Tables, TypeOK
  <2>14. CASE Land(w)
    BY <2>14 DEF Land, SetRow, Apply, EndTransaction, Moved, Placed, Places, Requests,
         Tables, TypeOK
  <2>15. CASE Lookup(w)
    BY <2>15 DEF Lookup, LookedUp, Say, Moved, Placed, Places, Requests, Tables, TypeOK
  <2>16. CASE Reread(w)
    BY <2>16 DEF Reread, Holds, Goto, Say, Moved, Placed, Places, Requests, Tables,
         TypeOK
  <2>17. CASE Stop(w)
    BY <2>17 DEF Stop, Goto, Moved, Placed, Places, Requests, Tables, TypeOK
  <2>18. CASE Crash(w)
    BY <2>18 DEF Crash, Goto, Say, EndTransaction, Moved, Placed, Places, Requests,
         Tables, TypeOK
  <2> QED BY <1>3, <2>1, <2>2, <2>3, <2>4, <2>5, <2>6, <2>7, <2>8, <2>9,
            <2>10, <2>11, <2>12, <2>13, <2>14, <2>15, <2>16, <2>17, <2>18 DEF Worker
<1>4. CASE UNCHANGED vars
  BY <1>4 DEF vars, Moved, Placed, Places, Requests, Tables, TypeOK
<1> QED BY <1>1, <1>2, <1>3, <1>4 DEF Next, Closes

\* Revision and fence of the row only grow: what a worker has read is not ahead.
LEMMA FreshStep == IInv /\ [Next]_vars => Fresh'
<1> SUFFICES ASSUME IInv, [Next]_vars PROVE Fresh'
  OBVIOUS
<1> USE NoneIsNothing DEF IInv
<1>1. CASE Expire
  BY <1>1 DEF Expire, Fresh, Requests, TypeOK
<1>2. CASE Closes
  BY <1>2 DEF Closes, Close, RowLocked, SetRow, Fresh, Requests, TypeOK
<1>3. ASSUME NEW w \in Workers, Worker(w) PROVE Fresh'
  <2>1. CASE Claim(w)
    BY <2>1 DEF Claim, SetRow, NextFence, Goto, Say, KeyLocked, Fresh, Requests, TypeOK
  <2>2. CASE Renew(w)
    <3>1. row.revision \in Nat /\ row'.revision = row.revision + 1 /\ row'.fence = row.fence
      BY <2>2 DEF Renew, SetRow, TypeOK, Requests
    <3>2. row.fence = record[w].fence /\ Bump(w) /\ UNCHANGED input
      BY <2>2 DEF Renew, Holds
    <3>3. ASSUME NEW v \in Workers
          PROVE  /\ record'[v].fence = record[v].fence
                 /\ record'[v].revision \in {record[v].revision, row.revision + 1}
                 /\ record[v].revision \in Nat /\ input[v].revision \in Nat
      BY <3>2, BumpEffect DEF TypeOK
    <3> QED BY <3>1, <3>2, <3>3 DEF Fresh
  <2>3. CASE StartObserving(w)
    <3>1. row.revision \in Nat /\ row'.revision = row.revision + 1 /\ row'.fence = row.fence
      BY <2>3 DEF StartObserving, SetRow, TypeOK, Requests
    <3>2. row.fence = record[w].fence /\ Bump(w) /\ UNCHANGED input
      BY <2>3 DEF StartObserving, Holds
    <3>3. ASSUME NEW v \in Workers
          PROVE  /\ record'[v].fence = record[v].fence
                 /\ record'[v].revision \in {record[v].revision, row.revision + 1}
                 /\ record[v].revision \in Nat /\ input[v].revision \in Nat
      BY <3>2, BumpEffect DEF TypeOK
    <3> QED BY <3>1, <3>2, <3>3 DEF Fresh
  <2>4. CASE Release(w)
    BY <2>4 DEF Release, SetRow, Holds, Goto, RowLocked, Fresh, Requests, TypeOK
  <2>5. CASE Execute(w)
    BY <2>5 DEF Execute, Goto, Fresh, Requests, TypeOK
  <2>6. CASE Retry(w)
    BY <2>6 DEF Retry, Goto, Say, Fresh, Requests, TypeOK
  <2>7. CASE AppendObservation(w)
    BY <2>7 DEF AppendObservation, Append, Free, Replayed, Refuse, Goto, Say,
         SequenceTaken, Fresh, Requests, TypeOK
  <2>8. CASE AppendResolution(w)
    BY <2>8 DEF AppendResolution, Append, Free, Replayed, Refuse, Goto, Say, Authorized,
         Fresh, Requests, TypeOK
  <2>9. CASE AppendOutbox(w)
    BY <2>9 DEF AppendOutbox, Append, Free, Replayed, Refuse, Goto, Say, Fresh,
         Requests, TypeOK
  <2>10. CASE MoveRequest(w)
    BY <2>10 DEF MoveRequest, Authorized, Goto, RowLocked, Fresh, Requests,
         TypeOK
  <2>11. CASE Classify(w)
    BY <2>11 DEF Classify, Conflict, Refuse, Goto, Say, Fresh, Requests, TypeOK
  <2>12. CASE StatementFails(w)
    BY <2>12 DEF StatementFails, Refuse, Goto, Say, Fresh, Requests, TypeOK
  <2>13. CASE Commit(w)
    BY <2>13 DEF Commit, SetRow, Apply, EndTransaction, Goto, Say, Fresh, Requests,
         TypeOK
  <2>14. CASE Land(w)
    BY <2>14 DEF Land, SetRow, Apply, EndTransaction, Fresh, Requests, TypeOK
  <2>15. CASE Lookup(w)
    BY <2>15 DEF Lookup, LookedUp, Say, Fresh, Requests, TypeOK
  <2>16. CASE Reread(w)
    BY <2>16 DEF Reread, Holds, Goto, Say, Fresh, Requests, TypeOK
  <2>17. CASE Stop(w)
    BY <2>17 DEF Stop, Goto, Fresh, Requests, TypeOK
  <2>18. CASE Crash(w)
    BY <2>18 DEF Crash, Goto, Say, EndTransaction, Fresh, Requests, TypeOK
  <2> QED BY <1>3, <2>1, <2>2, <2>3, <2>4, <2>5, <2>6, <2>7, <2>8, <2>9,
            <2>10, <2>11, <2>12, <2>13, <2>14, <2>15, <2>16, <2>17, <2>18 DEF Worker
<1>4. CASE UNCHANGED vars
  BY <1>4 DEF vars, Fresh, Requests, TypeOK
<1> QED BY <1>1, <1>2, <1>3, <1>4 DEF Next, Closes

\* Nothing changes the row while a transaction has it locked, so that what the
\* compare-and-set decided on is what the COMMIT finds.
LEMMA LockedStep == IInv /\ [Next]_vars => Locked'
<1> SUFFICES ASSUME IInv, [Next]_vars PROVE Locked'
  OBVIOUS
<1> USE NoneIsNothing DEF IInv
<1>1. CASE Expire
  BY <1>1 DEF Expire, Authorized, Leased, Locked, Moved, OneMoves, Placed, Requests,
       Tables, Decided, Terminal, TypeOK
<1>2. CASE Closes
  BY <1>2 DEF Closes, Close, RowLocked, SetRow, Authorized, Leased, Locked, Moved, OneMoves,
       Placed, Requests, Tables, Decided, Terminal, TypeOK
<1>3. ASSUME NEW w \in Workers, Worker(w) PROVE Locked'
  <2>1. CASE Claim(w)
    BY <2>1 DEF Claim, SetRow, NextFence, Goto, Say, KeyLocked, Authorized, Leased,
         Locked, Moved, OneMoves, Placed, Requests, Tables, Decided, Terminal, TypeOK
  <2>2. CASE Renew(w)
    BY <2>2 DEF Renew, SetRow, Holds, Bump, RowLocked, Authorized, Leased, Locked,
         Moved, OneMoves, Placed, Requests, Tables, Decided, Terminal, TypeOK
  <2>3. CASE StartObserving(w)
    BY <2>3 DEF StartObserving, SetRow, Holds, Bump, RowLocked, Authorized, Leased,
         Locked, Moved, OneMoves, Placed, Requests, Tables, Decided, Terminal, TypeOK
  <2>4. CASE Release(w)
    BY <2>4 DEF Release, SetRow, Holds, Goto, RowLocked, Authorized, Leased, Locked,
         Moved, OneMoves, Placed, Requests, Tables, Decided, Terminal, TypeOK
  <2>5. CASE Execute(w)
    BY <2>5 DEF Execute, Goto, Authorized, Leased, Locked, Moved, OneMoves, Placed,
         Requests, Tables, Decided, Terminal, TypeOK
  <2>6. CASE Retry(w)
    BY <2>6 DEF Retry, Goto, Say, Authorized, Leased, Locked, Moved, OneMoves, Placed,
         Requests, Tables, Decided, Terminal, TypeOK
  <2>7. CASE AppendObservation(w)
    <3>1. UNCHANGED <<row, input>>
      BY <2>7 DEF AppendObservation, Append, SequenceTaken, Refuse
    <3>2. \A v \in Workers : "request" \in wrote'[v] => "request" \in wrote[v]
      BY <2>7 DEF AppendObservation, Append, SequenceTaken, Refuse, TypeOK
    <3> QED BY <3>1, <3>2 DEF TypeOK, Locked, Authorized, Tables
  <2>8. CASE AppendResolution(w)
    <3>1. UNCHANGED <<row, input>>
      BY <2>8 DEF AppendResolution, Append, Refuse
    <3>2. \A v \in Workers : "request" \in wrote'[v] => "request" \in wrote[v]
      BY <2>8 DEF AppendResolution, Append, Refuse, TypeOK
    <3> QED BY <3>1, <3>2 DEF TypeOK, Locked, Authorized, Tables
  <2>9. CASE AppendOutbox(w)
    <3>1. UNCHANGED <<row, input>>
      BY <2>9 DEF AppendOutbox, Append, Refuse
    <3>2. \A v \in Workers : "request" \in wrote'[v] => "request" \in wrote[v]
      BY <2>9 DEF AppendOutbox, Append, Refuse, TypeOK
    <3> QED BY <3>1, <3>2 DEF TypeOK, Locked, Authorized, Tables
  <2>10. CASE MoveRequest(w)
    <3>1. UNCHANGED <<row, input>>
      BY <2>10 DEF MoveRequest
    <3>2. \A v \in Workers : "request" \in wrote'[v] =>
            "request" \in wrote[v] \/ (v = w /\ Authorized(w))
      BY <2>10 DEF MoveRequest, TypeOK
    <3> QED BY <3>1, <3>2 DEF Locked, Authorized
  <2>11. CASE Classify(w)
    BY <2>11 DEF Classify, Conflict, Refuse, Goto, Say, Authorized, Leased, Locked,
         Moved, OneMoves, Placed, Requests, Tables, Decided, Terminal, TypeOK
  <2>12. CASE StatementFails(w)
    BY <2>12 DEF StatementFails, Refuse, Goto, Say, Authorized, Leased, Locked, Moved,
         OneMoves, Placed, Requests, Tables, Decided, Terminal, TypeOK
  <2>13. CASE Commit(w)
    BY <2>13 DEF Commit, SetRow, Apply, EndTransaction, Goto, Say, Authorized, Leased,
         Locked, Moved, OneMoves, Placed, Requests, Tables, Decided, Terminal, TypeOK
  <2>14. CASE Land(w)
    BY <2>14 DEF Land, SetRow, Apply, EndTransaction, Authorized, Leased, Locked, Moved,
         OneMoves, Placed, Requests, Tables, Decided, Terminal, TypeOK
  <2>15. CASE Lookup(w)
    BY <2>15 DEF Lookup, LookedUp, Say, Authorized, Leased, Locked, Moved, OneMoves,
         Placed, Requests, Tables, Decided, Terminal, TypeOK
  <2>16. CASE Reread(w)
    BY <2>16 DEF Reread, Holds, Goto, Say, Authorized, Leased, Locked, Moved, OneMoves,
         Placed, Requests, Tables, Decided, Terminal, TypeOK
  <2>17. CASE Stop(w)
    BY <2>17 DEF Stop, Goto, Authorized, Leased, Locked, Moved, OneMoves, Placed,
         Requests, Tables, Decided, Terminal, TypeOK
  <2>18. CASE Crash(w)
    BY <2>18 DEF Crash, Goto, Say, EndTransaction, Authorized, Leased, Locked, Moved,
         OneMoves, Placed, Requests, Tables, Decided, Terminal, TypeOK
  <2> QED BY <1>3, <2>1, <2>2, <2>3, <2>4, <2>5, <2>6, <2>7, <2>8, <2>9,
            <2>10, <2>11, <2>12, <2>13, <2>14, <2>15, <2>16, <2>17, <2>18 DEF Worker
<1>4. CASE UNCHANGED vars
  BY <1>4 DEF vars, Authorized, Leased, Locked, Moved, OneMoves, Placed, Requests,
       Tables, Decided, Terminal, TypeOK
<1> QED BY <1>1, <1>2, <1>3, <1>4 DEF Next, Closes

\* The compare-and-set waits for the lock of another one.
LEMMA OneMovesStep == IInv /\ [Next]_vars => OneMoves'
<1> SUFFICES ASSUME IInv, [Next]_vars PROVE OneMoves'
  OBVIOUS
<1> USE NoneIsNothing DEF IInv
<1>1. CASE Expire
  BY <1>1 DEF Expire, Moved, OneMoves, Placed, Requests, Tables, TypeOK
<1>2. CASE Closes
  BY <1>2 DEF Closes, Close, RowLocked, SetRow, Moved, OneMoves, Placed, Requests, Tables,
       TypeOK
<1>3. ASSUME NEW w \in Workers, Worker(w) PROVE OneMoves'
  <2>1. CASE Claim(w)
    BY <2>1 DEF Claim, SetRow, NextFence, Goto, Say, KeyLocked, Moved, OneMoves, Placed,
         Requests, Tables, TypeOK
  <2>2. CASE Renew(w)
    BY <2>2 DEF Renew, SetRow, Holds, Bump, RowLocked, Moved, OneMoves, Placed,
         Requests, Tables, TypeOK
  <2>3. CASE StartObserving(w)
    BY <2>3 DEF StartObserving, SetRow, Holds, Bump, RowLocked, Moved, OneMoves, Placed,
         Requests, Tables, TypeOK
  <2>4. CASE Release(w)
    BY <2>4 DEF Release, SetRow, Holds, Goto, RowLocked, Moved, OneMoves, Placed,
         Requests, Tables, TypeOK
  <2>5. CASE Execute(w)
    BY <2>5 DEF Execute, Goto, Moved, OneMoves, Placed, Requests, Tables, TypeOK
  <2>6. CASE Retry(w)
    BY <2>6 DEF Retry, Goto, Say, Moved, OneMoves, Placed, Requests, Tables, TypeOK
  <2>7. CASE AppendObservation(w)
    <3>1. UNCHANGED <<row, input>>
      BY <2>7 DEF AppendObservation, Append, SequenceTaken, Refuse
    <3>2. \A v \in Workers : "request" \in wrote'[v] => "request" \in wrote[v]
      BY <2>7 DEF AppendObservation, Append, SequenceTaken, Refuse, TypeOK
    <3> QED BY <3>1, <3>2 DEF TypeOK, OneMoves, Tables
  <2>8. CASE AppendResolution(w)
    <3>1. UNCHANGED <<row, input>>
      BY <2>8 DEF AppendResolution, Append, Refuse
    <3>2. \A v \in Workers : "request" \in wrote'[v] => "request" \in wrote[v]
      BY <2>8 DEF AppendResolution, Append, Refuse, TypeOK
    <3> QED BY <3>1, <3>2 DEF TypeOK, OneMoves, Tables
  <2>9. CASE AppendOutbox(w)
    <3>1. UNCHANGED <<row, input>>
      BY <2>9 DEF AppendOutbox, Append, Refuse
    <3>2. \A v \in Workers : "request" \in wrote'[v] => "request" \in wrote[v]
      BY <2>9 DEF AppendOutbox, Append, Refuse, TypeOK
    <3> QED BY <3>1, <3>2 DEF TypeOK, OneMoves, Tables
  <2>10. CASE MoveRequest(w)
    BY <2>10 DEF MoveRequest, Authorized, Goto, RowLocked, Moved, OneMoves,
         Placed, Requests, Tables, TypeOK
  <2>11. CASE Classify(w)
    BY <2>11 DEF Classify, Conflict, Refuse, Goto, Say, Moved, OneMoves, Placed,
         Requests, Tables, TypeOK
  <2>12. CASE StatementFails(w)
    BY <2>12 DEF StatementFails, Refuse, Goto, Say, Moved, OneMoves, Placed, Requests,
         Tables, TypeOK
  <2>13. CASE Commit(w)
    BY <2>13 DEF Commit, SetRow, Apply, EndTransaction, Goto, Say, Moved, OneMoves,
         Placed, Requests, Tables, TypeOK
  <2>14. CASE Land(w)
    BY <2>14 DEF Land, SetRow, Apply, EndTransaction, Moved, OneMoves, Placed, Requests,
         Tables, TypeOK
  <2>15. CASE Lookup(w)
    BY <2>15 DEF Lookup, LookedUp, Say, Moved, OneMoves, Placed, Requests, Tables,
         TypeOK
  <2>16. CASE Reread(w)
    BY <2>16 DEF Reread, Holds, Goto, Say, Moved, OneMoves, Placed, Requests, Tables,
         TypeOK
  <2>17. CASE Stop(w)
    BY <2>17 DEF Stop, Goto, Moved, OneMoves, Placed, Requests, Tables, TypeOK
  <2>18. CASE Crash(w)
    BY <2>18 DEF Crash, Goto, Say, EndTransaction, Moved, OneMoves, Placed, Requests,
         Tables, TypeOK
  <2> QED BY <1>3, <2>1, <2>2, <2>3, <2>4, <2>5, <2>6, <2>7, <2>8, <2>9,
            <2>10, <2>11, <2>12, <2>13, <2>14, <2>15, <2>16, <2>17, <2>18 DEF Worker
<1>4. CASE UNCHANGED vars
  BY <1>4 DEF vars, Moved, OneMoves, Placed, Requests, Tables, TypeOK
<1> QED BY <1>1, <1>2, <1>3, <1>4 DEF Next, Closes

\* An insert waits for the insert of the same draft by another transaction.
LEMMA OneInsertsStep == IInv /\ [Next]_vars => OneInserts'
<1> SUFFICES ASSUME IInv, [Next]_vars PROVE OneInserts'
  OBVIOUS
<1> USE NoneIsNothing DEF IInv
<1>1. CASE Expire
  BY <1>1 DEF Expire, Moved, OneInserts, Placed, Requests, Tables, TypeOK
<1>2. CASE Closes
  BY <1>2 DEF Closes, Close, RowLocked, SetRow, Moved, OneInserts, Placed, Requests, Tables,
       TypeOK
<1>3. ASSUME NEW w \in Workers, Worker(w) PROVE OneInserts'
  <2>1. CASE Claim(w)
    BY <2>1 DEF Claim, SetRow, NextFence, Goto, Say, KeyLocked, Moved, OneInserts,
         Placed, Requests, Tables, TypeOK
  <2>2. CASE Renew(w)
    BY <2>2 DEF Renew, SetRow, Holds, Bump, RowLocked, Moved, OneInserts, Placed,
         Requests, Tables, TypeOK
  <2>3. CASE StartObserving(w)
    BY <2>3 DEF StartObserving, SetRow, Holds, Bump, RowLocked, Moved, OneInserts,
         Placed, Requests, Tables, TypeOK
  <2>4. CASE Release(w)
    BY <2>4 DEF Release, SetRow, Holds, Goto, RowLocked, Moved, OneInserts, Placed,
         Requests, Tables, TypeOK
  <2>5. CASE Execute(w)
    BY <2>5 DEF Execute, Goto, Moved, OneInserts, Placed, Requests, Tables, TypeOK
  <2>6. CASE Retry(w)
    BY <2>6 DEF Retry, Goto, Say, Moved, OneInserts, Placed, Requests, Tables, TypeOK
  <2>7. CASE AppendObservation(w)
    <3>1. UNCHANGED input
      BY <2>7 DEF AppendObservation, Append, SequenceTaken, Refuse
    <3>2. \A v \in Workers, t \in Tables : t \in wrote'[v] =>
            t \in wrote[v] \/ (v = w /\ t = "observation" /\ Free(w, t))
      BY <2>7 DEF AppendObservation, Append, SequenceTaken, Refuse, TypeOK
    <3> QED BY <3>1, <3>2 DEF OneInserts, Free
  <2>8. CASE AppendResolution(w)
    <3>1. UNCHANGED input
      BY <2>8 DEF AppendResolution, Append, Refuse
    <3>2. \A v \in Workers, t \in Tables : t \in wrote'[v] =>
            t \in wrote[v] \/ (v = w /\ t = "resolution" /\ Free(w, t))
      BY <2>8 DEF AppendResolution, Append, Refuse, TypeOK
    <3> QED BY <3>1, <3>2 DEF OneInserts, Free
  <2>9. CASE AppendOutbox(w)
    <3>1. UNCHANGED input
      BY <2>9 DEF AppendOutbox, Append, Refuse
    <3>2. \A v \in Workers, t \in Tables : t \in wrote'[v] =>
            t \in wrote[v] \/ (v = w /\ t = "outbox" /\ Free(w, t))
      BY <2>9 DEF AppendOutbox, Append, Refuse, TypeOK
    <3> QED BY <3>1, <3>2 DEF OneInserts, Free
  <2>10. CASE MoveRequest(w)
    <3>1. UNCHANGED input
      BY <2>10 DEF MoveRequest
    <3>2. \A v \in Workers, t \in Tables : t \in wrote'[v] => t \in wrote[v]
      BY <2>10 DEF MoveRequest, TypeOK, Tables
    <3> QED BY <3>1, <3>2 DEF OneInserts
  <2>11. CASE Classify(w)
    BY <2>11 DEF Classify, Conflict, Refuse, Goto, Say, Moved, OneInserts, Placed,
         Requests, Tables, TypeOK
  <2>12. CASE StatementFails(w)
    BY <2>12 DEF StatementFails, Refuse, Goto, Say, Moved, OneInserts, Placed, Requests,
         Tables, TypeOK
  <2>13. CASE Commit(w)
    <3>1. UNCHANGED input
      BY <2>13 DEF Commit
    <3>2. \A v \in Workers, t \in Tables : t \in wrote'[v] => t \in wrote[v]
      BY <2>13 DEF Commit, EndTransaction, TypeOK
    <3> QED BY <3>1, <3>2 DEF OneInserts
  <2>14. CASE Land(w)
    BY <2>14 DEF Land, SetRow, Apply, EndTransaction, Moved, OneInserts, Placed,
         Requests, Tables, TypeOK
  <2>15. CASE Lookup(w)
    BY <2>15 DEF Lookup, LookedUp, Say, Moved, OneInserts, Placed, Requests, Tables,
         TypeOK
  <2>16. CASE Reread(w)
    BY <2>16 DEF Reread, Holds, Goto, Say, Moved, OneInserts, Placed, Requests, Tables,
         TypeOK
  <2>17. CASE Stop(w)
    BY <2>17 DEF Stop, Goto, Moved, OneInserts, Placed, Requests, Tables, TypeOK
  <2>18. CASE Crash(w)
    <3>1. UNCHANGED input
      BY <2>18 DEF Crash
    <3>2. \A v \in Workers, t \in Tables : t \in wrote'[v] => t \in wrote[v]
      BY <2>18 DEF Crash, EndTransaction, TypeOK
    <3> QED BY <3>1, <3>2 DEF OneInserts
  <2> QED BY <1>3, <2>1, <2>2, <2>3, <2>4, <2>5, <2>6, <2>7, <2>8, <2>9,
            <2>10, <2>11, <2>12, <2>13, <2>14, <2>15, <2>16, <2>17, <2>18 DEF Worker
<1>4. CASE UNCHANGED vars
  BY <1>4 DEF vars, Moved, OneInserts, Placed, Requests, Tables, TypeOK
<1> QED BY <1>1, <1>2, <1>3, <1>4 DEF Next, Closes

\* No draft is skipped on the way to the compare-and-set, and what was replayed
\* stays there.
LEMMA DraftedStep == IInv /\ [Next]_vars => Drafted'
<1> SUFFICES ASSUME IInv, [Next]_vars PROVE Drafted'
  OBVIOUS
<1> USE NoneIsNothing DEF IInv
<1>1. CASE Expire
  BY <1>1 DEF Expire, Drafted, Locked, Moved, OneInserts, Placed, Requests, Tables,
       TypeOK, Draft, Written
<1>2. CASE Closes
  BY <1>2 DEF Closes, Close, RowLocked, SetRow, Drafted, Locked, Moved, OneInserts, Placed,
       Requests, Tables, TypeOK, Draft, Written
<1>3. ASSUME NEW w \in Workers, Worker(w) PROVE Drafted'
  <2>1. CASE Claim(w)
    BY <2>1 DEF Claim, SetRow, NextFence, Goto, Say, KeyLocked, Drafted, Locked, Moved,
         OneInserts, Placed, Requests, Tables, TypeOK, Draft, Written
  <2>2. CASE Renew(w)
    BY <2>2 DEF Renew, SetRow, Holds, Bump, RowLocked, Drafted, Locked, Moved,
         OneInserts, Placed, Requests, Tables, TypeOK, Draft, Written
  <2>3. CASE StartObserving(w)
    BY <2>3 DEF StartObserving, SetRow, Holds, Bump, RowLocked, Drafted, Locked, Moved,
         OneInserts, Placed, Requests, Tables, TypeOK, Draft, Written
  <2>4. CASE Release(w)
    BY <2>4 DEF Release, SetRow, Holds, Goto, RowLocked, Drafted, Locked, Moved,
         OneInserts, Placed, Requests, Tables, TypeOK, Draft, Written
  <2>5. CASE Execute(w)
    BY <2>5 DEF Execute, Goto, Drafted, Locked, Moved, OneInserts, Placed, Requests,
         Tables, TypeOK, Draft, Written
  <2>6. CASE Retry(w)
    BY <2>6 DEF Retry, Goto, Say, Drafted, Locked, Moved, OneInserts, Placed, Requests,
         Tables, TypeOK, Draft, Written
  <2>7. CASE AppendObservation(w)
    BY <2>7 DEF AppendObservation, Append, Free, Replayed, Refuse, Goto, Say,
         SequenceTaken, Drafted, Locked, Moved, OneInserts, Placed, Requests, Tables,
         TypeOK, Draft, Written
  <2>8. CASE AppendResolution(w)
    BY <2>8 DEF AppendResolution, Append, Free, Replayed, Refuse, Goto, Say, Authorized,
         Drafted, Locked, Moved, OneInserts, Placed, Requests, Tables, TypeOK, Draft, Written
  <2>9. CASE AppendOutbox(w)
    BY <2>9 DEF AppendOutbox, Append, Free, Replayed, Refuse, Goto, Say, Drafted,
         Locked, Moved, OneInserts, Placed, Requests, Tables, TypeOK, Draft, Written
  <2>10. CASE MoveRequest(w)
    <3>1. UNCHANGED <<input, table>>
      BY <2>10 DEF MoveRequest
    <3>2. \A v \in Workers : v # w => pc'[v] = pc[v] /\ tx'[v] = tx[v] /\ wrote'[v] = wrote[v]
      BY <2>10 DEF MoveRequest, Goto, TypeOK
    <3>3. pc[w] = "cas" /\ tx[w] = "open"
      BY <2>10 DEF MoveRequest, Placed, TypeOK
    <3>4. (\A t \in Tables : t \in wrote'[w] <=> t \in wrote[w]) /\ tx'[w] = tx[w]
      BY <2>10 DEF MoveRequest, TypeOK, Tables
    <3>5. ASSUME NEW v \in Workers, v # w
          PROVE  pc'[v] = pc[v] /\ Moved(v)' = Moved(v) /\ \A t \in Tables : Written(v, t)' = Written(v, t)
      BY <3>1, <3>2, <3>5 DEF Moved, Draft, Written
    <3>6. \A t \in Tables : Written(w, t)' = Written(w, t)
      BY <3>1, <3>4 DEF Written, Draft
    <3>7. pc'[w] \notin {"resolution", "outbox"}
      BY <2>10 DEF MoveRequest, Goto, TypeOK
    <3> QED BY <3>1, <3>2, <3>3, <3>4, <3>5, <3>6, <3>7 DEF Drafted, Tables
  <2>11. CASE Classify(w)
    BY <2>11 DEF Classify, Conflict, Refuse, Goto, Say, Drafted, Locked, Moved,
         OneInserts, Placed, Requests, Tables, TypeOK, Draft, Written
  <2>12. CASE StatementFails(w)
    BY <2>12 DEF StatementFails, Refuse, Goto, Say, Drafted, Locked, Moved, OneInserts,
         Placed, Requests, Tables, TypeOK, Draft, Written
  <2>13. CASE Commit(w)
    <3>1. CASE Apply(w) /\ EndTransaction(w)
      <4>1. \A v \in Workers : wrote'[v] = IF v = w THEN {} ELSE wrote[v]
        BY <3>1 DEF EndTransaction, TypeOK
      <4>2. UNCHANGED input /\ \A v \in Workers : v # w => pc'[v] = pc[v] /\ tx'[v] = tx[v]
        BY <3>1, <2>13 DEF Commit, EndTransaction, Goto, TypeOK
      <4>3. pc'[w] = "held" /\ tx'[w] = "none"
        BY <3>1, <2>13 DEF Commit, EndTransaction, Goto, TypeOK
      <4>4. \A v \in Workers, t \in Tables :
              /\ t \in wrote'[v] => table'[t][input[v].id] = None
              /\ v # w /\ Written(v, t) => Written(v, t)'
        <5>1. ASSUME NEW v \in Workers, NEW t \in Tables, t \in wrote[w], v # w,
                     input[v].id = input[w].id
              PROVE  t \notin wrote[v] /\ table[t][input[v].id] # Draft(v, t)
          BY <5>1, DraftSays DEF OneInserts, Drafted, TypeOK
        <5>2. \A t \in Tables, e \in Ids : table'[t][e] =
                IF t \in wrote[w] /\ e = input[w].id THEN Draft(w, t) ELSE table[t][e]
          BY <3>1, ApplyEffect
        <5>3. \A v \in Workers : input[v].id \in Ids
          BY DEF TypeOK
        <5> QED BY <5>1, <5>2, <5>3, <4>1, <4>2 DEF Drafted, Draft, Written
      <4> QED BY <4>1, <4>2, <4>3, <4>4 DEF Drafted, Moved, Tables
    <3>2. CASE UNCHANGED <<row, table>> /\ EndTransaction(w)
      BY <3>2, <2>13 DEF Commit, EndTransaction, Goto, Drafted, Moved, Draft, Written, TypeOK, Tables
    <3>3. CASE UNCHANGED <<row, table, wrote>>
      BY <3>3, <2>13 DEF Commit, Goto, EndTransaction, Drafted, Moved, Draft, Written, TypeOK, Tables
    <3> QED BY <2>13, <3>1, <3>2, <3>3 DEF Commit
  <2>14. CASE Land(w)
    <3>1. CASE Apply(w)
      <4>1. \A v \in Workers : wrote'[v] = IF v = w THEN {} ELSE wrote[v]
        BY <2>14 DEF Land, EndTransaction, TypeOK
      <4>2. UNCHANGED input /\ \A v \in Workers : v # w => pc'[v] = pc[v] /\ tx'[v] = tx[v]
        BY <2>14 DEF Land, EndTransaction, TypeOK
      <4>3. pc'[w] \in {"idle", "held"} /\ tx'[w] = "none"
        BY <2>14 DEF Land, EndTransaction, TypeOK, Placed
      <4>4. \A v \in Workers, t \in Tables :
              /\ t \in wrote'[v] => table'[t][input[v].id] = None
              /\ v # w /\ Written(v, t) => Written(v, t)'
        <5>1. ASSUME NEW v \in Workers, NEW t \in Tables, t \in wrote[w], v # w,
                     input[v].id = input[w].id
              PROVE  t \notin wrote[v] /\ table[t][input[v].id] # Draft(v, t)
          BY <5>1, DraftSays DEF OneInserts, Drafted, TypeOK
        <5>2. \A t \in Tables, e \in Ids : table'[t][e] =
                IF t \in wrote[w] /\ e = input[w].id THEN Draft(w, t) ELSE table[t][e]
          BY <3>1, ApplyEffect
        <5>3. \A v \in Workers : input[v].id \in Ids
          BY DEF TypeOK
        <5> QED BY <5>1, <5>2, <5>3, <4>1, <4>2 DEF Drafted, Draft, Written
      <4> QED BY <4>1, <4>2, <4>3, <4>4 DEF Drafted, Moved, Tables
    <3>2. CASE UNCHANGED <<row, table>>
      BY <3>2, <2>14 DEF Land, EndTransaction, Drafted, Placed, Moved, Draft, Written, TypeOK, Tables
    <3> QED BY <2>14, <3>1, <3>2 DEF Land
  <2>15. CASE Lookup(w)
    BY <2>15 DEF Lookup, LookedUp, Say, Drafted, Locked, Moved, OneInserts, Placed,
         Requests, Tables, TypeOK, Draft, Written
  <2>16. CASE Reread(w)
    BY <2>16 DEF Reread, Holds, Goto, Say, Drafted, Locked, Moved, OneInserts, Placed,
         Requests, Tables, TypeOK, Draft, Written
  <2>17. CASE Stop(w)
    BY <2>17 DEF Stop, Goto, Drafted, Locked, Moved, OneInserts, Placed, Requests,
         Tables, TypeOK, Draft, Written
  <2>18. CASE Crash(w)
    BY <2>18 DEF Crash, Goto, Say, EndTransaction, Drafted, Locked, Moved, OneInserts,
         Placed, Requests, Tables, TypeOK, Draft, Written
  <2> QED BY <1>3, <2>1, <2>2, <2>3, <2>4, <2>5, <2>6, <2>7, <2>8, <2>9,
            <2>10, <2>11, <2>12, <2>13, <2>14, <2>15, <2>16, <2>17, <2>18 DEF Worker
<1>4. CASE UNCHANGED vars
  BY <1>4 DEF vars, Drafted, Locked, Moved, OneInserts, Placed, Requests, Tables,
       TypeOK, Draft, Written
<1> QED BY <1>1, <1>2, <1>3, <1>4 DEF Next, Closes

\* Only the end of a transaction writes the tables, and it matches.
LEMMA ResolutionMatchesRequestStep == IInv /\ [Next]_vars => ResolutionMatchesRequest'
<1> SUFFICES ASSUME IInv, [Next]_vars PROVE ResolutionMatchesRequest'
  OBVIOUS
<1> USE NoneIsNothing DEF IInv
<1>1. CASE Expire
  BY <1>1 DEF Expire, Authorized, Drafted, Leased, Locked, Moved, Placed, Requests,
       ResolutionMatchesRequest, Tables, Decided, Terminal, TypeOK, Draft, Written
<1>2. CASE Closes
  BY <1>2 DEF Closes, Close, RowLocked, SetRow, Authorized, Drafted, Leased, Locked, Moved,
       Placed, Requests, ResolutionMatchesRequest, Tables, Decided, Terminal, TypeOK, Draft, Written
<1>3. ASSUME NEW w \in Workers, Worker(w) PROVE ResolutionMatchesRequest'
  <2>1. CASE Claim(w)
    BY <2>1 DEF Claim, SetRow, NextFence, Goto, Say, KeyLocked, Authorized, Drafted,
         Leased, Locked, Moved, Placed, Requests, ResolutionMatchesRequest, Tables,
         Decided, Terminal, TypeOK, Draft, Written
  <2>2. CASE Renew(w)
    BY <2>2 DEF Renew, SetRow, Holds, Bump, RowLocked, Authorized, Drafted, Leased,
         Locked, Moved, Placed, Requests, ResolutionMatchesRequest, Tables, Decided, Terminal,
         TypeOK, Draft, Written
  <2>3. CASE StartObserving(w)
    BY <2>3 DEF StartObserving, SetRow, Holds, Bump, RowLocked, Authorized, Drafted,
         Leased, Locked, Moved, Placed, Requests, ResolutionMatchesRequest, Tables,
         Decided, Terminal, TypeOK, Draft, Written
  <2>4. CASE Release(w)
    BY <2>4 DEF Release, SetRow, Holds, Goto, RowLocked, Authorized, Drafted, Leased,
         Locked, Moved, Placed, Requests, ResolutionMatchesRequest, Tables, Decided, Terminal,
         TypeOK, Draft, Written
  <2>5. CASE Execute(w)
    BY <2>5 DEF Execute, Goto, Authorized, Drafted, Leased, Locked, Moved, Placed,
         Requests, ResolutionMatchesRequest, Tables, Decided, Terminal, TypeOK, Draft, Written
  <2>6. CASE Retry(w)
    BY <2>6 DEF Retry, Goto, Say, Authorized, Drafted, Leased, Locked, Moved, Placed,
         Requests, ResolutionMatchesRequest, Tables, Decided, Terminal, TypeOK, Draft, Written
  <2>7. CASE AppendObservation(w)
    BY <2>7 DEF AppendObservation, Append, Free, Replayed, Refuse, Goto, Say,
         SequenceTaken, Authorized, Drafted, Leased, Locked, Moved, Placed, Requests,
         ResolutionMatchesRequest, Tables, Decided, Terminal, TypeOK, Draft, Written
  <2>8. CASE AppendResolution(w)
    BY <2>8 DEF AppendResolution, Append, Free, Replayed, Refuse, Goto, Say, Authorized,
         Drafted, Leased, Locked, Moved, Placed, Requests, ResolutionMatchesRequest,
         Tables, Decided, Terminal, TypeOK, Draft, Written
  <2>9. CASE AppendOutbox(w)
    BY <2>9 DEF AppendOutbox, Append, Free, Replayed, Refuse, Goto, Say, Authorized,
         Drafted, Leased, Locked, Moved, Placed, Requests, ResolutionMatchesRequest,
         Tables, Decided, Terminal, TypeOK, Draft, Written
  <2>10. CASE MoveRequest(w)
    BY <2>10 DEF MoveRequest, Authorized, Goto, RowLocked, Drafted, Leased,
         Locked, Moved, Placed, Requests, ResolutionMatchesRequest, Tables, Decided, Terminal,
         TypeOK, Draft, Written
  <2>11. CASE Classify(w)
    BY <2>11 DEF Classify, Conflict, Refuse, Goto, Say, Authorized, Drafted, Leased,
         Locked, Moved, Placed, Requests, ResolutionMatchesRequest, Tables, Decided, Terminal,
         TypeOK, Draft, Written
  <2>12. CASE StatementFails(w)
    BY <2>12 DEF StatementFails, Refuse, Goto, Say, Authorized, Drafted, Leased, Locked,
         Moved, Placed, Requests, ResolutionMatchesRequest, Tables, Decided, Terminal, TypeOK,
         Draft, Written
  <2>13. CASE Commit(w)
    <3>1. CASE Apply(w)
      BY <2>13, <3>1, ApplyMatches DEF Commit, Moved
    <3>2. CASE UNCHANGED <<row, table>>
      BY <3>2 DEF ResolutionMatchesRequest
    <3> QED BY <2>13, <3>1, <3>2 DEF Commit
  <2>14. CASE Land(w)
    <3>1. CASE Apply(w)
      BY <2>14, <3>1, ApplyMatches DEF Land, Moved
    <3>2. CASE UNCHANGED <<row, table>>
      BY <3>2 DEF ResolutionMatchesRequest
    <3> QED BY <2>14, <3>1, <3>2 DEF Land
  <2>15. CASE Lookup(w)
    BY <2>15 DEF Lookup, LookedUp, Say, Authorized, Drafted, Leased, Locked, Moved,
         Placed, Requests, ResolutionMatchesRequest, Tables, Decided, Terminal, TypeOK, Draft, Written
  <2>16. CASE Reread(w)
    BY <2>16 DEF Reread, Holds, Goto, Say, Authorized, Drafted, Leased, Locked, Moved,
         Placed, Requests, ResolutionMatchesRequest, Tables, Decided, Terminal, TypeOK, Draft, Written
  <2>17. CASE Stop(w)
    BY <2>17 DEF Stop, Goto, Authorized, Drafted, Leased, Locked, Moved, Placed,
         Requests, ResolutionMatchesRequest, Tables, Decided, Terminal, TypeOK, Draft, Written
  <2>18. CASE Crash(w)
    BY <2>18 DEF Crash, Goto, Say, EndTransaction, Authorized, Drafted, Leased, Locked,
         Moved, Placed, Requests, ResolutionMatchesRequest, Tables, Decided, Terminal, TypeOK,
         Draft, Written
  <2> QED BY <1>3, <2>1, <2>2, <2>3, <2>4, <2>5, <2>6, <2>7, <2>8, <2>9,
            <2>10, <2>11, <2>12, <2>13, <2>14, <2>15, <2>16, <2>17, <2>18 DEF Worker
<1>4. CASE UNCHANGED vars
  BY <1>4 DEF vars, Authorized, Drafted, Leased, Locked, Moved, Placed, Requests,
       ResolutionMatchesRequest, Tables, Decided, Terminal, TypeOK, Draft, Written
<1> QED BY <1>1, <1>2, <1>3, <1>4 DEF Next, Closes

\* A decided row is not left, so that what was reported stays true.
LEMMA CommittedIsFinalStep == IInv /\ [Next]_vars => CommittedIsFinal'
<1> SUFFICES ASSUME IInv, [Next]_vars PROVE CommittedIsFinal'
  OBVIOUS
<1> USE NoneIsNothing DEF IInv
\* Nothing was reported of a request that is open.
<1>o. ASSUME row.state \notin Decided, UNCHANGED input,
             \A v \in Workers : answer'[v] \in {answer[v], "none", "unavailable"}
      PROVE  CommittedIsFinal'
  BY <1>o, Moves DEF CommittedIsFinal, TypeOK
<1>1. CASE Expire
  BY <1>1 DEF Expire, Authorized, CommittedIsFinal, Leased, Locked, Moved, Placed,
       Requests, ResolutionMatchesRequest, Tables, Decided, Terminal, TypeOK
<1>2. CASE Closes
  BY <1>o, <1>2 DEF Closes, Close, Terminal
<1>3. ASSUME NEW w \in Workers, Worker(w) PROVE CommittedIsFinal'
  <2>1. CASE Claim(w)
    BY <1>o, <2>1 DEF Claim, Leased, Decided, Say, TypeOK
  <2>2. CASE Renew(w)
    BY <1>o, <2>2 DEF Renew, Holds, Leased, Decided
  <2>3. CASE StartObserving(w)
    BY <1>o, <2>3 DEF StartObserving, Decided
  <2>4. CASE Release(w)
    <3>1. CASE Holds(w)
      BY <1>o, <2>4, <3>1 DEF Release, Holds, Leased, Decided
    <3>2. CASE UNCHANGED row
      BY <2>4, <3>2 DEF Release, CommittedIsFinal
    <3> QED BY <2>4, <3>1, <3>2 DEF Release
  <2>5. CASE Execute(w)
    BY <2>5 DEF Execute, Goto, Authorized, CommittedIsFinal, Leased, Locked, Moved,
         Placed, Requests, ResolutionMatchesRequest, Tables, Decided, Terminal, TypeOK
  <2>6. CASE Retry(w)
    BY <2>6 DEF Retry, Goto, Say, Authorized, CommittedIsFinal, Leased, Locked, Moved,
         Placed, Requests, ResolutionMatchesRequest, Tables, Decided, Terminal, TypeOK
  <2>7. CASE AppendObservation(w)
    BY <2>7 DEF AppendObservation, Append, Free, Replayed, Refuse, Goto, Say,
         SequenceTaken, Authorized, CommittedIsFinal, Leased, Locked, Moved, Placed,
         Requests, ResolutionMatchesRequest, Tables, Decided, Terminal, TypeOK
  <2>8. CASE AppendResolution(w)
    BY <2>8 DEF AppendResolution, Append, Free, Replayed, Refuse, Goto, Say, Authorized,
         CommittedIsFinal, Leased, Locked, Moved, Placed, Requests,
         ResolutionMatchesRequest, Tables, Decided, Terminal, TypeOK
  <2>9. CASE AppendOutbox(w)
    BY <2>9 DEF AppendOutbox, Append, Free, Replayed, Refuse, Goto, Say, Authorized,
         CommittedIsFinal, Leased, Locked, Moved, Placed, Requests,
         ResolutionMatchesRequest, Tables, Decided, Terminal, TypeOK
  <2>10. CASE MoveRequest(w)
    BY <2>10 DEF MoveRequest, Authorized, Goto, RowLocked,
         CommittedIsFinal, Leased, Locked, Moved, Placed, Requests,
         ResolutionMatchesRequest, Tables, Decided, Terminal, TypeOK
  <2>11. CASE Classify(w)
    BY <2>11 DEF Classify, Conflict, Refuse, Goto, Say, Authorized, CommittedIsFinal,
         Leased, Locked, Moved, Placed, Requests, ResolutionMatchesRequest, Tables,
         Decided, Terminal, TypeOK
  <2>12. CASE StatementFails(w)
    BY <2>12 DEF StatementFails, Refuse, Goto, Say, Authorized, CommittedIsFinal,
         Leased, Locked, Moved, Placed, Requests, ResolutionMatchesRequest, Tables,
         Decided, Terminal, TypeOK
  <2>13. CASE Commit(w)
    <3>1. "request" \in wrote[w] /\ row.state \notin Decided
      BY <2>13 DEF Commit, Moved, Placed, Locked, Authorized, Leased, Decided
    <3>2. CASE Apply(w) /\ Say(w, "committed")
      <4>1. /\ row'.state = NextState(input[w].result) /\ UNCHANGED input
            /\ input[w].result # "unavailable" => row'.result = input[w].result
        BY <2>13, <3>1, <3>2, ApplyEffect DEF Commit
      <4>2. ASSUME NEW v \in Workers, v # w, answer'[v] \in {"committed", "found"}
            PROVE  input[v].result = "unavailable"
        BY <3>1, <3>2, <4>2, Moves DEF Say, CommittedIsFinal, TypeOK
      <4> QED BY <4>1, <4>2 DEF CommittedIsFinal
    <3>3. CASE Say(w, "unavailable")
      BY <1>o, <2>13, <3>1, <3>3 DEF Commit, Say, TypeOK
    <3> QED BY <2>13, <3>2, <3>3 DEF Commit
  <2>14. CASE Land(w)
    <3>1. row.state \notin Decided
      BY <2>14 DEF Land, Moved, Placed, Locked, Authorized, Leased, Decided
    <3> QED BY <1>o, <2>14, <3>1 DEF Land
  <2>15. CASE Lookup(w)
    <3>1. UNCHANGED <<row, input>> /\ \A v \in Workers : v # w => answer'[v] = answer[v]
      BY <2>15 DEF Lookup, Say, TypeOK
    <3>2. ASSUME answer'[w] \in {"committed", "found"}, input[w].result # "unavailable"
          PROVE  row.state = NextState(input[w].result) /\ row.result = input[w].result
      <4>1. \A t \in Tables : LookedUp(w, t)
        BY <2>15, <3>2 DEF Lookup, Say, TypeOK, Tables
      <4>2. /\ table["resolution"][input[w].id] = input[w].result
            /\ input[w].result # None /\ input[w].id \in Ids
        BY <4>1, DraftSays DEF LookedUp, Tables, TypeOK, Results
      <4>3. Says("resolution", row.result) = row.result
        BY DEF Says
      <4> QED BY <4>2, <4>3 DEF ResolutionMatchesRequest, Tables
    <3> QED BY <3>1, <3>2 DEF CommittedIsFinal
  <2>16. CASE Reread(w)
    BY <2>16 DEF Reread, Holds, Goto, Say, Authorized, CommittedIsFinal, Leased, Locked,
         Moved, Placed, Requests, ResolutionMatchesRequest, Tables, Decided, Terminal, TypeOK
  <2>17. CASE Stop(w)
    BY <2>17 DEF Stop, Goto, Authorized, CommittedIsFinal, Leased, Locked, Moved,
         Placed, Requests, ResolutionMatchesRequest, Tables, Decided, Terminal, TypeOK
  <2>18. CASE Crash(w)
    BY <2>18 DEF Crash, Goto, Say, EndTransaction, Authorized, CommittedIsFinal, Leased,
         Locked, Moved, Placed, Requests, ResolutionMatchesRequest, Tables, Decided, Terminal,
         TypeOK
  <2> QED BY <1>3, <2>1, <2>2, <2>3, <2>4, <2>5, <2>6, <2>7, <2>8, <2>9,
            <2>10, <2>11, <2>12, <2>13, <2>14, <2>15, <2>16, <2>17, <2>18 DEF Worker
<1>4. CASE UNCHANGED vars
  BY <1>4 DEF vars, Authorized, CommittedIsFinal, Leased, Locked, Moved, Placed,
       Requests, ResolutionMatchesRequest, Tables, Decided, Terminal, TypeOK
<1> QED BY <1>1, <1>2, <1>3, <1>4 DEF Next, Closes

\* A conflict that was true stays true.
LEMMA ConflictsAreFinalStep == IInv /\ [Next]_vars => ConflictsAreFinal'
<1> SUFFICES ASSUME IInv, [Next]_vars PROVE ConflictsAreFinal'
  OBVIOUS
<1> USE NoneIsNothing DEF IInv
<1>1. CASE Expire
  BY <1>1 DEF Expire, Authorized, ConflictsAreFinal, Fresh, Leased, Locked, Moved,
       Placed, Requests, Decided, Terminal, TypeOK
<1>2. CASE Closes
  BY <1>2 DEF Closes, Close, RowLocked, SetRow, Authorized, ConflictsAreFinal, Fresh, Leased,
       Locked, Moved, Placed, Requests, Decided, Terminal, TypeOK
<1>3. ASSUME NEW w \in Workers, Worker(w) PROVE ConflictsAreFinal'
  <2>1. CASE Claim(w)
    BY <2>1 DEF Claim, SetRow, NextFence, Goto, Say, KeyLocked, Authorized,
         ConflictsAreFinal, Fresh, Leased, Locked, Moved, Placed, Requests, Decided, Terminal,
         TypeOK
  <2>2. CASE Renew(w)
    BY <2>2 DEF Renew, SetRow, Holds, Bump, RowLocked, Authorized, ConflictsAreFinal,
         Fresh, Leased, Locked, Moved, Placed, Requests, Decided, Terminal, TypeOK
  <2>3. CASE StartObserving(w)
    BY <2>3 DEF StartObserving, SetRow, Holds, Bump, RowLocked, Authorized,
         ConflictsAreFinal, Fresh, Leased, Locked, Moved, Placed, Requests, Decided, Terminal,
         TypeOK
  <2>4. CASE Release(w)
    BY <2>4 DEF Release, SetRow, Holds, Goto, RowLocked, Authorized, ConflictsAreFinal,
         Fresh, Leased, Locked, Moved, Placed, Requests, Decided, Terminal, TypeOK
  <2>5. CASE Execute(w)
    BY <2>5 DEF Execute, Goto, Authorized, ConflictsAreFinal, Fresh, Leased, Locked,
         Moved, Placed, Requests, Decided, Terminal, TypeOK
  <2>6. CASE Retry(w)
    BY <2>6 DEF Retry, Goto, Say, Authorized, ConflictsAreFinal, Fresh, Leased, Locked,
         Moved, Placed, Requests, Decided, Terminal, TypeOK
  <2>7. CASE AppendObservation(w)
    BY <2>7 DEF AppendObservation, Append, Free, Replayed, Refuse, Goto, Say,
         SequenceTaken, Authorized, ConflictsAreFinal, Fresh, Leased, Locked, Moved,
         Placed, Requests, Decided, Terminal, TypeOK
  <2>8. CASE AppendResolution(w)
    BY <2>8 DEF AppendResolution, Append, Free, Replayed, Refuse, Goto, Say, Authorized,
         ConflictsAreFinal, Fresh, Leased, Locked, Moved, Placed, Requests, Decided, Terminal,
         TypeOK
  <2>9. CASE AppendOutbox(w)
    BY <2>9 DEF AppendOutbox, Append, Free, Replayed, Refuse, Goto, Say, Authorized,
         ConflictsAreFinal, Fresh, Leased, Locked, Moved, Placed, Requests, Decided, Terminal,
         TypeOK
  <2>10. CASE MoveRequest(w)
    BY <2>10 DEF MoveRequest, Authorized, Goto, RowLocked,
         ConflictsAreFinal, Fresh, Leased, Locked, Moved, Placed, Requests, Decided, Terminal,
         TypeOK
  <2>11. CASE Classify(w)
    <3>1. /\ UNCHANGED <<row, input>> /\ answer'[w] = Conflict(w)
          /\ \A v \in Workers : v # w => answer'[v] = answer[v]
      BY <2>11 DEF Classify, Refuse, Say, TypeOK
    <3>2. /\ row.fence \in Nat /\ row.revision \in Nat
          /\ input[w].fence \in Nat /\ input[w].revision \in Nat
          /\ input[w].fence <= row.fence /\ input[w].revision <= row.revision
      BY DEF TypeOK, Requests, Fresh
    <3>3. /\ Conflict(w) = "stale-fence" => row.fence > input[w].fence \/ row.owner # w
          /\ Conflict(w) = "terminal-preserved" => row.state \in Terminal
          /\ Conflict(w) = "stale-revision" => row.revision > input[w].revision
      BY <3>2 DEF Conflict
    <3> QED BY <3>1, <3>3 DEF ConflictsAreFinal
  <2>12. CASE StatementFails(w)
    BY <2>12 DEF StatementFails, Refuse, Goto, Say, Authorized, ConflictsAreFinal,
         Fresh, Leased, Locked, Moved, Placed, Requests, Decided, Terminal, TypeOK
  <2>13. CASE Commit(w)
    BY <2>13 DEF Commit, SetRow, Apply, EndTransaction, Goto, Say, Authorized,
         ConflictsAreFinal, Fresh, Leased, Locked, Moved, Placed, Requests, Decided, Terminal,
         TypeOK
  <2>14. CASE Land(w)
    BY <2>14 DEF Land, SetRow, Apply, EndTransaction, Authorized, ConflictsAreFinal,
         Fresh, Leased, Locked, Moved, Placed, Requests, Decided, Terminal, TypeOK
  <2>15. CASE Lookup(w)
    BY <2>15 DEF Lookup, LookedUp, Say, Authorized, ConflictsAreFinal, Fresh, Leased,
         Locked, Moved, Placed, Requests, Decided, Terminal, TypeOK
  <2>16. CASE Reread(w)
    BY <2>16 DEF Reread, Holds, Goto, Say, Authorized, ConflictsAreFinal, Fresh, Leased,
         Locked, Moved, Placed, Requests, Decided, Terminal, TypeOK
  <2>17. CASE Stop(w)
    BY <2>17 DEF Stop, Goto, Authorized, ConflictsAreFinal, Fresh, Leased, Locked,
         Moved, Placed, Requests, Decided, Terminal, TypeOK
  <2>18. CASE Crash(w)
    BY <2>18 DEF Crash, Goto, Say, EndTransaction, Authorized, ConflictsAreFinal, Fresh,
         Leased, Locked, Moved, Placed, Requests, Decided, Terminal, TypeOK
  <2> QED BY <1>3, <2>1, <2>2, <2>3, <2>4, <2>5, <2>6, <2>7, <2>8, <2>9,
            <2>10, <2>11, <2>12, <2>13, <2>14, <2>15, <2>16, <2>17, <2>18 DEF Worker
<1>4. CASE UNCHANGED vars
  BY <1>4 DEF vars, Authorized, ConflictsAreFinal, Fresh, Leased, Locked, Moved, Placed,
       Requests, Decided, Terminal, TypeOK
<1> QED BY <1>1, <1>2, <1>3, <1>4 DEF Next, Closes
----------------------------------------------------------------------------
\* The request of the beginning is where the invariant says.
LEMMA InitInvariant == Init => IInv
<1> SUFFICES ASSUME Init PROVE IInv
  OBVIOUS
<1> USE NoneIsNothing DEF Init
<1>1. TypeOK
  BY DEF TypeOK, Requests, Places, Answers, Results, Tables
<1>2. Placed /\ Fresh /\ Locked /\ OneMoves /\ OneInserts
  BY <1>1 DEF Placed, Fresh, Locked, OneMoves, OneInserts, Moved, TypeOK
<1>3. Drafted
  BY <1>1 DEF Drafted, Moved, TypeOK
<1>4. ResolutionMatchesRequest /\ CommittedIsFinal /\ ConflictsAreFinal
  BY DEF ResolutionMatchesRequest, CommittedIsFinal, ConflictsAreFinal, Tables, Decided
<1> QED BY <1>1, <1>2, <1>3, <1>4 DEF IInv

\* The inductive invariant holds of every behaviour.
THEOREM Invariance == Spec => []IInv
<1>1. IInv /\ [Next]_vars => IInv'
  BY TypeOKStep, PlacedStep, FreshStep, LockedStep, OneMovesStep, OneInsertsStep, DraftedStep,
     ResolutionMatchesRequestStep, CommittedIsFinalStep, ConflictsAreFinalStep DEF IInv
<1> QED BY InitInvariant, <1>1, PTL DEF Spec

\* Every variable keeps its type, whatever the workers and the order of their steps.
THEOREM TypeCorrect == Spec => []TypeOK
<1>1. IInv => TypeOK
  BY DEF IInv
<1> QED BY Invariance, <1>1, PTL

\* A request is decided, "corrupted" and "still-unknown" included, exactly when its
\* one resolution is there, with an observation and an event that agree: no COMMIT,
\* lost or late, of any worker tears the four tables apart.
THEOREM ResolutionMatchesRequestHolds == Spec => []ResolutionMatchesRequest
<1>1. IInv => ResolutionMatchesRequest
  BY DEF IInv
<1> QED BY Invariance, <1>1, PTL

\* What the executor or the lookup has reported committed stays what the
\* database says.
THEOREM CommittedIsFinalHolds == Spec => []CommittedIsFinal
<1>1. IInv => CommittedIsFinal
  BY DEF IInv
<1> QED BY Invariance, <1>1, PTL

\* A conflict that stops a worker is never taken back by a later lease.
THEOREM ConflictsAreFinalHolds == Spec => []ConflictsAreFinal
<1>1. IInv => ConflictsAreFinal
  BY DEF IInv
<1> QED BY Invariance, <1>1, PTL

\* The COMMIT of a resolution finds the claim that its compare-and-set decided on.
LEMMA DecidedStep ==
    ASSUME IInv, [Next]_vars, row.state \notin Decided, row'.state \in Decided
    PROVE  \E w \in Workers :
              /\ row.owner = w /\ row.fence = input[w].fence
              /\ row.revision = input[w].revision /\ row'.result = input[w].result
<1> USE DEF IInv
<1> DEFINE ByHolder == \E w \in Workers :
              /\ row.owner = w /\ row.fence = input[w].fence
              /\ row.revision = input[w].revision /\ row'.result = input[w].result
<1>1. ASSUME NEW w \in Workers, Apply(w) PROVE ByHolder
  <2>1. "request" \in wrote[w] /\ row'.result = input[w].result
    BY <1>1, ApplyEffect, Moves DEF TypeOK
  <2>2. Authorized(w)
    BY <2>1 DEF Locked
  <2> QED BY <2>1, <2>2 DEF Authorized
<1>2. Expire \/ Closes \/ UNCHANGED row => row'.state = row.state \/ row'.state \notin Decided
  BY DEF Expire, Closes, Close, SetRow, TypeOK, Requests, Decided
<1>3. ASSUME NEW w \in Workers, Claim(w) \/ Renew(w) \/ StartObserving(w) \/ Release(w)
      PROVE  row'.state \in {"claimed", "observing", "retry-wait", row.state}
  BY <1>3 DEF Claim, Renew, StartObserving, Release, SetRow
<1>4. ASSUME NEW w \in Workers, Worker(w), ~Apply(w)
      PROVE  (Claim(w) \/ Renew(w) \/ StartObserving(w) \/ Release(w)) \/ UNCHANGED row
  BY <1>4 DEF Worker, Execute, Retry, AppendObservation, AppendResolution, AppendOutbox, Append, SequenceTaken,
     MoveRequest, Classify, StatementFails, Refuse, Commit, Land, Lookup, Reread, Stop, Crash
<1> QED BY <1>1, <1>2, <1>3, <1>4 DEF Next, vars, Closes, Decided

\* Only the current owner, at the revision it saw, decides a request, whatever it
\* is decided to be.
THEOREM DecidedOnCurrentHolds == Spec => DecidedOnCurrent
<1>1. IInv /\ [Next]_vars =>
        [row.state \notin Decided /\ row'.state \in Decided =>
           \E w \in Workers :
              /\ row.owner = w /\ row.fence = input[w].fence
              /\ row.revision = input[w].revision /\ row'.result = input[w].result]_vars
  BY DecidedStep
<1> QED BY Invariance, <1>1, PTL DEF Spec, DecidedOnCurrent
----------------------------------------------------------------------------
\* A result is that of a resolution: no other statement writes one.
Undecided == row.state \notin Decided => row.result = None

\* What the workflow can see of the request, under the names of ReconciliationOutcome.
Status  == CASE row.state \in Decided -> "decided"
              [] row.state \in Terminal \ Decided -> "closed"
              [] OTHER -> "open"
Events  == {e \in Ids : table["outbox"][e] # None}
Told(w) == IF answer[w] \in {"committed", "found"} /\ input[w].result # "unavailable"
           THEN input[w].result ELSE None

Visible == <<Status, row.result, row.owner, row.fence, Events>>

\* The steps of a worker that write the row outside of its transaction.
LEMMA WorkerStep ==
    ASSUME NEW w \in Workers, Worker(w)
    PROVE  \/ Claim(w) \/ Renew(w) \/ StartObserving(w) \/ Release(w)
           \/ Moved(w) /\ Apply(w)
           \/ UNCHANGED <<row, table>>
  BY DEF Worker, Execute, Retry, AppendObservation, AppendResolution, AppendOutbox, Append, SequenceTaken,
     MoveRequest, Classify, StatementFails, Refuse, Commit, Land, Lookup, Reread, Stop, Crash, Moved

\* A row that is not decided has no result.
LEMMA UndecidedInvariant == Spec => []Undecided
<1>1. Init => Undecided
  BY DEF Init, Undecided
<1>2. ASSUME IInv, Undecided, [Next]_vars PROVE Undecided'
  <2> USE <1>2 DEF Undecided
  <2>1. ASSUME NEW w \in Workers, Moved(w), Apply(w) PROVE Undecided'
    <3>1. "request" \in wrote[w]
      BY <2>1 DEF IInv, Placed
    <3>2. input[w].result = "unavailable" => row'.result = None
      BY <2>1, <3>1, ApplyEffect DEF IInv
    <3>3. input[w].result # "unavailable" => row'.state \in Decided
      BY <2>1, <3>1, ApplyEffect, Moves DEF IInv, TypeOK
    <3> QED BY <3>2, <3>3
  <2>2. Expire \/ Closes => Undecided'
    BY DEF Expire, Closes, Close, SetRow, Decided, Terminal, IInv, TypeOK, Requests
  <2>3. ASSUME NEW w \in Workers, Claim(w) \/ Renew(w) \/ StartObserving(w) \/ Release(w)
        PROVE  Undecided'
    BY <2>3 DEF Claim, Renew, StartObserving, Release, Holds, SetRow, Leased, Decided
  <2> QED BY <2>1, <2>2, <2>3, WorkerStep DEF Next, vars, Closes
<1> QED BY <1>1, <1>2, Invariance, PTL DEF Spec

\* A transaction that takes effect gives the claim up, or decides the request for
\* its holder and publishes the one event with it.
LEMMA ApplyVisible ==
    ASSUME IInv, Undecided, NEW w \in Workers, Moved(w), Apply(w)
    PROVE  Outcome!Change
<1> USE DEF IInv
<1>1. /\ "request" \in wrote[w] /\ row.owner = w /\ row.state \in Leased
      /\ input[w].id \in Ids /\ input[w].result \in Results /\ w # None
  BY NoneIsNothing DEF Placed, Locked, Authorized, TypeOK
<1>2. /\ row'.fence = row.fence /\ row'.owner = None
      /\ row'.state = NextState(input[w].result)
      /\ row'.result = IF input[w].result = "unavailable" THEN None ELSE input[w].result
  BY <1>1, ApplyEffect
<1>3. /\ row.state \notin Terminal /\ row.state \notin Decided /\ row.result = None
      /\ \A e \in Ids : table["resolution"][e] = None /\ table["outbox"][e] = None
  BY <1>1 DEF Leased, Decided, Terminal, Undecided, ResolutionMatchesRequest
<1>4. \A e \in Ids : table'["outbox"][e] =
        IF "outbox" \in wrote[w] /\ e = input[w].id THEN input[w].result ELSE table["outbox"][e]
  BY ApplyEffect, DraftSays DEF Tables
<1>5. CASE input[w].result = "unavailable"
  <2>1. "outbox" \notin wrote[w]
    BY <1>5 DEF Drafted
  <2>2. Events' = Events
    BY <1>4, <2>1 DEF Events
  <2>3. row'.state \notin Terminal /\ row'.result = row.result
    BY <1>2, <1>3, <1>5 DEF NextState, Decided, Terminal
  <2>4. Outcome!GiveUp
    BY <1>1, <1>2, <1>3, <2>2, <2>3 DEF Outcome!GiveUp, Events, Terminal
  <2> QED BY <2>4 DEF Outcome!Change
<1>6. CASE input[w].result # "unavailable"
  <2>1. "outbox" \in wrote[w] \/ table["outbox"][input[w].id] = input[w].result
    BY <1>6, DraftSays DEF Drafted, Written, Tables
  <2>2. input[w].result # None
    BY <1>1, NoneIsNothing DEF Results
  <2>3. Events' = {input[w].id}
    BY <1>1, <1>3, <1>4, <2>1, <2>2 DEF Events
  <2>4. row'.state \in Decided /\ row'.result = input[w].result
    BY <1>1, <1>2, <1>6, Moves
  <2>5. PICK e \in Ids : e = input[w].id
    BY <1>1
  <2>6. PICK r \in Results \ {"unavailable"} : r = input[w].result
    BY <1>1, <1>6
  <2>7. Outcome!Decide(w, e, r)
    BY <1>1, <1>2, <1>3, <2>3, <2>4, <2>5, <2>6 DEF Outcome!Decide, Events
  <2> HIDE DEF IInv
  <2> QED BY <2>7 DEF Outcome!Change
<1> QED BY <1>5, <1>6

\* A statement on the row alone hands the claim out, gives it up, or
\* changes nothing that can be seen.
LEMMA StatementVisible ==
    ASSUME IInv, NEW w \in Workers,
           Claim(w) \/ Renew(w) \/ StartObserving(w) \/ Release(w)
    PROVE  Outcome!Change \/ UNCHANGED Visible
<1> USE DEF IInv, SetRow
<1>1. table' = table
  BY DEF Claim, Renew, StartObserving, Release
<1>2. Events' = Events
  BY <1>1 DEF Events
<1>3. CASE Claim(w)
  <2>1. /\ row.state \notin Terminal /\ row'.state \notin Terminal
        /\ row'.owner = w /\ row'.fence = row.fence + 1 /\ row'.result = row.result
    BY <1>3 DEF Claim, Leased, Decided, Terminal, NextFence
  <2>2. Outcome!Grant(w)
    BY <1>2, <2>1 DEF Outcome!Grant, Events, Terminal
  <2> QED BY <2>2 DEF Outcome!Change
<1>4. CASE Renew(w) \/ StartObserving(w)
  <2>1. /\ row'.owner = row.owner /\ row'.fence = row.fence /\ row'.result = row.result
        /\ row.state \notin Terminal /\ row'.state \notin Terminal
    BY <1>4 DEF Renew, StartObserving, Holds, Leased, Decided, Terminal
  <2> QED BY <1>2, <2>1 DEF Visible, Status, Terminal
<1>5. CASE Release(w)
  <2>1. CASE Holds(w)
    <3>1. /\ row.state \notin Terminal /\ row'.state \notin Terminal /\ row.owner # None
          /\ row'.owner = None /\ row'.fence = row.fence /\ row'.result = row.result
      BY <1>5, <2>1, NoneIsNothing DEF Release, Holds, Leased, Decided, Terminal
    <3>2. Outcome!GiveUp
      BY <1>2, <3>1 DEF Outcome!GiveUp, Events, Terminal
    <3> QED BY <3>2 DEF Outcome!Change
  <2>2. CASE ~Holds(w)
    BY <1>2, <1>5, <2>2 DEF Release, Visible, Status
  <2> QED BY <2>1, <2>2
<1> QED BY <1>3, <1>4, <1>5

\* Every step of the workers, of the lease's end and of whoever closes the request.
LEMMA VisibleStep ==
    ASSUME IInv, Undecided, [Next]_vars
    PROVE  Outcome!Change \/ UNCHANGED Visible
<1>1. CASE UNCHANGED <<row, table>>
  BY <1>1 DEF Visible, Status, Events
<1>2. CASE Expire
  <2>1. /\ row'.state = row.state /\ row'.owner = row.owner
        /\ row'.fence = row.fence /\ row'.result = row.result /\ table' = table
    BY <1>2 DEF Expire, IInv, TypeOK, Requests
  <2> QED BY <2>1 DEF Visible, Status, Events
<1>3. CASE Closes
  <2>1. /\ row.state \notin Terminal /\ row'.state \in Terminal \ Decided
        /\ row'.owner = None /\ row'.fence = row.fence /\ row'.result = row.result /\ table' = table
    BY <1>3 DEF Closes, Close, SetRow, Decided, Terminal
  <2>2. Outcome!Close
    BY <2>1 DEF Outcome!Close, Terminal
  <2> QED BY <2>2 DEF Outcome!Change
<1>4. ASSUME NEW w \in Workers, Worker(w) PROVE Outcome!Change \/ UNCHANGED Visible
  BY <1>1, <1>4, WorkerStep, ApplyVisible, StatementVisible
<1> QED BY <1>1, <1>2, <1>3, <1>4 DEF Next, vars, Closes

\* A step of a worker concerns no other worker's completion and answer.
LEMMA OwnAnswer ==
    ASSUME TypeOK, NEW w \in Workers, Worker(w), NEW v \in Workers \ {w}
    PROVE  answer'[v] = answer[v] /\ input'[v] = input[v]
<1> USE DEF TypeOK, Say
<1>1. CASE Claim(w) \/ Renew(w) \/ StartObserving(w) \/ Release(w)
  BY <1>1 DEF Claim, Renew, StartObserving, Release
<1>2. CASE Execute(w) \/ Retry(w)
  BY <1>2 DEF Execute, Retry
<1>3. CASE AppendObservation(w) \/ AppendResolution(w) \/ AppendOutbox(w) \/ MoveRequest(w)
  BY <1>3 DEF AppendObservation, AppendResolution, AppendOutbox, MoveRequest, Append, SequenceTaken, Refuse
<1>4. CASE Classify(w) \/ StatementFails(w)
  BY <1>4 DEF Classify, StatementFails, Refuse
<1>5. CASE Commit(w) \/ Land(w)
  BY <1>5 DEF Commit, Land
<1>6. CASE Lookup(w) \/ Reread(w) \/ Stop(w) \/ Crash(w)
  BY <1>6 DEF Lookup, Reread, Stop, Crash
<1> QED BY <1>1, <1>2, <1>3, <1>4, <1>5, <1>6 DEF Worker

\* A worker that is told of a result is told the result of the request.
LEMMA ToldStep ==
    ASSUME IInv, IInv', [Next]_vars
    PROVE  \/ UNCHANGED [w \in Workers |-> Told(w)]
           \/ \E w \in Workers, r \in (Results \ {"unavailable"}) \cup {None} : Outcome!Tell(w, r)
<1> DEFINE told == [w \in Workers |-> Told(w)]
<1>1. CASE UNCHANGED <<answer, input>>
  BY <1>1 DEF Told
<1>2. ASSUME NEW w \in Workers, Worker(w)
      PROVE  \E r \in (Results \ {"unavailable"}) \cup {None} : Outcome!Tell(w, r)
  <2>1. \A v \in Workers \ {w} : Told(v)' = Told(v)
    BY <1>2, OwnAnswer DEF Told, IInv
  <2>2. told' = [told EXCEPT ![w] = Told(w)']
    BY <2>1
  <2>3. Told(w)' = None \/ (row'.state \in Decided /\ row'.result = Told(w)')
    BY Moves DEF Told, IInv, TypeOK, CommittedIsFinal
  <2>4. Told(w)' \in (Results \ {"unavailable"}) \cup {None}
    BY DEF Told, IInv, TypeOK
  <2>5. ASSUME NEW r, r = Told(w)' PROVE Outcome!Tell(w, r)
    <3>1. told' = [told EXCEPT ![w] = r]
      BY <2>2, <2>5
    <3>2. r = None \/ (Status' = "decided" /\ row'.result = r)
      BY <2>3, <2>5 DEF Status, Decided, Terminal
    <3> QED BY <3>1, <3>2 DEF Outcome!Tell, Told, Status
  <2> QED BY <2>4, <2>5
<1>3. Expire \/ Closes \/ UNCHANGED vars => UNCHANGED <<answer, input>>
  BY DEF Expire, Closes, Close, vars
<1> QED BY <1>1, <1>2, <1>3 DEF Next, Closes

\* The executor, the leases and the lookup keep what reconciliation owes its
\* workflow: one result, decided by the holder of the claim, published with its
\* one event, and never contradicted by an answer.
THEOREM Refinement == Spec => ImplementsOutcome
<1>1. Init => Outcome!Init
  BY DEF Init, Outcome!Init, Decided, Terminal, Tables
<1>2. ASSUME IInv, IInv', Undecided, [Next]_vars PROVE [Outcome!Next]_(Outcome!vars)
  <2>1. Outcome!Change \/ UNCHANGED Visible
    BY <1>2, VisibleStep
  <2>2. \/ UNCHANGED [w \in Workers |-> Told(w)]
        \/ \E w \in Workers, r \in (Results \ {"unavailable"}) \cup {None} : Outcome!Tell(w, r)
    BY <1>2, ToldStep
  <2> QED BY <2>1, <2>2 DEF Outcome!Next, Outcome!vars, Visible, Status, Events, Told
<1> QED BY <1>1, <1>2, Invariance, UndecidedInvariant, PTL DEF Spec, ImplementsOutcome, Outcome!Spec
----------------------------------------------------------------------------
\* What each statement of the executor comes after.
Rank(place) ==
    IF place = "observation" THEN 1 ELSE IF place = "resolution" THEN 2
    ELSE IF place = "outbox" THEN 3 ELSE IF place = "cas" THEN 4 ELSE 5

\* v's transaction holds what w's next statement needs: the same draft's key, or
\* the row of the request.
Waits(w, v) ==
    /\ v # w
    /\ \/ pc[w] \in Tables /\ pc[w] \in wrote[v] /\ input[v].id = input[w].id
       \/ pc[w] = "cas" /\ "request" \in wrote[v]

\* No executors wait for each other in a circle, however many there are: of any
\* of them, one waits for none of the others.
NoCircularWait ==
    \A S \in SUBSET Workers : (\A w \in S : \E v \in S : Waits(w, v)) => S = {}

\* A transaction that has written a draft has its next statement behind it.
InOrder ==
    \A w \in Workers, t \in Tables : t \in wrote[w] => Rank(pc[w]) > Rank(t)

\* The statements of every executor are sent in the same order.
LEMMA InOrderInvariant == Spec => []InOrder
<1>1. Init => InOrder
  BY DEF Init, InOrder
<1>2. ASSUME TypeOK, Placed, InOrder, [Next]_vars PROVE InOrder'
  <2> USE <1>2 DEF TypeOK, InOrder, Goto
  \* A step that writes no draft, and brings nobody back.
  <2>1. ASSUME NEW w \in Workers,
               \A v \in Workers \ {w} : pc'[v] = pc[v] /\ wrote'[v] = wrote[v],
               \A t \in Tables : t \in wrote'[w] =>
                   Rank(pc'[w]) > Rank(t)
        PROVE  InOrder'
    BY <2>1
  <2>2. ASSUME NEW w \in Workers, wrote'[w] \subseteq wrote[w], pc'[w] \notin Tables \cup {"cas"},
               \A v \in Workers \ {w} : pc'[v] = pc[v] /\ wrote'[v] = wrote[v]
        PROVE  InOrder'
    BY <2>1, <2>2 DEF Rank, Tables
  <2>3. UNCHANGED <<pc, wrote>> => InOrder'
    OBVIOUS
  <2>4. Expire \/ Closes => InOrder'
    BY <2>3 DEF Expire, Closes, Close
  <2>5. ASSUME NEW w \in Workers, Claim(w) \/ Renew(w) \/ StartObserving(w) \/ Release(w)
        PROVE  InOrder'
    BY <2>2, <2>3, <2>5 DEF Claim, Renew, StartObserving, Release, Tables
  <2>6. ASSUME NEW w \in Workers, NEW a, Refuse(w, a) PROVE InOrder'
    BY <2>2, <2>6 DEF Refuse, Tables
  <2>7. ASSUME NEW w \in Workers, Execute(w) \/ Retry(w) PROVE InOrder'
    <3>1. wrote[w] = {} /\ wrote' = wrote /\ \A v \in Workers \ {w} : pc'[v] = pc[v]
      BY <2>7 DEF Execute, Retry, Placed
    <3> QED BY <2>1, <3>1
  <2>8. ASSUME NEW w \in Workers, NEW t \in Tables, NEW m, NEW n \in Places,
               Rank(n) > Rank(t), Append(w, t, m, n)
        PROVE  InOrder'
    <3>1. CASE Refuse(w, "semantic-conflict")
      BY <2>6, <3>1
    <3>2. CASE Goto(w, "classify") /\ wrote' = wrote
      BY <2>2, <3>2 DEF Tables
    <3>3. CASE Goto(w, n) /\ (wrote' = wrote \/ wrote' = [wrote EXCEPT ![w] = @ \cup {t}])
      <4>1. pc[w] = t
        BY <2>8 DEF Append
      <4>2. \A u \in Tables : u \in wrote'[w] => Rank(n) > Rank(u)
        BY <2>8, <3>3, <4>1 DEF Rank, Tables
      <4> QED BY <2>1, <3>3, <4>2
    <3> QED BY <2>8, <3>1, <3>2, <3>3 DEF Append
  <2>9. ASSUME NEW w \in Workers, AppendObservation(w) \/ AppendResolution(w) \/ AppendOutbox(w)
        PROVE  InOrder'
    <3>1. /\ "observation" \in Tables /\ "resolution" \in Tables /\ "outbox" \in Tables
          /\ {"resolution", "outbox", "cas"} \subseteq Places
      BY DEF Tables, Places
    <3>2. /\ \A n \in {"resolution", "cas"} : Rank(n) > Rank("observation")
          /\ Rank("outbox") > Rank("resolution") /\ Rank("cas") > Rank("outbox")
      BY DEF Rank
    <3>3. CASE AppendObservation(w)
      <4>1. PICK n \in {"resolution", "cas"} :
                Append(w, "observation", TRUE, n) \/ Refuse(w, "semantic-conflict")
        BY <3>3 DEF AppendObservation, SequenceTaken
      <4>2. n \in Places /\ Rank(n) > Rank("observation")
        BY <3>1, <3>2
      <4> QED BY <2>6, <2>8, <3>1, <4>1, <4>2, Zenon
    <3>4. CASE AppendResolution(w)
      BY <2>8, <3>1, <3>2, <3>4 DEF AppendResolution
    <3>5. CASE AppendOutbox(w)
      <4>1. Append(w, "outbox", TRUE, "cas")
        BY <3>5 DEF AppendOutbox
      <4>2. "cas" \in Places
        BY <3>1
      <4> QED BY <2>8, <3>1, <3>2, <4>1, <4>2, Zenon
    <3> QED BY <2>9, <3>3, <3>4, <3>5
  <2>10. ASSUME NEW w \in Workers, MoveRequest(w) PROVE InOrder'
    <3>1. CASE Goto(w, "classify") /\ wrote' = wrote
      BY <2>2, <3>1 DEF Tables
    <3>2. CASE Goto(w, "commit") /\ wrote' = [wrote EXCEPT ![w] = @ \cup {"request"}]
      BY <2>1, <3>2 DEF Rank, Tables
    <3> QED BY <2>10, <3>1, <3>2 DEF MoveRequest
  <2>11. ASSUME NEW w \in Workers, Classify(w) \/ StatementFails(w) PROVE InOrder'
    BY <2>6, <2>11 DEF Classify, StatementFails
  <2>12. ASSUME NEW w \in Workers, Commit(w) PROVE InOrder'
    BY <2>2, <2>12 DEF Commit, EndTransaction, Tables
  <2>13. ASSUME NEW w \in Workers, Land(w) PROVE InOrder'
    BY <2>1, <2>13 DEF Land, EndTransaction
  <2>14. ASSUME NEW w \in Workers, Lookup(w) \/ Reread(w) \/ Stop(w) \/ Crash(w) PROVE InOrder'
    BY <2>2, <2>3, <2>14 DEF Lookup, Reread, Stop, Crash, EndTransaction, Tables
  <2> QED
    BY <2>3, <2>4, <2>5, <2>7, <2>9, <2>10, <2>11, <2>12, <2>13, <2>14
       DEF Next, Worker, vars, Closes
<1>3. IInv => TypeOK /\ Placed
  BY DEF IInv
<1> QED BY <1>1, <1>2, <1>3, Invariance, PTL DEF Spec

\* Keys and the row are locked in one order, so that the executors cannot hold
\* each other up for good.
THEOREM NoCircularWaitHolds == Spec => []NoCircularWait
<1>1. ASSUME TypeOK, Placed, InOrder PROVE NoCircularWait
  <2> SUFFICES ASSUME NEW S \in SUBSET Workers, \A w \in S : \E v \in S : Waits(w, v)
               PROVE  S = {}
    BY DEF NoCircularWait
  \* Who is waited for is further on, and who waits is not at the end.
  <2>1. ASSUME NEW w \in S
        PROVE  \E v \in S : Rank(pc[v]) > Rank(pc[w])
    <3>1. PICK v \in S : Waits(w, v)
      OBVIOUS
    <3>2. CASE pc[w] \in Tables
      BY <1>1, <3>1, <3>2 DEF Waits, InOrder, Tables
    <3>3. CASE pc[w] = "cas" /\ "request" \in wrote[v]
      <4>1. pc[v] = "commit" \/ tx[v] = "sent"
        BY <1>1, <3>3 DEF Placed, Moved
      <4>2. tx[v] = "sent" => pc[v] \in {"idle", "held"}
        BY <1>1 DEF Placed
      <4> QED BY <3>3, <4>1, <4>2 DEF Rank
    <3> QED BY <3>1, <3>2, <3>3 DEF Waits
  <2>2. \A w \in S : Rank(pc[w]) \in 1..5
    BY DEF Rank
  <2>3. \A w \in S : Rank(pc[w]) # 5
    BY <2>1, <2>2
  <2>4. \A w \in S : Rank(pc[w]) # 4
    BY <2>1, <2>2, <2>3
  <2>5. \A w \in S : Rank(pc[w]) # 3
    BY <2>1, <2>2, <2>3, <2>4
  <2>6. \A w \in S : Rank(pc[w]) # 2
    BY <2>1, <2>2, <2>3, <2>4, <2>5
  <2> QED BY <2>1, <2>2, <2>3, <2>4, <2>5, <2>6
<1>2. IInv => TypeOK /\ Placed
  BY DEF IInv
<1> QED BY <1>1, <1>2, Invariance, InOrderInvariant, PTL
============================================================================
