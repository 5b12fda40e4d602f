------------------------ MODULE CsrfAuthorityProofs ------------------------
(***************************************************************************)
(* Proofs about CsrfAuthority for any number of calls, any ceiling,        *)
(* lifetime and skew.  The inductive invariant in layers:                  *)
(*   Locked     who is past the lock holds it, and only the holder's view  *)
(*              of the table differs from the table;                       *)
(*   Recorded   which rows a call has written at each place, and what its  *)
(*              answer says about them;                                    *)
(*   Bounded    the ceiling, for the table and for what a COMMIT would     *)
(*              make of it;                                                *)
(*   Cleared    what a revocation has done when it commits and after;      *)
(*   Replaced   what an issue does to other tokens when it commits;        *)
(*   Effective  what the COMMIT of a call that has written will do, and    *)
(*   Told       what a call has been told before it ends: what the book of *)
(*              tokens (CsrfTokenBook) needs of a step.                    *)
(***************************************************************************)
EXTENDS CsrfAuthority, FiniteSetTheorems, TLAPS

Locked ==
    /\ \A r \in Requests : pc[r] \in Holding <=> lock = r
    /\ \A r \in Requests : pc[r] = "work" => draft = table
    /\ lock = NoRequest => draft = table
    /\ \A r \in Requests : begun[r] <= now

Recorded ==
    \A t \in Issuers :
        /\ pc[t] \in {"new", "lock", "work"} => table[t] = "none" /\ draft[t] = "none"
        /\ pc[t] = "commit" => table[t] = "none" /\ draft[t] = "active"
        /\ answer[t] = "malformed" => pc[t] = "done" /\ table[t] = "none" /\ draft[t] = "none"
        /\ answer[t] = "issued" => pc[t] = "done" /\ table[t] # "none" /\ draft[t] # "none"
        /\ table[t] = "revoked" => draft[t] = "revoked"

Bounded ==
    /\ Cardinality(Active(table, now)) <= Ceiling
    /\ Cardinality(Active(draft, now)) <= Ceiling

Cleared ==
    \A v \in Revokers :
        /\ \A t \in owed[v] : table[t] # "none" /\ draft[t] # "none"
        /\ pc[v] = "commit" => \A t \in scope[v] : draft[t] # "active"
        /\ answer[v] \in {"revoked", "not-found"}
              => pc[v] = "done" /\ \A t \in owed[v] \cap scope[v] : table[t] = "revoked"

GivesWay(i, t) ==
    /\ table[i] = "none" /\ draft[i] = "active"
    /\ \A u \in Active(table, now) \cap Active(draft, now) : issuedAt[t] <= issuedAt[u]

Replaced ==
    \A i \in Issuers : lock = i =>
        \A t \in Issuers : table[t] = "active" /\ draft[t] # "active" => GivesWay(i, t)

----------------------------------------------------------------------------
\* Later, with fewer tokens active: a finite set's part is no larger.
LEMMA ActiveTypes ==
    ASSUME NEW rows, NEW time
    PROVE  /\ Active(rows, time) \subseteq Issuers
           /\ IsFiniteSet(Active(rows, time))
           /\ Cardinality(Active(rows, time)) \in Nat
<1>1. Active(rows, time) \subseteq Issuers
  BY DEF Active
<1>2. IsFiniteSet(Issuers)
  BY Policy
<1> QED BY <1>1, <1>2, FS_Subset, FS_CardinalityType

\* What an issue does: insert below the ceiling, replace at it, or roll back.
LEMMA IssueCases ==
    ASSUME NEW r, Issue(r)
    PROVE  /\ pc[r] = "work"
           /\ \/ /\ Cardinality(Active(table, begun[r])) < Ceiling
                 /\ Write(r, [table EXCEPT ![r] = "active"])
              \/ /\ Cardinality(Active(table, begun[r])) = Ceiling
                 /\ \E t \in Oldest(Active(table, begun[r])) :
                       Write(r, [Revoked(table, {t}) EXCEPT ![r] = "active"])
              \/ RollBack(r, "unavailable")
              \/ RollBack(r, "malformed")
BY DEF Issue

\* Type correctness.
THEOREM TypeCorrect == Spec => []TypeOK
<1>1. Init => TypeOK
  BY Policy DEF Init, TypeOK, Requests, Holding
<1>2. ASSUME TypeOK, [Next]_vars PROVE TypeOK'
  <2> USE <1>2, Policy DEF TypeOK, Requests, Holding, Goto
  <2>1. ASSUME NEW r \in Issuers, BeginIssue(r) PROVE TypeOK'
    BY <2>1 DEF BeginIssue, Begin
  <2>2. ASSUME NEW r \in Issuers, Issue(r) PROVE TypeOK'
    BY <2>2 DEF Issue, Write, RollBack, Revoked
  <2>3. ASSUME NEW r \in Revokers, BeginRevoke(r) PROVE TypeOK'
    BY <2>3 DEF BeginRevoke, Begin
  <2>4. ASSUME NEW r \in Revokers, Revoke(r) PROVE TypeOK'
    BY <2>4 DEF Revoke, Write, RollBack, Revoked
  <2>5. ASSUME NEW r \in Requests, Serve(r) PROVE TypeOK'
    BY <2>5 DEF Serve, AcquireSessionLock, Commit
  <2>6. ASSUME NEW r \in Requests, Fail(r) PROVE TypeOK'
    BY <2>6 DEF Fail, RollBack
  <2>7. ASSUME NEW r \in Requests, Lose(r) PROVE TypeOK'
    BY <2>7 DEF Lose
  <2>8. ASSUME NEW r \in Requests, EndOrphan(r) PROVE TypeOK'
    BY <2>8 DEF EndOrphan
  <2>9. CASE Tick
    BY <2>9 DEF Tick
  <2>10. CASE UNCHANGED vars
    BY <2>10 DEF vars
  <2> QED BY <2>1, <2>2, <2>3, <2>4, <2>5, <2>6, <2>7, <2>8, <2>9, <2>10 DEF Next
<1> QED BY <1>1, <1>2, PTL DEF Spec

LEMMA LockedInvariant == Spec => []Locked
<1>1. Init => Locked
  BY Policy DEF Init, Locked, Requests, Holding
<1>2. ASSUME TypeOK, Locked, [Next]_vars PROVE Locked'
  <2> USE <1>2, Policy DEF TypeOK, Locked, Requests, Holding, Goto
  <2>1. ASSUME NEW r \in Issuers, BeginIssue(r) PROVE Locked'
    BY <2>1 DEF BeginIssue, Begin
  <2>2. ASSUME NEW r \in Issuers, Issue(r) PROVE Locked'
    <3>1. pc[r] = "work" /\ ((\E rows : Write(r, rows)) \/ (\E a : RollBack(r, a)))
      BY <2>2, IssueCases
    <3>2. CASE \E rows : Write(r, rows)
      BY <3>1, <3>2 DEF Write
    <3>3. CASE \E a : RollBack(r, a)
      BY <3>1, <3>3 DEF RollBack
    <3> QED BY <3>1, <3>2, <3>3
  <2>3. ASSUME NEW r \in Revokers, BeginRevoke(r) PROVE Locked'
    BY <2>3 DEF BeginRevoke, Begin
  <2>4. ASSUME NEW r \in Revokers, Revoke(r) PROVE Locked'
    BY <2>4 DEF Revoke, Write, RollBack
  <2>5. ASSUME NEW r \in Requests, Serve(r) PROVE Locked'
    BY <2>5 DEF Serve, AcquireSessionLock, Commit
  <2>6. ASSUME NEW r \in Requests, Fail(r) PROVE Locked'
    BY <2>6 DEF Fail, RollBack
  <2>7. ASSUME NEW r \in Requests, Lose(r) PROVE Locked'
    BY <2>7 DEF Lose
  <2>8. ASSUME NEW r \in Requests, EndOrphan(r) PROVE Locked'
    BY <2>8 DEF EndOrphan
  <2>9. CASE Tick
    BY <2>9 DEF Tick
  <2>10. CASE UNCHANGED vars
    BY <2>10 DEF vars
  <2> QED BY <2>1, <2>2, <2>3, <2>4, <2>5, <2>6, <2>7, <2>8, <2>9, <2>10 DEF Next
<1> QED BY <1>1, <1>2, TypeCorrect, PTL DEF Spec

LEMMA RecordedInvariant == Spec => []Recorded
<1>1. Init => Recorded
  BY Policy DEF Init, Recorded, Requests
<1>2. ASSUME TypeOK, Locked, Recorded, [Next]_vars PROVE Recorded'
  <2> USE <1>2, Policy DEF TypeOK, Locked, Recorded, Requests, Holding, Goto
  <2>1. ASSUME NEW r \in Issuers, BeginIssue(r) PROVE Recorded'
    BY <2>1 DEF BeginIssue, Begin
  <2>2. ASSUME NEW r \in Issuers, Issue(r) PROVE Recorded'
    <3>1. CASE Write(r, [table EXCEPT ![r] = "active"])
      BY <2>2, <3>1, IssueCases DEF Write
    <3>2. CASE \E t \in Oldest(Active(table, begun[r])) :
                  Write(r, [Revoked(table, {t}) EXCEPT ![r] = "active"])
      <4>1. PICK t \in Oldest(Active(table, begun[r])) :
                    Write(r, [Revoked(table, {t}) EXCEPT ![r] = "active"])
        BY <3>2
      <4>2. t \in Issuers /\ table[t] = "active"
        BY DEF Oldest, Active
      <4> QED BY <2>2, <4>1, <4>2, IssueCases DEF Write, Revoked
    <3>3. ASSUME NEW a \in {"unavailable", "malformed"}, RollBack(r, a) PROVE Recorded'
      <4>1. pc[r] = "work" /\ table[r] = "none" /\ draft[r] = "none"
        BY <2>2, IssueCases
      <4>2. /\ pc' = [pc EXCEPT ![r] = "done"] /\ answer' = [answer EXCEPT ![r] = a]
            /\ UNCHANGED <<table, draft>>
        BY <3>3 DEF RollBack
      <4> QED BY <4>1, <4>2
    <3> QED BY <2>2, <3>1, <3>2, <3>3, IssueCases
  <2>3. ASSUME NEW r \in Revokers, BeginRevoke(r) PROVE Recorded'
    BY <2>3 DEF BeginRevoke, Begin
  <2>4. ASSUME NEW r \in Revokers, Revoke(r) PROVE Recorded'
    BY <2>4 DEF Revoke, Write, RollBack, Revoked
  <2>5. ASSUME NEW r \in Requests, Serve(r) PROVE Recorded'
    BY <2>5 DEF Serve, AcquireSessionLock, Commit
  <2>6. ASSUME NEW r \in Requests, Fail(r) PROVE Recorded'
    BY <2>6 DEF Fail, RollBack
  <2>7. ASSUME NEW r \in Requests, Lose(r) PROVE Recorded'
    BY <2>7 DEF Lose
  <2>8. ASSUME NEW r \in Requests, EndOrphan(r) PROVE Recorded'
    BY <2>8 DEF EndOrphan
  <2>9. CASE Tick
    BY <2>9 DEF Tick
  <2>10. CASE UNCHANGED vars
    BY <2>10 DEF vars
  <2> QED BY <2>1, <2>2, <2>3, <2>4, <2>5, <2>6, <2>7, <2>8, <2>9, <2>10 DEF Next
<1> QED BY <1>1, <1>2, TypeCorrect, LockedInvariant, PTL DEF Spec

\* Every answer "issued" stands for a row, and no refusal as malformed does.
THEOREM DurableAnswers == Spec => []AnswersAreDurable
<1>1. Recorded => AnswersAreDurable
  BY DEF Recorded, AnswersAreDurable
<1> QED BY <1>1, RecordedInvariant, PTL

----------------------------------------------------------------------------
\* Rows that are active later were active before.
LEMMA ActiveShrinks ==
    ASSUME TypeOK, NEW rows, NEW early \in Int, NEW late \in Int, early <= late
    PROVE  Active(rows, late) \subseteq Active(rows, early)
<1>1. \A t \in Issuers : ExpiresAt(t) \in Int
  BY Policy DEF ExpiresAt, TypeOK
<1> QED BY <1>1 DEF Active

\* A token that gets its issued_at is not in the table yet.
LEMMA BeginIssueKeepsActive ==
    ASSUME TypeOK, Recorded, NEW r \in Issuers, BeginIssue(r)
    PROVE  /\ Active(table, now)' = Active(table, now)
           /\ Active(draft, now)' = Active(draft, now)
           /\ UNCHANGED <<table, draft, lock>>
           /\ \A t \in Issuers : table[t] # "none" \/ draft[t] # "none" => issuedAt'[t] = issuedAt[t]
<1>1. /\ table[r] = "none" /\ draft[r] = "none"
      /\ UNCHANGED <<table, draft, lock, now>>
      /\ \A t \in Issuers : t # r => issuedAt'[t] = issuedAt[t]
  BY DEF BeginIssue, Begin, Recorded, TypeOK
<1> QED BY <1>1 DEF Active, ExpiresAt

LEMMA BoundedInvariant == Spec => []Bounded
<1>1. Init => Bounded
  <2> SUFFICES ASSUME Init PROVE Bounded
    OBVIOUS
  <2>1. Active(table, now) = {} /\ Active(draft, now) = {}
    BY DEF Init, Active
  <2> QED BY <2>1, FS_EmptySet, Policy DEF Bounded
<1>2. ASSUME TypeOK, Locked, Recorded, Bounded, [Next]_vars PROVE Bounded'
  <2>1. ASSUME NEW r \in Issuers, BeginIssue(r) PROVE Bounded'
    BY <1>2, <2>1, BeginIssueKeepsActive DEF Bounded
  <2>2. ASSUME NEW r \in Issuers, Issue(r) PROVE Bounded'
    <3> DEFINE A == Active(table, begun[r])
    <3>1. /\ pc[r] = "work" /\ table[r] = "none"
          /\ begun[r] \in Int /\ now \in Int /\ begun[r] <= now
      <4>1. pc[r] = "work"
        BY <2>2, IssueCases
      <4> QED BY <1>2, <4>1, Policy DEF Recorded, Locked, TypeOK, Requests
    <3>2. /\ IsFiniteSet(A) /\ r \notin A /\ Cardinality(A) \in Nat
      BY <3>1, ActiveTypes DEF Active
    <3>3. ASSUME NEW S \in SUBSET A, Cardinality(S) < Ceiling, NEW rows,
                 \A t \in Issuers : rows[t] = "active" => t = r \/ (table[t] = "active" /\ (t \in A => t \in S)),
                 Write(r, rows)
          PROVE  Bounded'
      <4>1. /\ Active(draft, now)' = Active(rows, now) /\ Active(table, now)' = Active(table, now)
        BY <3>3 DEF Write, Active, ExpiresAt
      <4>2. Active(rows, now) \subseteq S \cup {r}
        <5>1. Active(table, now) \subseteq A
          BY <1>2, <3>1, ActiveShrinks
        <5> QED BY <3>3, <5>1 DEF Active
      <4>3. IsFiniteSet(S) /\ Cardinality(S) \in Nat /\ r \notin S
        BY <3>2, FS_Subset, FS_CardinalityType
      <4>4. IsFiniteSet(S \cup {r}) /\ Cardinality(S \cup {r}) = Cardinality(S) + 1
        BY <4>3, FS_AddElement
      <4>5. Cardinality(Active(rows, now)) <= Cardinality(S \cup {r})
        BY <4>2, <4>4, FS_Subset
      <4>6. Cardinality(Active(rows, now)) \in Nat
        BY ActiveTypes
      <4> QED BY <1>2, <3>3, <4>1, <4>3, <4>4, <4>5, <4>6, Policy DEF Bounded
    <3>4. CASE Cardinality(A) < Ceiling /\ Write(r, [table EXCEPT ![r] = "active"])
      <4>1. \A t \in Issuers : [table EXCEPT ![r] = "active"][t] = "active" => t = r \/ table[t] = "active"
        BY <1>2 DEF TypeOK
      <4> QED BY <3>3, <3>4, <4>1
    <3>5. CASE /\ Cardinality(A) = Ceiling
               /\ \E t \in Oldest(A) : Write(r, [Revoked(table, {t}) EXCEPT ![r] = "active"])
      <4>1. PICK t \in Oldest(A) : Write(r, [Revoked(table, {t}) EXCEPT ![r] = "active"])
        BY <3>5
      <4>2. t \in A
        BY DEF Oldest
      <4>3. Cardinality(A \ {t}) = Cardinality(A) - 1
        BY <3>2, <4>2, FS_RemoveElement
      <4>4. \A u \in Issuers : [Revoked(table, {t}) EXCEPT ![r] = "active"][u] = "active"
                                  => u = r \/ (table[u] = "active" /\ u # t)
        BY DEF Revoked
      <4>5. Cardinality(A \ {t}) < Ceiling
        BY <3>2, <3>5, <4>3, Policy
      <4> HIDE DEF A
      <4> QED BY <3>3, <4>1, <4>4, <4>5
    <3>6. ASSUME NEW a, RollBack(r, a) PROVE Bounded'
      BY <1>2, <3>6 DEF RollBack, Bounded, Active, ExpiresAt
    <3> QED BY <2>2, <3>4, <3>5, <3>6, IssueCases
  <2>3. ASSUME NEW r \in Revokers, BeginRevoke(r) PROVE Bounded'
    BY <1>2, <2>3 DEF BeginRevoke, Begin, Bounded, Active, ExpiresAt
  <2>4. ASSUME NEW r \in Revokers, Revoke(r) PROVE Bounded'
    <3>1. ASSUME NEW S, Write(r, Revoked(table, S)) PROVE Bounded'
      <4>1. /\ Active(draft, now)' = Active(Revoked(table, S), now)
            /\ Active(table, now)' = Active(table, now)
        BY <3>1 DEF Write, Active, ExpiresAt
      <4>2. Active(Revoked(table, S), now) \subseteq Active(table, now)
        BY DEF Active, Revoked
      <4>3. /\ Cardinality(Active(Revoked(table, S), now)) <= Cardinality(Active(table, now))
            /\ Cardinality(Active(Revoked(table, S), now)) \in Nat
            /\ Cardinality(Active(table, now)) \in Nat
        BY <4>2, ActiveTypes, FS_Subset
      <4> QED BY <1>2, <4>1, <4>3, Policy DEF Bounded
    <3>2. ASSUME NEW a, RollBack(r, a) PROVE Bounded'
      BY <1>2, <3>2 DEF RollBack, Bounded, Active, ExpiresAt
    <3> QED BY <2>4, <3>1, <3>2 DEF Revoke
  <2>5. ASSUME NEW r \in Requests, Serve(r) PROVE Bounded'
    <3>1. UNCHANGED <<now, draft, issuedAt>> /\ (table' = table \/ table' = draft)
      BY <2>5 DEF Serve, AcquireSessionLock, Commit
    <3> QED BY <1>2, <3>1 DEF Bounded, Active, ExpiresAt
  <2>6. ASSUME NEW r \in Requests, Fail(r) \/ Lose(r) PROVE Bounded'
    BY <1>2, <2>6 DEF Fail, Lose, RollBack, Bounded, Active, ExpiresAt
  <2>7. ASSUME NEW r \in Requests, EndOrphan(r) PROVE Bounded'
    BY <1>2, <2>7 DEF EndOrphan, Bounded, Active, ExpiresAt
  <2>8. CASE Tick
    <3>1. /\ Active(table, now)' = Active(table, now + 1) /\ Active(draft, now)' = Active(draft, now + 1)
      BY <2>8 DEF Tick, Active, ExpiresAt
    <3>2. /\ Active(table, now + 1) \subseteq Active(table, now)
          /\ Active(draft, now + 1) \subseteq Active(draft, now)
      BY <1>2, ActiveShrinks, Policy DEF TypeOK
    <3>3. /\ Cardinality(Active(table, now + 1)) <= Cardinality(Active(table, now))
          /\ Cardinality(Active(draft, now + 1)) <= Cardinality(Active(draft, now))
      BY <3>2, ActiveTypes, FS_Subset
    <3>4. /\ Cardinality(Active(table, now + 1)) \in Nat /\ Cardinality(Active(table, now)) \in Nat
          /\ Cardinality(Active(draft, now + 1)) \in Nat /\ Cardinality(Active(draft, now)) \in Nat
      BY ActiveTypes
    <3> QED BY <1>2, <3>1, <3>3, <3>4, Policy DEF Bounded
  <2>9. CASE UNCHANGED vars
    BY <1>2, <2>9 DEF vars, Bounded, Active, ExpiresAt
  <2> QED BY <1>2, <2>1, <2>2, <2>3, <2>4, <2>5, <2>6, <2>7, <2>8, <2>9 DEF Next
<1> QED BY <1>1, <1>2, TypeCorrect, LockedInvariant, RecordedInvariant, PTL DEF Spec

\* The ceiling holds at every time, for any ceiling, lifetime and skew.
THEOREM NeverAboveCeiling == Spec => []CeilingHolds
<1>1. Bounded => CeilingHolds
  BY DEF Bounded, CeilingHolds
<1> QED BY <1>1, BoundedInvariant, PTL

----------------------------------------------------------------------------
LEMMA ClearedInvariant == Spec => []Cleared
<1>1. Init => Cleared
  BY Policy DEF Init, Cleared, Requests
<1>2. ASSUME TypeOK, Locked, Recorded, Cleared, [Next]_vars PROVE Cleared'
  <2> USE <1>2, Policy DEF TypeOK, Cleared, Requests, Holding, Goto
  <2>1. ASSUME NEW r \in Issuers, BeginIssue(r) PROVE Cleared'
    BY <2>1 DEF BeginIssue, Begin
  <2>2. ASSUME NEW r \in Issuers, Issue(r) PROVE Cleared'
    <3>1. pc[r] = "work" /\ \A v \in Revokers : pc[v] # "commit"
      BY <2>2, IssueCases DEF Locked
    <3>2. ASSUME NEW S, Write(r, [Revoked(table, S) EXCEPT ![r] = "active"]) PROVE Cleared'
      BY <3>1, <3>2 DEF Write, Revoked
    <3>3. CASE Write(r, [table EXCEPT ![r] = "active"])
      BY <3>1, <3>3 DEF Write
    <3>4. ASSUME NEW a, RollBack(r, a) PROVE Cleared'
      BY <3>1, <3>4 DEF RollBack
    <3> QED BY <2>2, <3>2, <3>3, <3>4, IssueCases
  <2>3. ASSUME NEW r \in Revokers, BeginRevoke(r) PROVE Cleared'
    BY <2>3 DEF BeginRevoke, Begin, Recorded
  <2>4. ASSUME NEW r \in Revokers, Revoke(r) PROVE Cleared'
    <3>1. /\ pc[r] = "work" /\ draft = table
          /\ \A v \in Revokers : v # r => pc[v] # "commit"
      BY <2>4 DEF Revoke, Locked
    <3>2. CASE Write(r, Revoked(table, {t \in scope[r] : table[t] = "active"}))
      BY <3>1, <3>2 DEF Write, Revoked
    <3>3. CASE RollBack(r, "unavailable")
      BY <3>1, <3>3 DEF RollBack
    <3>4. CASE {t \in scope[r] : table[t] = "active"} = {} /\ RollBack(r, "not-found")
      BY <3>1, <3>4 DEF RollBack
    <3> QED BY <2>4, <3>2, <3>3, <3>4 DEF Revoke
  <2>5. ASSUME NEW r \in Requests, AcquireSessionLock(r) PROVE Cleared'
    BY <2>5 DEF AcquireSessionLock
  <2>6. ASSUME NEW r \in Requests, Commit(r) PROVE Cleared'
    <3>1. pc[r] = "commit" /\ \A v \in Revokers : v # r => pc[v] # "commit"
      BY <2>6 DEF Commit, Locked
    <3>2. \A t \in Issuers : table[t] = "revoked" => draft[t] = "revoked"
      BY DEF Recorded
    <3>3. ASSUME NEW v \in Revokers, v # r PROVE (answer'[v] = answer[v]) /\ (pc'[v] = pc[v])
      BY <2>6, <3>3 DEF Commit
    <3>4. ASSUME r \in Revokers
          PROVE  \A t \in owed[r] \cap scope[r] : draft[t] = "revoked"
      BY <3>1, <3>4
    <3>5. pc'[r] = "done" /\ table' = draft /\ UNCHANGED <<draft, owed, scope>>
      BY <2>6 DEF Commit
    <3> QED BY <3>1, <3>2, <3>3, <3>4, <3>5
  <2>7. ASSUME NEW r \in Requests, Fail(r) PROVE Cleared'
    BY <2>7 DEF Fail, RollBack
  <2>8. ASSUME NEW r \in Requests, Lose(r) PROVE Cleared'
    BY <2>8 DEF Lose
  <2>9. ASSUME NEW r \in Requests, EndOrphan(r) PROVE Cleared'
    <3>1. \A t \in Issuers : table[t] = "revoked" => draft[t] = "revoked"
      BY DEF Recorded
    <3>2. pc[r] = "orphan" /\ \A v \in Revokers : pc[v] # "commit"
      BY <2>9 DEF EndOrphan, Locked
    <3> QED BY <2>9, <3>1, <3>2 DEF EndOrphan
  <2>10. CASE Tick
    BY <2>10 DEF Tick
  <2>11. CASE UNCHANGED vars
    BY <2>11 DEF vars
  <2> QED BY <2>1, <2>2, <2>3, <2>4, <2>5, <2>6, <2>7, <2>8, <2>9, <2>10, <2>11 DEF Next, Serve
<1> QED BY <1>1, <1>2, TypeCorrect, LockedInvariant, RecordedInvariant, PTL DEF Spec

\* A revocation that is answered leaves nothing of its scope that was issued
\* before it began, whatever else ran meanwhile.
THEOREM CompleteRevocation == Spec => []RevocationIsComplete
<1>1. Cleared => RevocationIsComplete
  BY DEF Cleared, RevocationIsComplete
<1> QED BY <1>1, ClearedInvariant, PTL

----------------------------------------------------------------------------
LEMMA ReplacedInvariant == Spec => []Replaced
<1>1. Init => Replaced
  BY Policy DEF Init, Replaced, Requests
<1>2. ASSUME TypeOK, Locked, Recorded, Replaced, [Next]_vars PROVE Replaced'
  <2> USE <1>2, Policy DEF Requests
  <2>1. ASSUME NEW r \in Issuers, BeginIssue(r) PROVE Replaced'
    <3>1. ASSUME NEW i \in Issuers, NEW t \in Issuers, lock = i, table[t] = "active", draft[t] # "active"
          PROVE  GivesWay(i, t)'
      <4>1. GivesWay(i, t)
        BY <3>1 DEF Replaced
      <4>2. \A u \in Active(table, now) : u \in Issuers /\ table[u] = "active"
        BY DEF Active
      <4> QED BY <2>1, <3>1, <4>1, <4>2, BeginIssueKeepsActive DEF GivesWay
    <3> QED BY <2>1, <3>1, BeginIssueKeepsActive DEF Replaced
  <2>2. ASSUME NEW r \in Issuers, Issue(r) PROVE Replaced'
    <3>1. pc[r] = "work" /\ lock = r /\ draft = table /\ table[r] = "none"
      BY <2>2, IssueCases DEF Locked, Recorded, Holding
    <3>2. CASE Write(r, [table EXCEPT ![r] = "active"])
      BY <3>1, <3>2 DEF Write, Replaced, TypeOK
    <3>3. CASE \E t \in Oldest(Active(table, begun[r])) :
                  Write(r, [Revoked(table, {t}) EXCEPT ![r] = "active"])
      <4>1. PICK t \in Oldest(Active(table, begun[r])) :
                    Write(r, [Revoked(table, {t}) EXCEPT ![r] = "active"])
        BY <3>3
      <4>2. /\ table' = table /\ lock' = lock /\ now' = now /\ issuedAt' = issuedAt
            /\ draft' = [Revoked(table, {t}) EXCEPT ![r] = "active"]
        BY <4>1 DEF Write
      <4>3. Active(table, now) \subseteq Active(table, begun[r])
        <5>1. begun[r] \in Int /\ now \in Int /\ begun[r] <= now
          BY DEF TypeOK, Locked
        <5> QED BY <5>1, ActiveShrinks
      <4>4. \A u \in Active(table, now) : issuedAt[t] <= issuedAt[u]
        BY <4>3 DEF Oldest
      <4>5. draft'[r] = "active" /\ \A u \in Issuers : u # t /\ u # r => draft'[u] = table[u]
        BY <4>2 DEF Revoked
      <4>6. Active(table, now)' = Active(table, now)
        BY <4>2 DEF Active, ExpiresAt
      <4>7. GivesWay(r, t)'
        BY <3>1, <4>2, <4>4, <4>5, <4>6 DEF GivesWay
      <4>8. \A u \in Issuers : table'[u] = "active" /\ draft'[u] # "active" => u = t
        BY <3>1, <4>2, <4>5
      <4> QED BY <3>1, <4>2, <4>7, <4>8 DEF Replaced
    <3>4. ASSUME NEW a, RollBack(r, a) PROVE Replaced'
      BY <3>1, <3>4 DEF RollBack, Replaced
    <3> QED BY <2>2, <3>2, <3>3, <3>4, IssueCases
  <2>3. ASSUME NEW r \in Revokers, BeginRevoke(r) PROVE Replaced'
    BY <2>3 DEF BeginRevoke, Begin, Replaced, GivesWay, Active, ExpiresAt
  <2>4. ASSUME NEW r \in Revokers, Revoke(r) PROVE Replaced'
    <3>1. lock = r
      BY <2>4 DEF Revoke, Locked, Holding
    <3>2. lock' \in {r, NoRequest}
      BY <2>4, <3>1 DEF Revoke, Write, RollBack
    <3> QED BY <3>2 DEF Replaced
  <2>5. ASSUME NEW r \in Requests, Serve(r) PROVE Replaced'
    <3>1. CASE AcquireSessionLock(r)
      BY <3>1 DEF AcquireSessionLock, Locked, Replaced
    <3>2. CASE Commit(r)
      BY <3>2 DEF Commit, Replaced
    <3> QED BY <2>5, <3>1, <3>2 DEF Serve
  <2>6. ASSUME NEW r \in Requests, Fail(r) \/ Lose(r) PROVE Replaced'
    <3>1. UNCHANGED <<table, draft, now, issuedAt>> /\ lock' \in {lock, NoRequest}
      BY <2>6 DEF Fail, Lose, RollBack
    <3>2. Active(table, now)' = Active(table, now) /\ Active(draft, now)' = Active(draft, now)
      BY <3>1 DEF Active, ExpiresAt
    <3> QED BY <3>1, <3>2 DEF Replaced, GivesWay
  <2>7. ASSUME NEW r \in Requests, EndOrphan(r) PROVE Replaced'
    BY <2>7 DEF EndOrphan, Replaced
  <2>8. CASE Tick
    <3>1. /\ Active(table, now)' = Active(table, now + 1) /\ Active(draft, now)' = Active(draft, now + 1)
      BY <2>8 DEF Tick, Active, ExpiresAt
    <3>2. /\ Active(table, now + 1) \subseteq Active(table, now)
          /\ Active(draft, now + 1) \subseteq Active(draft, now)
      BY ActiveShrinks DEF TypeOK
    <3> QED BY <2>8, <3>1, <3>2 DEF Tick, Replaced, GivesWay
  <2>9. CASE UNCHANGED vars
    BY <2>9 DEF vars, Replaced, GivesWay, Active, ExpiresAt
  <2> QED BY <2>1, <2>2, <2>3, <2>4, <2>5, <2>6, <2>7, <2>8, <2>9 DEF Next
<1> QED BY <1>1, <1>2, TypeCorrect, LockedInvariant, RecordedInvariant, PTL DEF Spec

\* An issue takes at most the place of the oldest, in the step it appears in.
THEOREM OldestGivesWay == Spec => OnlyOldestGivesWay
<1> DEFINE Fair(t) ==
      table[t] = "active" /\ table'[t] # "active"
          => \/ lock \in Revokers
             \/ /\ table[lock] = "none" /\ table'[lock] = "active"
                /\ \A u \in Active(table, now) \cap Active(table', now) : issuedAt[t] <= issuedAt[u]
<1>1. ASSUME TypeOK, Locked, Replaced, [Next]_vars, NEW t \in Issuers PROVE Fair(t)
  <2>1. CASE table' = table
    BY <2>1
  <2>2. CASE \E r \in Requests : lock = r /\ table' = draft
    BY <1>1, <2>2 DEF Replaced, GivesWay, Requests
  <2>3. ASSUME NEW r \in Requests, Commit(r) \/ EndOrphan(r)
        PROVE  table' = table \/ (lock = r /\ table' = draft)
    BY <1>1, <2>3 DEF Commit, EndOrphan, Locked, Holding
  <2>4. table' = table \/ \E r \in Requests : Commit(r) \/ EndOrphan(r)
    <3>1. ASSUME NEW r \in Issuers, BeginIssue(r) \/ Issue(r) PROVE table' = table
      BY <3>1, IssueCases DEF BeginIssue, Begin, Write, RollBack
    <3>2. ASSUME NEW r \in Revokers, BeginRevoke(r) \/ Revoke(r) PROVE table' = table
      BY <3>2 DEF BeginRevoke, Begin, Revoke, Write, RollBack
    <3> QED
      BY <1>1, <3>1, <3>2 DEF Next, Serve, AcquireSessionLock, Fail, Lose, RollBack, Tick, vars
  <2> HIDE DEF Fair
  <2> QED BY <2>1, <2>2, <2>3, <2>4
<1>2. TypeOK /\ Locked /\ Replaced /\ [Next]_vars => \A t \in Issuers : Fair(t)
  BY <1>1
<1> QED BY <1>2, TypeCorrect, LockedInvariant, ReplacedInvariant, PTL DEF Spec, OnlyOldestGivesWay
----------------------------------------------------------------------------
\* The rows that are neither missing nor revoked, expired ones included.
Rows == {t \in Issuers : table[t] = "active"}

\* The table with a new token, and without those it takes the place of.
Entering(i, gone) ==
    [t \in Issuers |-> IF t = i THEN "active" ELSE IF t \in gone THEN "revoked" ELSE table[t]]

\* What the end of a transaction that has written will do to the table.
Effective ==
    /\ \A i \in Issuers : pc[i] \in {"commit", "orphan"} =>
          /\ table[i] = "none"
          /\ \E gone \in SUBSET Rows : (\A t1, t2 \in gone : t1 = t2) /\ draft = Entering(i, gone)
    /\ \A v \in Revokers : pc[v] \in {"commit", "orphan"} =>
          scope[v] \cap Rows # {} /\ draft = Revoked(table, scope[v] \cap Rows)

\* Who has been told something, and who has said what it is about.
Told ==
    /\ \A r \in Requests :
          /\ pc[r] \notin {"orphan", "done"} => answer[r] = "pending"
          /\ pc[r] = "orphan" => answer[r] = "unavailable"
    /\ \A v \in Revokers : pc[v] = "new" => scope[v] = {}

\* Nobody is told anything before the end, unless its COMMIT got lost, and a
\* revocation has no scope before it begins.
LEMMA ToldInvariant == Spec => []Told
<1>1. Init => Told
  BY Policy DEF Init, Told, Requests
<1>2. ASSUME TypeOK, Told, [Next]_vars PROVE Told'
  <2> USE <1>2, Policy DEF TypeOK, Told, Requests, Holding, Goto
  <2>1. ASSUME NEW r \in Issuers, BeginIssue(r) PROVE Told'
    BY <2>1 DEF BeginIssue, Begin
  <2>2. ASSUME NEW r \in Issuers, Issue(r) PROVE Told'
    <3>1. pc[r] = "work" /\ ((\E rows : Write(r, rows)) \/ (\E a : RollBack(r, a)))
      BY <2>2, IssueCases
    <3> QED BY <3>1 DEF Write, RollBack
  <2>3. ASSUME NEW r \in Revokers, BeginRevoke(r) PROVE Told'
    BY <2>3 DEF BeginRevoke, Begin
  <2>4. ASSUME NEW r \in Revokers, Revoke(r) PROVE Told'
    BY <2>4 DEF Revoke, Write, RollBack
  <2>5. ASSUME NEW r \in Requests, Serve(r) PROVE Told'
    BY <2>5 DEF Serve, AcquireSessionLock, Commit
  <2>6. ASSUME NEW r \in Requests, Fail(r) \/ Lose(r) \/ EndOrphan(r) PROVE Told'
    BY <2>6 DEF Fail, RollBack, Lose, EndOrphan
  <2>7. CASE Tick \/ UNCHANGED vars
    BY <2>7 DEF Tick, vars
  <2> QED BY <2>1, <2>2, <2>3, <2>4, <2>5, <2>6, <2>7 DEF Next
<1> QED BY <1>1, <1>2, TypeCorrect, PTL DEF Spec

\* A transaction that has written holds the session's lock, so that the table is
\* still the one that its draft was made from.
LEMMA EffectiveInvariant == Spec => []Effective
<1>1. Init => Effective
  BY Policy DEF Init, Effective, Requests
<1>2. ASSUME TypeOK, Locked, Recorded, Effective, [Next]_vars PROVE Effective'
  <2> USE <1>2, Policy DEF Requests, Goto
  <2>t. /\ pc \in [Requests -> {"new", "lock", "done"} \cup Holding]
        /\ table \in [Issuers -> {"none", "active", "revoked"}]
        /\ scope \in [Revokers -> SUBSET Issuers]
    BY DEF TypeOK
  \* A step that leaves the table, and the calls that have written, alone.
  <2>1. ASSUME UNCHANGED <<table, draft>>,
               \A r \in Requests : pc'[r] \in {"commit", "orphan"} => pc[r] \in {"commit", "orphan"},
               \A v \in Revokers : pc[v] # "new" => scope'[v] = scope[v]
        PROVE  Effective'
    BY <2>1 DEF Effective, Rows, Entering, Revoked
  \* A step after which nobody has written.
  <2>2. ASSUME \A r \in Requests : pc'[r] \notin {"commit", "orphan"} PROVE Effective'
    BY <2>2 DEF Effective
  <2>3. ASSUME NEW r \in Requests, lock = r
        PROVE  \A d \in Requests \ {r} : pc[d] \notin {"work", "commit", "orphan"}
    BY <2>3 DEF Locked, Holding
  <2>4. ASSUME NEW r \in Issuers, BeginIssue(r) PROVE Effective'
    BY <2>t, <2>1, <2>4 DEF BeginIssue, Begin
  <2>5. ASSUME NEW r \in Requests, NEW a, RollBack(r, a) PROVE Effective'
    BY <2>t, <2>1, <2>5 DEF RollBack
  <2>6. ASSUME NEW r \in Issuers, Issue(r) PROVE Effective'
    <3>1. pc[r] = "work" /\ lock = r /\ table[r] = "none"
      BY <2>6, IssueCases DEF Locked, Recorded, Holding
    <3>2. ASSUME NEW gone \in SUBSET Rows, (\A t1, t2 \in gone : t1 = t2), Write(r, Entering(r, gone))
          PROVE  Effective'
      <4>1. /\ pc' = [pc EXCEPT ![r] = "commit"] /\ draft' = Entering(r, gone)
            /\ UNCHANGED <<table, scope>>
        BY <3>2 DEF Write
      <4>2. \A d \in Requests : pc'[d] \in {"commit", "orphan"} => d = r
        BY <2>t, <2>3, <3>1, <4>1
      <4>3. Entering(r, gone)' = Entering(r, gone) /\ Rows' = Rows
        BY <4>1 DEF Entering, Rows
      <4> QED BY <3>1, <3>2, <4>1, <4>2, <4>3 DEF Effective
    <3>3. CASE Write(r, [table EXCEPT ![r] = "active"])
      <4>1. [table EXCEPT ![r] = "active"] = Entering(r, {})
        BY <2>t DEF Entering
      <4>2. {} \in SUBSET Rows
        OBVIOUS
      <4>3. \A t1, t2 \in {} : t1 = t2
        OBVIOUS
      <4> QED BY <3>2, <3>3, <4>1, <4>2, <4>3
    <3>4. CASE \E t \in Oldest(Active(table, begun[r])) :
                  Write(r, [Revoked(table, {t}) EXCEPT ![r] = "active"])
      <4>1. PICK t \in Oldest(Active(table, begun[r])) :
                    Write(r, [Revoked(table, {t}) EXCEPT ![r] = "active"])
        BY <3>4
      <4>2. {t} \in SUBSET Rows
        BY DEF Oldest, Active, Rows
      <4>3. [Revoked(table, {t}) EXCEPT ![r] = "active"] = Entering(r, {t})
        BY DEF Entering, Revoked
      <4>4. \A t1, t2 \in {t} : t1 = t2
        OBVIOUS
      <4> QED BY <3>2, <4>1, <4>2, <4>3, <4>4
    <3> QED BY <2>5, <2>6, <3>3, <3>4, IssueCases
  <2>7. ASSUME NEW r \in Revokers, BeginRevoke(r) PROVE Effective'
    BY <2>t, <2>1, <2>7 DEF BeginRevoke, Begin
  <2>8. ASSUME NEW r \in Revokers, Revoke(r) PROVE Effective'
    <3>1. pc[r] = "work" /\ lock = r
      BY <2>8 DEF Revoke, Locked, Holding
    <3> DEFINE struck == scope[r] \cap Rows
    <3>2. struck = {t \in scope[r] : table[t] = "active"}
      BY <2>t DEF Rows
    <3>3. CASE struck # {} /\ Write(r, Revoked(table, struck))
      <4>1. /\ pc' = [pc EXCEPT ![r] = "commit"] /\ draft' = Revoked(table, struck)
            /\ UNCHANGED <<table, scope>>
        BY <3>3 DEF Write
      <4>2. \A d \in Requests : pc'[d] \in {"commit", "orphan"} => d = r
        BY <2>t, <2>3, <3>1, <4>1
      <4>3. Rows' = Rows /\ Revoked(table, struck)' = Revoked(table, struck)
        BY <4>1 DEF Rows, Revoked
      <4> QED BY <3>3, <4>1, <4>2, <4>3 DEF Effective
    <3> QED BY <2>5, <2>8, <3>2, <3>3 DEF Revoke
  <2>9. ASSUME NEW r \in Requests, AcquireSessionLock(r) PROVE Effective'
    BY <2>t, <2>1, <2>9 DEF AcquireSessionLock
  <2>10. ASSUME NEW r \in Requests, Commit(r) \/ EndOrphan(r) PROVE Effective'
    <3>1. lock = r /\ pc' = [pc EXCEPT ![r] = "done"]
      BY <2>10 DEF Commit, EndOrphan, Locked, Holding
    <3> QED BY <2>t, <2>2, <2>3, <3>1
  <2>11. ASSUME NEW r \in Requests, Fail(r) PROVE Effective'
    BY <2>5, <2>11 DEF Fail
  <2>12. ASSUME NEW r \in Requests, Lose(r) PROVE Effective'
    BY <2>t, <2>1, <2>12 DEF Lose
  <2>13. CASE Tick \/ UNCHANGED vars
    BY <2>1, <2>13 DEF Tick, vars
  <2> QED
    BY <2>4, <2>6, <2>7, <2>8, <2>9, <2>10, <2>11, <2>12, <2>13 DEF Next, Serve
<1> QED BY <1>1, <1>2, TypeCorrect, LockedInvariant, RecordedInvariant, PTL DEF Spec

\* Whatever the interleaving, the failures and the lost COMMITs, the callers of
\* the authority see a book of tokens that changes in single steps.
THEOREM Refinement == Spec => ImplementsBook
<1> DEFINE over == {r \in Requests : pc[r] = "done"}
<1>1. Init => Book!Init
  BY Policy DEF Init, Book!Init, Book!Calls, Requests
<1>2. ASSUME TypeOK, Locked, Effective, Told, [Next]_vars PROVE [Book!Next]_(Book!vars)
  <2> USE <1>2, Policy DEF Goto
  <2>1. /\ pc \in [Requests -> {"new", "lock", "done"} \cup Holding]
        /\ answer \in [Requests -> {"pending", "issued", "revoked", "not-found", "malformed", "unavailable"}]
    BY DEF TypeOK
  <2>2. Book!Calls = Requests /\ Book!Entered = Rows
    BY DEF Book!Calls, Requests, Book!Entered, Rows
  \* A call ends.
  <2>3. ASSUME NEW r \in Requests, pc' = [pc EXCEPT ![r] = "done"], pc[r] # "done"
        PROVE  over' = over \cup {r} /\ r \in Book!Calls \ over
    BY <2>1, <2>2, <2>3
  \* Nothing that the callers can see has happened.
  <2>4. ASSUME UNCHANGED <<table, scope, answer>>,
               \A r \in Requests : pc'[r] = "done" <=> pc[r] = "done"
        PROVE  UNCHANGED Book!vars
    BY <2>4 DEF Book!vars
  <2>5. ASSUME NEW r \in Requests, NEW a, RollBack(r, a), pc[r] \in {"new", "lock", "work"},
               \/ a = "unavailable"
               \/ r \in Issuers /\ a = "malformed"
               \/ r \in Revokers /\ scope[r] \cap Rows = {} /\ a = "not-found"
        PROVE  Book!Next
    <3>1. Book!Answer(r, a) /\ UNCHANGED <<table, scope>> /\ pc' = [pc EXCEPT ![r] = "done"]
      BY <2>5 DEF RollBack, Told, Book!Answer
    <3>2. over' = over \cup {r} /\ r \in Book!Calls \ over
      BY <2>3, <2>5, <3>1
    <3> HIDE DEF over
    <3>3. Book!EndWithoutEffect(r)
      BY <2>2, <2>5, <3>1, <3>2 DEF Book!EndWithoutEffect, over
    <3> QED BY <3>2, <3>3 DEF Book!Next, over
  \* A transaction that has written ends with its COMMIT.
  <2>6. ASSUME NEW r \in Requests, pc[r] \in {"commit", "orphan"}, table' = draft,
               pc' = [pc EXCEPT ![r] = "done"], UNCHANGED scope,
               Book!Answer(r, IF r \in Issuers THEN "issued" ELSE "revoked")
        PROVE  Book!Next
    <3>1. over' = over \cup {r} /\ r \in Book!Calls \ over
      BY <2>3, <2>6
    <3> HIDE DEF over
    <3>2. CASE r \in Issuers
      <4>1. PICK gone \in SUBSET Rows : (\A t1, t2 \in gone : t1 = t2) /\ draft = Entering(r, gone)
        BY <2>6, <3>2 DEF Effective
      <4>2. table[r] = "none"
        BY <2>6, <3>2 DEF Effective
      <4>3. table' = [t \in Issuers |-> IF t = r THEN "active" ELSE IF t \in gone THEN "revoked" ELSE table[t]]
        BY <2>6, <4>1 DEF Entering
      <4>4. Book!Enter(r)
        BY <2>2, <4>1, <4>2, <4>3 DEF Book!Enter
      <4> QED BY <2>6, <3>1, <3>2, <4>4 DEF Book!EndWithEffect, Book!Next, over
    <3>3. CASE r \in Revokers
      <4>1. r \notin Issuers
        BY <3>3
      <4>2. Book!Strike(r)
        BY <2>2, <2>6, <3>3 DEF Effective, Revoked, Book!Strike
      <4> QED BY <2>6, <3>1, <3>3, <4>1, <4>2 DEF Book!EndWithEffect, Book!Next, over
    <3> QED BY <3>2, <3>3 DEF Requests
  <2>7. ASSUME NEW r \in Issuers, BeginIssue(r) PROVE [Book!Next]_(Book!vars)
    <3>1. r \in Requests
      BY DEF Requests
    <3>2. CASE Begin(r) /\ UNCHANGED answer
      BY <2>1, <2>4, <2>7, <3>1, <3>2 DEF BeginIssue, Begin
    <3>3. CASE ~(Begin(r) /\ UNCHANGED answer)
      <4>1. /\ pc[r] = "new" /\ pc' = [pc EXCEPT ![r] = "done"]
            /\ answer' = [answer EXCEPT ![r] = "unavailable"]
            /\ UNCHANGED <<table, scope>>
        BY <2>7, <3>3 DEF BeginIssue
      <4>2. over' = over \cup {r} /\ r \in Book!Calls \ over
        BY <2>3, <3>1, <4>1
      <4> HIDE DEF over
      <4>3. Book!EndWithoutEffect(r)
        BY <3>1, <4>1, <4>2 DEF Told, Book!EndWithoutEffect, Book!Answer, over
      <4> QED BY <4>2, <4>3 DEF Book!Next, over
    <3> QED BY <3>2, <3>3
  <2>8. ASSUME NEW r \in Issuers, Issue(r) PROVE [Book!Next]_(Book!vars)
    <3>1. r \in Requests /\ pc[r] = "work"
      BY <2>8, IssueCases DEF Requests
    <3>2. ASSUME NEW rows, Write(r, rows) PROVE UNCHANGED Book!vars
      BY <2>1, <2>4, <3>1, <3>2 DEF Write
    <3> QED BY <2>5, <2>8, <3>1, <3>2, IssueCases
  <2>9. ASSUME NEW r \in Revokers, BeginRevoke(r) PROVE [Book!Next]_(Book!vars)
    <3>1. /\ r \in Requests /\ pc[r] = "new" /\ pc' = [pc EXCEPT ![r] = "lock"]
          /\ UNCHANGED <<table, answer>>
          /\ \E S \in SUBSET Issuers : scope' = [scope EXCEPT ![r] = S]
      BY <2>9 DEF BeginRevoke, Begin, Requests
    <3>2. over' = over /\ r \notin over
      BY <2>1, <3>1
    <3> HIDE DEF over
    <3>3. Book!Ask(r)
      BY <3>1, <3>2 DEF Told, Book!Ask, over
    <3> QED BY <3>2, <3>3 DEF Book!Next, over
  <2>10. ASSUME NEW r \in Revokers, Revoke(r) PROVE [Book!Next]_(Book!vars)
    <3>1. r \in Requests /\ pc[r] = "work" /\ {t \in scope[r] : table[t] = "active"} = scope[r] \cap Rows
      BY <2>10 DEF Revoke, Requests, Rows, TypeOK
    <3>2. ASSUME NEW rows, Write(r, rows) PROVE UNCHANGED Book!vars
      BY <2>1, <2>4, <3>1, <3>2 DEF Write
    <3> QED BY <2>5, <2>10, <3>1, <3>2 DEF Revoke
  <2>11. ASSUME NEW r \in Requests, Serve(r) PROVE [Book!Next]_(Book!vars)
    <3>1. CASE AcquireSessionLock(r)
      BY <2>1, <2>4, <3>1 DEF AcquireSessionLock
    <3>2. CASE Commit(r)
      <4>1. Book!Answer(r, IF r \in Issuers THEN "issued" ELSE "revoked")
        BY <3>2 DEF Commit, Told, Book!Answer
      <4> QED BY <2>6, <3>2, <4>1 DEF Commit
    <3> QED BY <2>11, <3>1, <3>2 DEF Serve
  <2>12. ASSUME NEW r \in Requests, Fail(r) PROVE [Book!Next]_(Book!vars)
    BY <2>5, <2>12 DEF Fail
  <2>13. ASSUME NEW r \in Requests, Lose(r) PROVE [Book!Next]_(Book!vars)
    <3>1. Book!GiveUpOn(r) /\ r \in Book!Calls \ over
      BY <2>1, <2>2, <2>13 DEF Lose, Told, Book!GiveUpOn
    <3> QED BY <3>1 DEF Book!Next
  <2>14. ASSUME NEW r \in Requests, EndOrphan(r) PROVE [Book!Next]_(Book!vars)
    <3>1. /\ pc[r] = "orphan" /\ pc' = [pc EXCEPT ![r] = "done"] /\ UNCHANGED <<scope, answer>>
          /\ answer[r] = "unavailable"
      BY <2>14 DEF EndOrphan, Told
    <3>2. CASE table' = draft
      BY <2>6, <3>1, <3>2 DEF Book!Answer
    <3>3. CASE table' = table
      <4>1. over' = over \cup {r} /\ r \in Book!Calls \ over
        BY <2>3, <3>1
      <4> HIDE DEF over
      <4>2. Book!EndWithoutEffect(r)
        BY <3>1, <3>3, <4>1 DEF Book!EndWithoutEffect, Book!Answer, over
      <4> QED BY <4>1, <4>2 DEF Book!Next, over
    <3> QED BY <2>14, <3>2, <3>3 DEF EndOrphan
  <2>15. CASE Tick \/ UNCHANGED vars
    BY <2>4, <2>15 DEF Tick, vars
  <2> QED
    BY <2>7, <2>8, <2>9, <2>10, <2>11, <2>12, <2>13, <2>14, <2>15 DEF Next
<1> QED
  BY <1>1, <1>2, TypeCorrect, LockedInvariant, EffectiveInvariant, ToldInvariant, PTL
  DEF Spec, ImplementsBook, Book!Spec
=============================================================================
