------------------------ MODULE MediaAdmissionProofs ------------------------
(***************************************************************************)
(* What holds of MediaAdmission for any number of finalize requests.       *)
(***************************************************************************)
EXTENDS MediaAdmission, TLAPS

\* Who is about to say "accepted" without a transaction of its own has read both
\* committed rows.
AcceptsTheAdmitted == \A r \in Requests : pc[r] = "accept" => admitted

\* The inductive invariant.
IInv == TypeOK /\ AcceptsTheAdmitted /\ AcceptedIsAdmitted

\* The initial states satisfy the invariant: nobody has been answered.
LEMMA InitIInv == Init => IInv
  BY DEF Init, IInv, TypeOK, AcceptsTheAdmitted, AcceptedIsAdmitted, Statement, Ended

\* Every step keeps the type of the state.
LEMMA TypeStep == TypeOK /\ [Next]_vars => TypeOK'
<1> SUFFICES ASSUME TypeOK, [Next]_vars PROVE TypeOK'
  OBVIOUS
<1> USE DEF TypeOK, Statement, Ended, Goto, Reply
<1>1. CASE UNCHANGED vars
  BY <1>1 DEF vars
<1>2. CASE Upload
  BY <1>2 DEF Upload
<1>3. ASSUME NEW r \in Requests, Finalize(r) PROVE TypeOK'
  <2>1. CASE Check(r)
    BY <2>1 DEF Check
  <2>2. CASE ResolveJob(r)
    BY <2>2 DEF ResolveJob
  <2>3. CASE ResolveMedia(r)
    BY <2>3 DEF ResolveMedia
  <2>4. CASE Accept(r)
    BY <2>4 DEF Accept
  <2>5. CASE InsertJob(r)
    BY <2>5 DEF InsertJob
  <2>6. CASE InsertMedia(r)
    BY <2>6 DEF InsertMedia
  <2>7. CASE Commit(r)
    BY <2>7 DEF Commit
  <2>8. CASE Undo(r)
    BY <2>8 DEF Undo
  <2> QED BY <1>3, <2>1, <2>2, <2>3, <2>4, <2>5, <2>6, <2>7, <2>8 DEF Finalize
<1>4. ASSUME NEW r \in Requests, StatementFails(r) PROVE TypeOK'
  BY <1>4 DEF StatementFails
<1>5. ASSUME NEW r \in Requests, Crash(r) PROVE TypeOK'
  BY <1>5 DEF Crash
<1> QED BY <1>1, <1>2, <1>3, <1>4, <1>5 DEF Next

\* An admitted upload stays admitted: nothing deletes the rows.
LEMMA AdmittedStays == TypeOK /\ [Next]_vars /\ admitted => admitted'
<1> SUFFICES ASSUME TypeOK, [Next]_vars, admitted PROVE admitted'
  OBVIOUS
<1> USE DEF TypeOK
<1>1. ASSUME NEW r \in Requests, Finalize(r) PROVE admitted'
  BY <1>1 DEF Finalize, Check, ResolveJob, ResolveMedia, Accept, InsertJob, InsertMedia,
              Commit, Undo
<1> QED BY <1>1 DEF Next, vars, Upload, StatementFails, Crash

\* A request comes to "accept" only by reading both rows, and is told "accepted"
\* only from there or by the acknowledgement of its COMMIT.
LEMMA AcceptedStep == IInv /\ [Next]_vars => AcceptsTheAdmitted' /\ AcceptedIsAdmitted'
<1> SUFFICES ASSUME IInv, [Next]_vars PROVE AcceptsTheAdmitted' /\ AcceptedIsAdmitted'
  OBVIOUS
<1>0. admitted => admitted'
  BY AdmittedStays DEF IInv
<1> USE DEF IInv, TypeOK, AcceptsTheAdmitted, AcceptedIsAdmitted, Goto, Reply
<1>1. CASE UNCHANGED vars
  BY <1>1 DEF vars
<1>2. CASE Upload
  BY <1>2 DEF Upload
<1>3. ASSUME NEW r \in Requests, Finalize(r)
      PROVE  AcceptsTheAdmitted' /\ AcceptedIsAdmitted'
  <2>1. CASE Check(r)
    BY <2>1 DEF Check
  <2>2. CASE ResolveJob(r)
    BY <2>2 DEF ResolveJob
  <2>3. CASE ResolveMedia(r)
    BY <2>3 DEF ResolveMedia
  <2>4. CASE Accept(r)
    BY <2>4 DEF Accept
  <2>5. CASE InsertJob(r)
    BY <2>5 DEF InsertJob
  <2>6. CASE InsertMedia(r)
    BY <2>6 DEF InsertMedia
  <2>7. CASE Commit(r)
    BY <1>0, <2>7 DEF Commit
  <2>8. CASE Undo(r)
    BY <2>8 DEF Undo
  <2> QED BY <1>3, <2>1, <2>2, <2>3, <2>4, <2>5, <2>6, <2>7, <2>8 DEF Finalize
<1>4. ASSUME NEW r \in Requests, StatementFails(r)
      PROVE  AcceptsTheAdmitted' /\ AcceptedIsAdmitted'
  BY <1>4 DEF StatementFails
<1>5. ASSUME NEW r \in Requests, Crash(r)
      PROVE  AcceptsTheAdmitted' /\ AcceptedIsAdmitted'
  BY <1>0, <1>5 DEF Crash
<1> QED BY <1>1, <1>2, <1>3, <1>4, <1>5 DEF Next

\* The invariant is inductive.
LEMMA StepIInv == IInv /\ [Next]_vars => IInv'
  BY TypeStep, AcceptedStep DEF IInv

\* The invariant holds in every behaviour.
THEOREM Invariance == Spec => []IInv
  BY InitIInv, StepIInv, PTL DEF Spec

\* The state has its type.
THEOREM TypeCorrect == Spec => []TypeOK
<1>1. IInv => TypeOK
  BY DEF IInv
<1> QED BY <1>1, Invariance, PTL

\* Whoever is told that the upload is admitted finds its rows, now and later,
\* however many finalize requests overlap, fail and die.
THEOREM AcceptedIsAdmittedHolds == Spec => []AcceptedIsAdmitted
<1>1. IInv => AcceptedIsAdmitted
  BY DEF IInv
<1> QED BY <1>1, Invariance, PTL
=============================================================================
