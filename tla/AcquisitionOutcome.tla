------------------------ MODULE AcquisitionOutcome ------------------------
(***************************************************************************)
(* What the acquisition worker promises for one acquisition id, without    *)
(* leases, heartbeats, generations or retries: the id is claimed once, at  *)
(* most one artifact is handed off, one outcome is decided, the outcome    *)
(* tells the truth about the artifact, and every result a call returns is  *)
(* the decided one.                                                        *)
(***************************************************************************)
CONSTANTS Calls, StoredResults, ThrownAnswers

VARIABLES claimed, artifacts, outcome, answer

vars == <<claimed, artifacts, outcome, answer>>

Init ==
    /\ claimed = FALSE
    /\ artifacts = {}
    /\ outcome = "none"
    /\ answer = [c \in Calls |-> "pending"]

Claim ==
    /\ ~claimed
    /\ claimed' = TRUE
    /\ UNCHANGED <<artifacts, outcome, answer>>

\* The artifact may still arrive when the outcome was already given up for
\* reconciliation, never when it was decided to be a failure.
HandOff(c) ==
    /\ claimed /\ artifacts = {}
    /\ outcome \in {"none", "acquisition-reconciliation-required"}
    /\ artifacts' = {c}
    /\ UNCHANGED <<claimed, outcome, answer>>

Decide(r) ==
    /\ claimed /\ outcome = "none"
    /\ r = "succeeded" => artifacts # {}
    /\ r \in {"failed", "cancelled"} => artifacts = {}
    /\ outcome' = r
    /\ UNCHANGED <<claimed, artifacts>>

\* A call returns the decided result, deciding it if need be, or throws.
Answer(c, a) ==
    /\ answer[c] = "pending"
    /\ answer' = [answer EXCEPT ![c] = a]
    /\ \/ a \in ThrownAnswers \cup {outcome}
          /\ UNCHANGED <<claimed, artifacts, outcome>>
       \/ a \in StoredResults /\ Decide(a)

Next ==
    \/ Claim
    \/ \E c \in Calls : HandOff(c)
    \/ \E r \in StoredResults : Decide(r) /\ UNCHANGED answer
    \/ \E c \in Calls, a \in StoredResults \cup ThrownAnswers : Answer(c, a)

Spec == Init /\ [][Next]_vars
============================================================================
