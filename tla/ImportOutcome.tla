--------------------------- MODULE ImportOutcome ---------------------------
(***************************************************************************)
(* What the import command owes the callers of one idempotency key,        *)
(* without processes, transactions or compensation: the key is bound to    *)
(* one source, one object at most is kept for it, publishing the media and *)
(* deciding that the import succeeded are one step, a key that is decided  *)
(* stays so, and no answer says more than what is decided.                 *)
(***************************************************************************)
CONSTANTS Requests, Sources, Decisive, Failures

VARIABLES
    asked,      \* the source each request asks for
    bound,      \* the source the key is bound to, or "none"
    stored,     \* requests whose object is kept
    published,  \* requests whose media row is visible
    outcome,    \* what was decided about the key, or "none"
    answer      \* what each caller was told

vars == <<asked, bound, stored, published, outcome, answer>>

Init ==
    /\ asked \in [Requests -> Sources]
    /\ bound = "none"
    /\ stored = {} /\ published = {}
    /\ outcome = "none"
    /\ answer = [r \in Requests |-> "pending"]

Open == bound # "none" /\ outcome = "none"

Bind(r) ==
    /\ bound = "none"
    /\ bound' = asked[r]
    /\ UNCHANGED <<stored, published, outcome>>

Store(r) ==
    /\ Open /\ bound = asked[r] /\ stored = {}
    /\ stored' = {r}
    /\ UNCHANGED <<bound, published, outcome>>

Discard ==
    /\ Open
    /\ stored' = {}
    /\ UNCHANGED <<bound, published, outcome>>

Publish(r) ==
    /\ Open /\ stored = {r}
    /\ published' = {r}
    /\ outcome' = "succeeded"
    /\ UNCHANGED <<bound, stored>>

\* A definite failure has nothing to leave behind; only an import whose effect
\* is unknown may be given up with its object in the bucket.
GiveUp(f) ==
    /\ Open
    /\ f \in Decisive => stored = {}
    /\ outcome' = f
    /\ UNCHANGED <<bound, stored, published>>

Change ==
    \/ Discard
    \/ \E r \in Requests : Bind(r) \/ Store(r) \/ Publish(r)
    \/ \E f \in Failures : GiveUp(f)

\* The answer speaks of the key as the step leaves it.
Tell(r, a) ==
    /\ answer[r] = "pending"
    /\ answer' = [answer EXCEPT ![r] = a]
    /\ a \in Decisive => outcome' = a /\ bound' = asked[r]
    /\ a = "in_progress" => outcome' = "none" /\ bound' = asked[r]
    /\ a = "conflict" => bound' \notin {"none", asked[r]}
    /\ a = "reconciliation_required" => bound' = asked[r]

Next ==
    /\ UNCHANGED asked
    /\ \/ Change /\ UNCHANGED answer
       \/ /\ Change \/ UNCHANGED <<bound, stored, published, outcome>>
          /\ \E r \in Requests,
                a \in Decisive \cup {"in_progress", "conflict", "reconciliation_required",
                                     "internal_failure"} : Tell(r, a)

Spec == Init /\ [][Next]_vars
============================================================================
