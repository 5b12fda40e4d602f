--------------------------- MODULE CsrfTokenBook ---------------------------
(***************************************************************************)
(* What the CSRF token authority looks like to the callers of one session: *)
(* a book of tokens that changes in single steps, without instances,       *)
(* transactions and locks.  Every call ends once, and at that step it      *)
(* takes effect or never does.  Its answer is given with the end and true  *)
(* of the book there, or it is "unavailable", which may come earlier.      *)
(***************************************************************************)
CONSTANTS Issuers, Revokers

VARIABLES
    book,       \* each token: "none", "active" or "revoked"
    scope,      \* the tokens a revocation is about
    over,       \* calls that have ended
    answer      \* what each call answers

vars == <<book, scope, over, answer>>

Calls == Issuers \cup Revokers

Init ==
    /\ book = [t \in Issuers |-> "none"]
    /\ scope = [r \in Revokers |-> {}]
    /\ over = {}
    /\ answer = [r \in Calls |-> "pending"]

Entered == {t \in Issuers : book[t] = "active"}

\* A new token, and the one it takes the place of, if any.
Enter(t) ==
    /\ book[t] = "none"
    /\ \E gone \in SUBSET Entered :
          /\ \A t1, t2 \in gone : t1 = t2
          /\ book' = [u \in Issuers |-> IF u = t THEN "active"
                                        ELSE IF u \in gone THEN "revoked" ELSE book[u]]

\* All of the scope, whether expired or not.
Strike(r) ==
    /\ scope[r] \cap Entered # {}
    /\ book' = [u \in Issuers |-> IF u \in scope[r] \cap Entered THEN "revoked" ELSE book[u]]

\* A call that was already told "unavailable" is not told anything else.
Answer(r, a) ==
    \/ answer[r] = "pending" /\ answer' = [answer EXCEPT ![r] = a]
    \/ answer[r] = "unavailable" /\ UNCHANGED answer

EndWithEffect(r) ==
    /\ over' = over \cup {r}
    /\ \/ r \in Issuers  /\ Enter(r)  /\ Answer(r, "issued")
       \/ r \in Revokers /\ Strike(r) /\ Answer(r, "revoked")
    /\ UNCHANGED scope

EndWithoutEffect(r) ==
    /\ over' = over \cup {r}
    /\ \/ Answer(r, "unavailable")
       \/ r \in Issuers /\ Answer(r, "malformed")
       \/ r \in Revokers /\ scope[r] \cap Entered = {} /\ Answer(r, "not-found")
    /\ UNCHANGED <<book, scope>>

GiveUpOn(r) ==
    /\ answer[r] = "pending"
    /\ answer' = [answer EXCEPT ![r] = "unavailable"]
    /\ UNCHANGED <<book, scope, over>>

Ask(r) ==
    /\ scope[r] = {}
    /\ \E S \in SUBSET Issuers : scope' = [scope EXCEPT ![r] = S]
    /\ UNCHANGED <<book, over, answer>>

Next ==
    \/ \E r \in Calls \ over : EndWithEffect(r) \/ EndWithoutEffect(r) \/ GiveUpOn(r)
    \/ \E r \in Revokers \ over : Ask(r)

Spec == Init /\ [][Next]_vars
============================================================================
