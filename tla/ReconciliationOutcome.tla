----------------------- MODULE ReconciliationOutcome -----------------------
(***************************************************************************)
(* What reconciliation owes the workflow that waits for one request,       *)
(* without leases that expire, tables, transactions or retries: the claim  *)
(* is handed out under ever larger tokens, only its holder decides the     *)
(* request, one that is decided or closed is never opened again, its one   *)
(* event is published in the step that decides it, and a worker that is    *)
(* told of its result is told the result of the request.                   *)
(***************************************************************************)
EXTENDS Naturals

CONSTANTS Workers, Ids, Results, None

VARIABLES
    status,     \* "open", "decided", or "closed" without a result
    result,     \* what was decided, if only that a person must look, or None
    holder,     \* who has the claim, or None
    token,      \* of the claim handed out last
    events,     \* ids of the published events
    told        \* the result each worker was told it had committed, or None

vars == <<status, result, holder, token, events, told>>

Init ==
    /\ status = "open" /\ result = None
    /\ holder = None /\ token = 0
    /\ events = {}
    /\ told = [w \in Workers |-> None]

\* Whether the holder has lost its claim by then is not decided here.
Grant(w) ==
    /\ status = "open"
    /\ holder' = w /\ token' = token + 1
    /\ UNCHANGED <<status, result, events>>

GiveUp ==
    /\ status = "open" /\ holder # None
    /\ holder' = None
    /\ UNCHANGED <<status, result, token, events>>

Decide(w, e, r) ==
    /\ status = "open" /\ holder = w
    /\ status' = "decided" /\ result' = r
    /\ events' = {e}
    /\ holder' = None
    /\ UNCHANGED token

Close ==
    /\ status = "open"
    /\ status' = "closed"
    /\ holder' = None
    /\ UNCHANGED <<result, token, events>>

Change ==
    \/ Close \/ GiveUp
    \/ \E w \in Workers : Grant(w) \/ \E e \in Ids, r \in Results : Decide(w, e, r)

\* A worker forgets what it was told when it starts anew.
Tell(w, r) ==
    /\ r = None \/ (status' = "decided" /\ result' = r)
    /\ told' = [told EXCEPT ![w] = r]

Next ==
    /\ Change \/ UNCHANGED <<status, result, holder, token, events>>
    /\ UNCHANGED told \/ \E w \in Workers, r \in Results \cup {None} : Tell(w, r)

Spec == Init /\ [][Next]_vars
============================================================================
