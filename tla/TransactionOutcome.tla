------------------------- MODULE TransactionOutcome -------------------------
(***************************************************************************)
(* What a database transaction owes its caller: the database decides its   *)
(* fate once, the caller is told once, and what it is told is true and     *)
(* stays true, also when the fate is decided after the answer.             *)
(***************************************************************************)
CONSTANT Runs

VARIABLES
    fate,   \* what became of the transaction in the database
    told    \* what its caller was told

vars == <<fate, told>>

Init ==
    /\ fate = [r \in Runs |-> "undecided"]
    /\ told = [r \in Runs |-> "nothing"]

\* A transaction whose caller was told that it is not committed never commits.
Decide(r, f) ==
    /\ fate[r] = "undecided"
    /\ f = "committed" => told[r] # "not committed"
    /\ fate' = [fate EXCEPT ![r] = f]
    /\ UNCHANGED told

Tell(r, t) ==
    /\ told[r] = "nothing"
    /\ t = "committed" => fate[r] = "committed"
    /\ t = "not committed" => fate[r] # "committed"
    /\ told' = [told EXCEPT ![r] = t]
    /\ UNCHANGED fate

Next == \E r \in Runs :
    \/ \E f \in {"committed", "rolled-back"} : Decide(r, f)
    \/ \E t \in {"committed", "not committed", "unknown"} : Tell(r, t)

Spec == Init /\ [][Next]_vars
=============================================================================
