------------------------- MODULE WorkflowController -------------------------
(***************************************************************************)
(* The workflow controller of a browser tab: the commands of               *)
(* referenceWorkflowController.ts with the reducer they dispatch to, the   *)
(* session store that survives a reload, the holder that disposes one      *)
(* instance when its component goes away and makes another, and the        *)
(* answers of the workflow API, which come in any order or not at all.     *)
(*                                                                         *)
(* JavaScript runs one continuation at a time: an action is the code from  *)
(* a command or an answer up to its next await.                            *)
(***************************************************************************)
EXTENDS Naturals, FiniteSets

CONSTANTS
    Workflows,
    NoWorkflow,
    Reasons,          \* why polling may be paused: "offline", "hidden"
    MaxAttempts,      \* pollPolicy.maxAttempts
    MaxLoads,         \* bound: page loads and remounts after the first
    MaxCalls,         \* bound: calls in flight at once
    CancelsOutlived   \* whether reset and unmount may overtake a cancel in flight

ASSUME NoWorkflowAssumption == NoWorkflow \notin Workflows
ASSUME BoundsAssumption == MaxAttempts \in Nat /\ MaxLoads \in Nat /\ MaxCalls \in Nat
ASSUME CancelsOutlivedAssumption == CancelsOutlived \in BOOLEAN

VARIABLES
    ui,         \* the controller's state; "pending" is pending-upload and pending-generation
    current,    \* state.generation is the controller's generation
    calls,      \* calls to the API whose answer has not been handled
    intent,     \* pendingIntent is "reconcile"
    drain,      \* drainReconcileIntent is in the microtask queue
    away,       \* the reasons for which polling is paused
    key,        \* the workflow that keys.start stands for
    session,    \* what the session store holds
    server,     \* the API's status of each workflow
    abandoned,  \* history: workflows the user reset or replaced by another
    polls,      \* history: polls sent since a start last showed a workflow
    loads       \* history: page loads and remounts

vars == <<ui, current, calls, intent, drain, away, key, session, server, abandoned, polls, loads>>
history == <<abandoned, polls, loads>>

Ids == Workflows \cup {NoWorkflow}
Terminal == {"completed", "cancelled"}

\* "completed" stands for completed, degraded, partial and failed with a result
\* reference, "failed" for a failure that has none.
UiKinds == {"idle", "starting", "pending", "cancelling", "recovering", "failed"} \cup Terminal

View(kinds) == [kind : kinds, wf : Ids, attempts : Nat]
Shown(kind, w, n) == [kind |-> kind, wf |-> w, attempts |-> n]
Idle == Shown("idle", NoWorkflow, 0)
Empty == Shown("empty", NoWorkflow, 0)

\* "replay" queries a terminal result again, "recover" a pending session,
\* "recover-result" the session of a result.
Commands == {"start", "poll", "query", "replay", "cancel", "recover", "recover-result"}
Preemptible == {"poll", "query", "replay"}
Answers == {"pending", "error"} \cup Terminal

\* fresh: its token is the controller's generation, which is to say that it is
\* the active command's.  live: its instance has not been disposed.  attempts:
\* those of the pending state that a cancel would restore.
Calls == [cmd : Commands, wf : Ids, attempts : Nat, fresh : BOOLEAN, live : BOOLEAN,
          answer : Answers \cup {"none"}]

TypeOK ==
    /\ ui \in View(UiKinds)
    /\ current \in BOOLEAN
    /\ calls \subseteq Calls
    /\ intent \in BOOLEAN
    /\ drain \in BOOLEAN
    /\ away \subseteq Reasons
    /\ key \in Ids
    /\ session \in View({"empty", "pending", "result", "expired"})
    /\ server \in [Workflows -> {"unknown", "issued", "pending"} \cup Terminal]
    /\ abandoned \subseteq Workflows
    /\ polls \in Nat
    /\ loads \in Nat

Init ==
    /\ ui = Idle
    /\ current = FALSE
    /\ calls = {}
    /\ intent = FALSE
    /\ drain = FALSE
    /\ away = {}
    /\ key = NoWorkflow
    /\ session = Empty
    /\ server = [w \in Workflows |-> "unknown"]
    /\ abandoned = {}
    /\ polls = 0
    /\ loads = 0

\* The microtask that an ended command leaves behind runs before the browser
\* takes up the next command, event or answer.
Task == ~drain

Active == {c \in calls : c.fresh}
Pending == ui.kind = "pending"
CancelInFlight == \E c \in calls : c.cmd = "cancel"

\* nextToken: no call in flight has the controller's generation any more.
Outdated == {[c EXCEPT !.fresh = FALSE] : c \in calls}

Send(command, w, n) ==
    /\ Cardinality(calls) < MaxCalls
    /\ calls' = Outdated \cup {[cmd |-> command, wf |-> w, attempts |-> n, fresh |-> TRUE,
                                live |-> TRUE, answer |-> "none"]}

(* Commands *)

\* A key that the key factory makes names a workflow nobody knows; which one
\* makes no difference.
NewKey == CHOOSE w \in Workflows : server[w] = "unknown"

\* keys.start is kept until reset: a start after an aborted one names the same workflow.
Start ==
    /\ Task /\ Active = {} /\ ui.kind = "idle"
    /\ \/ /\ key # NoWorkflow
          /\ UNCHANGED <<key, server>>
       \/ /\ key = NoWorkflow
          /\ \E w \in Workflows : server[w] = "unknown"
          /\ key' = NewKey
          /\ server' = [server EXCEPT ![NewKey] = "issued"]
    /\ Send("start", key', 0)
    /\ ui' = Shown("starting", key', 0)
    /\ current' = TRUE
    /\ UNCHANGED <<intent, drain, away, session, history>>

\* The limits on elapsed time and on consecutive failures make polls rarer
\* still; a poll is never obliged to happen.
PollBudgetAvailable == ui.attempts < MaxAttempts

Poll ==
    /\ Task /\ Active = {} /\ Pending /\ away = {} /\ PollBudgetAvailable
    /\ Send("poll", ui.wf, 0)
    /\ ui' = [ui EXCEPT !.attempts = @ + 1]
    /\ current' = TRUE
    /\ polls' = polls + 1
    /\ UNCHANGED <<intent, drain, away, key, session, server, abandoned, loads>>

QueryPending ==
    /\ Active = {} /\ Pending
    /\ Send("query", ui.wf, 0)
    /\ current' = TRUE
    /\ UNCHANGED ui

QueryResult ==
    /\ Task /\ QueryPending
    /\ UNCHANGED <<intent, drain, away, key, session, server, history>>

\* queryResult of a terminal state only compares; it may find the reference expired.
Replay ==
    /\ Task /\ Active = {} /\ ui.kind \in Terminal
    /\ Send("replay", ui.wf, 0)
    /\ current' = FALSE
    /\ UNCHANGED <<ui, intent, drain, away, key, session, server, history>>

Cancel ==
    /\ Task /\ Pending
    /\ \A c \in Active : c.cmd \in Preemptible \cup {"recover"}
    /\ Send("cancel", ui.wf, ui.attempts)
    /\ ui' = Shown("cancelling", ui.wf, 0)
    /\ current' = TRUE
    /\ intent' = FALSE
    /\ UNCHANGED <<drain, away, key, session, server, history>>

\* Mutant: the session forgets the poll attempts.
PersistedWithoutAttempts(state) ==
    CASE state.kind = "pending"    -> [state EXCEPT !.attempts = 0]
      [] state.kind \in Terminal   -> Shown("result", state.wf, 0)
      [] state.kind = "failed"     -> Empty
      [] OTHER                     -> session

\* What persistPending and persistTerminal leave in the store.
Persisted(state) ==
    CASE state.kind = "pending"    -> state
      [] state.kind \in Terminal   -> Shown("result", state.wf, 0)
      [] state.kind = "failed"     -> Empty
      [] OTHER                     -> session

PausePolling(reason) ==
    /\ Task /\ Pending
    /\ away' = away \cup {reason}
    /\ session' = Persisted(ui)
    /\ UNCHANGED <<ui, current, calls, intent, drain, key, server, history>>

ResumePolling(reason) ==
    /\ Task /\ away' = away \ {reason}
    /\ IF Pending /\ away' = {}
       THEN \/ /\ Active # {}
               /\ intent' = TRUE
               /\ UNCHANGED <<ui, current, calls>>
            \/ /\ intent' = FALSE
               /\ QueryPending
       ELSE UNCHANGED <<ui, current, calls, intent>>
    /\ UNCHANGED <<drain, key, session, server, history>>

Recover ==
    /\ Task /\ Active = {}
    /\ \/ /\ session.kind = "pending"
          /\ Send("recover", session.wf, 0)
          /\ ui' = session
       \/ /\ session.kind = "result"
          /\ Send("recover-result", session.wf, 0)
          /\ ui' = Shown("recovering", session.wf, 0)
    /\ current' = TRUE
    /\ UNCHANGED <<intent, drain, away, key, session, server, history>>

\* What a fresh instance of the controller starts from.
Cleared ==
    /\ ui' = Idle
    /\ current' = FALSE
    /\ intent' = FALSE
    /\ away' = {}
    /\ key' = NoWorkflow

MayLeave == CancelsOutlived \/ ~CancelInFlight

Reset ==
    /\ Task /\ MayLeave
    /\ Cleared
    /\ calls' = Outdated
    /\ session' = Empty
    /\ abandoned' = abandoned \cup ({ui.wf, session.wf, key} \ {NoWorkflow})
    /\ UNCHANGED <<drain, server, polls, loads>>

\* The component goes away, its holder disposes the controller, and the next
\* component's holder makes another one.  A disposed controller drops every
\* answer but that of a cancel, which still writes to the session store.
Remount ==
    /\ Task /\ MayLeave /\ loads < MaxLoads
    /\ Cleared
    /\ calls' = {[c EXCEPT !.live = FALSE] : c \in {c \in Outdated : c.cmd = "cancel"}}
    /\ drain' = FALSE
    /\ loads' = loads + 1
    /\ UNCHANGED <<session, server, abandoned, polls>>

\* The page is loaded again: nothing of it is left but the session store.
Reload ==
    /\ Task /\ loads < MaxLoads
    /\ Cleared
    /\ calls' = {}
    /\ drain' = FALSE
    /\ loads' = loads + 1
    /\ UNCHANGED <<session, server, abandoned, polls>>

\* The session's expiresAt passes: load answers "expired" from now on.
Expire ==
    /\ session.kind \in {"pending", "result"}
    /\ session' = [session EXCEPT !.kind = "expired"]
    /\ UNCHANGED <<ui, current, calls, intent, drain, away, key, server, history>>

(* Answers *)

\* The reducer ignores an answer for a state that has another generation.
Accepts == current \/ ui.kind = "idle"

\* Mutant: an aborted start is not taken back.
AfterAnswerStartKept(c, answer) ==
    CASE ~Accepts             -> ui
      [] answer = "pending"   -> Shown("pending", c.wf, IF Pending THEN ui.attempts ELSE 0)
      [] answer \in Terminal  -> Shown(answer, c.wf, 0)
      [] answer = "error"     -> Shown("failed", NoWorkflow, 0)
      [] OTHER                -> ui

\* COMMAND_SUCCEEDED, COMMAND_FAILED and REQUEST_ABORTED in the reducer.
AfterAnswer(c, answer) ==
    CASE ~Accepts             -> ui
      [] answer = "pending"   -> Shown("pending", c.wf, IF Pending THEN ui.attempts ELSE 0)
      [] answer \in Terminal  -> Shown(answer, c.wf, 0)
      [] answer = "error"     -> Shown("failed", NoWorkflow, 0)
      [] OTHER                -> IF ui.kind = "starting" THEN Idle ELSE ui

\* Mutant: settle without the comparison of generations.
SettleAnyToken(c, answer) ==
    /\ ui' = AfterAnswer(c, answer)
    /\ session' = Persisted(ui')
    /\ UNCHANGED abandoned

\* Mutant: a terminal state is not persisted.
SettlePendingOnly(c, answer) ==
    IF c.fresh
    THEN /\ ui' = AfterAnswer(c, answer)
         /\ session' = IF ui'.kind \in Terminal THEN session ELSE Persisted(ui')
         /\ UNCHANGED abandoned
    ELSE UNCHANGED <<ui, session, abandoned>>

Settle(c, answer) ==
    IF c.fresh
    THEN /\ ui' = AfterAnswer(c, answer)
         /\ session' = Persisted(ui')
         /\ abandoned' = IF session'.wf \in {NoWorkflow, session.wf} THEN abandoned
                         ELSE abandoned \cup ({session.wf} \ {NoWorkflow})
    ELSE UNCHANGED <<ui, session, abandoned>>

Answered(c, answer) ==
    /\ c.cmd \in {"start", "poll", "query", "recover"}
    /\ Settle(c, answer)
    /\ polls' = IF c.cmd = "start" /\ c.fresh THEN 0 ELSE polls
    /\ UNCHANGED <<current, intent>>

\* A terminal state is compared with the answer and stays as it is.
ReplayAnswered(c, answer) ==
    /\ c.cmd = "replay"
    /\ UNCHANGED <<ui, current, intent, session, abandoned, polls>>

\* An error of the API may say that the reference has expired or is unavailable.
ResultRecovered(c, answer) ==
    /\ c.cmd = "recover-result"
    /\ CASE ~c.fresh -> UNCHANGED <<ui, session>>
         [] c.fresh /\ answer \in Terminal ->
              /\ ui' = AfterAnswer(c, answer)
              /\ session' = IF ui'.kind \in Terminal THEN Persisted(ui') ELSE Empty
         [] OTHER ->
              /\ ui' = IF Accepts THEN Idle ELSE ui
              /\ session' \in {session} \cup (IF answer = "error" THEN {Empty} ELSE {})
    /\ UNCHANGED <<current, intent, abandoned, polls>>

\* Mutant: a cancel without an answer counts as done.
CancelAssumed(c, answer) ==
    /\ c.cmd = "cancel"
    /\ ui' = IF c.fresh THEN AfterAnswer(c, "cancelled") ELSE ui
    /\ session' = Empty
    /\ UNCHANGED <<current, intent, abandoned, polls>>

CancelAnswered(c, answer) ==
    /\ c.cmd = "cancel"
    /\ IF answer = "cancelled"
       THEN /\ ui' = IF c.fresh THEN AfterAnswer(c, answer) ELSE ui
            /\ session' = Empty
            /\ UNCHANGED <<current, intent>>
       ELSE LET previous == Shown("pending", c.wf, c.attempts) IN
            /\ session' = previous
            /\ IF c.live
               THEN /\ ui' = previous
                    /\ current' = c.fresh
                    /\ intent' = TRUE
               ELSE UNCHANGED <<ui, current, intent>>
    /\ UNCHANGED <<abandoned, polls>>

\* Mutant: the intent is drained while the command still counts as active.
HandleDrainedEarly(c) ==
    /\ Task
    /\ \E answer \in {"lost", c.answer} \ {"none"} :
          \/ Answered(c, answer)
          \/ ReplayAnswered(c, answer)
          \/ ResultRecovered(c, answer)
          \/ CancelAnswered(c, answer)
    /\ calls' = calls \ {c}
    /\ UNCHANGED <<drain, away, key, server, loads>>

\* A call ends with the API's answer, or without one: the request or the
\* response is lost, the fetch is aborted, or its time is up.
Handle(c) ==
    /\ Task
    /\ \E answer \in {"lost", c.answer} \ {"none"} :
          \/ Answered(c, answer)
          \/ ReplayAnswered(c, answer)
          \/ ResultRecovered(c, answer)
          \/ CancelAnswered(c, answer)
    /\ calls' = calls \ {c}
    /\ drain' = c.fresh
    /\ UNCHANGED <<away, key, server, loads>>

DrainReconcileIntent ==
    /\ drain
    /\ drain' = FALSE
    /\ IF intent /\ Active = {} /\ Pending /\ away = {}
       THEN intent' = FALSE /\ QueryPending
       ELSE UNCHANGED <<ui, current, calls, intent>>
    /\ UNCHANGED <<away, key, session, server, history>>

(* The API *)

\* A start creates the workflow of its key once; a cancel may come too late.
NextStatus(c) ==
    CASE c.cmd = "start" /\ server[c.wf] = "issued"   -> {"pending", "completed"}
      [] c.cmd = "cancel" /\ server[c.wf] = "pending" -> {"pending", "cancelled"}
      [] OTHER                                        -> {server[c.wf]}

\* A start that is replayed may get its first answer again.
Serve(c) ==
    /\ c.answer = "none"
    /\ \/ \E status \in NextStatus(c) :
             /\ server' = [server EXCEPT ![c.wf] = status]
             /\ \E answer \in {status} \cup (IF c.cmd = "start" THEN {"pending"} ELSE {}) :
                   calls' = (calls \ {c}) \cup {[c EXCEPT !.answer = answer]}
       \/ /\ calls' = (calls \ {c}) \cup {[c EXCEPT !.answer = "error"]}
          /\ UNCHANGED server
    /\ UNCHANGED <<ui, current, intent, drain, away, key, session, history>>

Complete(w) ==
    /\ server[w] = "pending"
    /\ server' = [server EXCEPT ![w] = "completed"]
    /\ UNCHANGED <<ui, current, calls, intent, drain, away, key, session, history>>

Next ==
    \/ Start
    \/ Poll
    \/ QueryResult
    \/ Replay
    \/ Cancel
    \/ \E reason \in Reasons : PausePolling(reason)
    \/ \E reason \in Reasons : ResumePolling(reason)
    \/ Recover
    \/ Reset
    \/ Remount
    \/ Reload
    \/ Expire
    \/ DrainReconcileIntent
    \/ \E c \in calls : Handle(c)
    \/ \E c \in calls : Serve(c)
    \/ \E w \in Workflows : Complete(w)

\* Every call ends (the fetch client has a timeout), and so does every
\* microtask.  Nothing is assumed of the user, the network or the API.
Fairness ==
    /\ WF_vars(DrainReconcileIntent)
    /\ WF_vars(\E c \in Active : Handle(c))
    /\ WF_vars(\E c \in calls \ Active : Handle(c))

Spec == Init /\ [][Next]_vars
FairSpec == Spec /\ Fairness

-----------------------------------------------------------------------------

\* A workflow that the user reset, or replaced by another, is never shown or
\* saved again, whatever answers about it are still to come.
NoResurrection == {ui.wf, session.wf} \cap abandoned = {}

\* What is shown can be recovered after a reload: a pending workflow, or one
\* being cancelled, has its session, and a completed one its result session,
\* until the session expires.  Another workflow's session never takes its place.
ShownIsSaved ==
    /\ ui.kind \in {"pending", "cancelling"} =>
          session.wf = ui.wf /\ session.kind \in {"pending", "expired"}
    /\ ui.kind = "completed" =>
          session.wf = ui.wf /\ session.kind \in {"result", "expired"}

\* The controller never tells more than the API decided: what it shows as
\* completed or cancelled is so, a cancel without an answer included, and only
\* results of ended workflows are kept as results.
ShownIsTrue ==
    /\ ui.kind \in Terminal => server[ui.wf] = ui.kind
    /\ ui.kind \in {"pending", "cancelling"} => server[ui.wf] \notin {"unknown", "issued"}
    /\ session.kind = "result" => server[session.wf] \in Terminal

\* The poll budget holds across pauses, failed cancels and recoveries: a reload
\* forgets at most the poll that was in flight.
PollsBounded == polls <= MaxAttempts + loads

\* A cancel that failed, or a resume during another command, is followed by a
\* query, unless polling is paused or the workflow is no longer pending.
ReconcileHappens ==
    (intent /\ Pending) ~> ((\E c \in Active : c.cmd = "query") \/ away # {} \/ ~Pending)

\* The user is never left with a start, a cancel or a recovery that does not end.
BusyEnds == ui.kind \in {"starting", "cancelling", "recovering"}
            ~> ui.kind \notin {"starting", "cancelling", "recovering"}
=============================================================================
