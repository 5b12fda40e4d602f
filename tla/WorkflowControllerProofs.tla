---------------------- MODULE WorkflowControllerProofs ----------------------
(***************************************************************************)
(* The safety properties of WorkflowController, for any workflows, reasons *)
(* and limits.  What is shown is true whatever happens (Honest); that it   *)
(* is saved, stays buried and within its polls (IInv) holds as long as no  *)
(* reset and no unmount overtakes a cancel.                                *)
(***************************************************************************)
EXTENDS WorkflowController, TLAPS

Known == {w \in Workflows : server[w] \notin {"unknown", "issued"}}

\* A state names a workflow exactly when it is about one.
Named ==
    /\ ui.kind \in {"idle", "failed"} <=> ui.wf = NoWorkflow
    /\ session.kind = "empty" <=> session.wf = NoWorkflow
    /\ session.kind # "empty" => session.wf \in Known
    /\ ui.kind \in {"pending", "cancelling"} \cup Terminal => ui.wf \in Known
    /\ ui.wf # NoWorkflow => server[ui.wf] # "unknown"
    /\ key # NoWorkflow => server[key] # "unknown"
    /\ \A w \in abandoned : server[w] # "unknown"
    /\ key \notin abandoned

\* Calls are about workflows the API knows, and its answers stay true.
Truthful == \A c \in calls :
    /\ c.wf \in Workflows
    /\ c.cmd = "start" => server[c.wf] # "unknown"
    /\ c.cmd # "start" => c.wf \in Known
    /\ c.answer = "pending" => c.wf \in Known
    /\ c.answer \in Terminal => server[c.wf] = c.answer

\* What the call of the active command finds when it is answered.
Expected(c) ==
    /\ c.cmd = "start" => ui.kind = "starting" /\ key = c.wf
    /\ c.cmd \in {"poll", "query", "recover"} => Pending
    /\ c.cmd = "cancel" => ui.kind = "cancelling"
    /\ c.cmd = "recover-result" => ui.kind = "recovering" /\ session.kind \in {"result", "expired"}
                                   /\ session.wf = ui.wf
    /\ c.cmd = "replay" => ui.kind \in Terminal
    /\ c.cmd # "replay" => current
    /\ ui.wf = c.wf

Commanded ==
    /\ \A c \in calls : c.fresh => Expected(c)
    /\ \A c, d \in calls : c.fresh /\ d.fresh => c = d
    /\ \A c \in calls : c.cmd = "cancel" => c.fresh /\ c.live
    /\ ui.kind = "cancelling" => \E c \in calls : c.cmd = "cancel"

\* A poll that was sent and is not counted in the session.
Unsaved == ui.kind = "cancelling" \/ \E c \in calls : c.fresh /\ c.cmd = "poll"

Counted ==
    /\ ui.attempts <= MaxAttempts
    /\ session.attempts <= MaxAttempts
    /\ \A c \in calls : c.attempts <= MaxAttempts
    /\ Pending => polls <= ui.attempts + loads
    /\ \A c \in calls : c.cmd = "cancel" => polls <= c.attempts + loads
    /\ session.kind = "pending" => polls <= session.attempts + loads + (IF Unsaved THEN 1 ELSE 0)

IInv ==
    /\ TypeOK
    /\ NoResurrection
    /\ ShownIsSaved
    /\ ShownIsTrue
    /\ PollsBounded
    /\ Named
    /\ Truthful
    /\ Commanded
    /\ Counted

-----------------------------------------------------------------------------

\* The call that a command sends, and two calls that differ in freshness only.
New(command, w, n) == [cmd |-> command, wf |-> w, attempts |-> n, fresh |-> TRUE,
                       live |-> TRUE, answer |-> "none"]
Alike(c, d) == /\ c.cmd = d.cmd /\ c.wf = d.wf /\ c.attempts = d.attempts
               /\ c.live = d.live /\ c.answer = d.answer

\* nextToken leaves every call as it was, but outdated.
LEMMA OutdatedFacts ==
    ASSUME calls \subseteq Calls
    PROVE  /\ Outdated \subseteq Calls
           /\ \A c \in Outdated : ~c.fresh /\ \E d \in calls : Alike(c, d)
<1>1. ASSUME NEW c \in Outdated PROVE c \in Calls /\ ~c.fresh /\ \E d \in calls : Alike(c, d)
  <2>1. PICK d \in calls : c = [d EXCEPT !.fresh = FALSE] BY DEF Outdated
  <2>2. d \in Calls OBVIOUS
  <2>3. QED BY <2>1, <2>2 DEF Calls, Alike
<1>2. QED BY <1>1

\* After a command the one fresh call is the one it sent.
LEMMA SendFacts ==
    ASSUME TypeOK, NEW command \in Commands, NEW w \in Workflows, NEW n \in Nat,
           Send(command, w, n)
    PROVE  /\ calls' \subseteq Calls
           /\ New(command, w, n) \in calls'
           /\ \A c \in calls' : c # New(command, w, n) => ~c.fresh /\ \E d \in calls : Alike(c, d)
<1>1. calls' = Outdated \cup {New(command, w, n)} BY DEF Send, New
<1>2. New(command, w, n) \in Calls BY DEF New, Calls, Answers, Ids
<1>3. /\ Outdated \subseteq Calls
      /\ \A c \in Outdated : ~c.fresh /\ \E d \in calls : Alike(c, d)
  BY OutdatedFacts DEF TypeOK
<1>4. ASSUME NEW c \in calls', c # New(command, w, n)
      PROVE  ~c.fresh /\ \E d \in calls : Alike(c, d)
  <2>1. c \in Outdated BY <1>1, <1>4
  <2>2. QED BY <1>3, <2>1
<1>5. calls' \subseteq Calls /\ New(command, w, n) \in calls' BY <1>1, <1>2, <1>3
<1>6. QED BY <1>4, <1>5

-----------------------------------------------------------------------------

\* What holds of the workflows named anywhere, whoever outlives whom.
Grounded ==
    /\ ui.kind \in {"pending", "cancelling"} \cup Terminal => ui.wf \in Known
    /\ session.kind # "empty" => session.wf \in Known
    /\ key # NoWorkflow => server[key] # "unknown"

\* The part of the invariant that survives a cancel that is outlived: nothing
\* untrue is shown, saved or on its way.
Honest ==
    /\ TypeOK
    /\ ShownIsTrue
    /\ Grounded
    /\ Truthful

\* A command about a workflow the API knows sends a call that is about it too.
LEMMA SendHonest ==
    ASSUME Honest, NEW command \in Commands \ {"start"}, NEW w \in Known, NEW n \in Nat,
           Send(command, w, n), UNCHANGED server
    PROVE  calls' \subseteq Calls /\ Truthful'
<1>1. w \in Workflows BY DEF Known
<1>2. /\ calls' \subseteq Calls
      /\ \A c \in calls' : c # New(command, w, n) => ~c.fresh /\ \E d \in calls : Alike(c, d)
  BY <1>1, SendFacts DEF Honest
<1>3. Truthful'
  BY <1>1, <1>2 DEF Honest, Truthful, Known, Alike, New, Terminal
<1>4. QED BY <1>2, <1>3

\* Commands other than a start leave the API's workflows as they are.
LEMMA CommandHonest ==
    ASSUME Honest,
           \/ Poll \/ Replay \/ Cancel \/ Recover
           \/ QueryResult \/ DrainReconcileIntent \/ (\E reason \in Reasons : ResumePolling(reason))
    PROVE  Honest'
<1>1. /\ UNCHANGED <<session, server, key, abandoned, loads>> /\ current' \in BOOLEAN
      /\ intent' \in BOOLEAN /\ drain' \in BOOLEAN /\ away' \subseteq Reasons /\ polls' \in Nat
  <2>1. CASE Poll BY <2>1 DEF Honest, TypeOK, Poll
  <2>2. CASE Replay \/ Cancel \/ Recover BY <2>2 DEF Honest, TypeOK, Replay, Cancel, Recover, history
  <2>3. CASE QueryResult \/ DrainReconcileIntent \/ (\E reason \in Reasons : ResumePolling(reason))
    BY <2>3 DEF Honest, TypeOK, QueryResult, DrainReconcileIntent, ResumePolling, QueryPending, history
  <2>4. QED BY <2>1, <2>2, <2>3
<1>2. 0 \in Nat /\ {"poll", "query", "replay", "cancel", "recover", "recover-result"}
                   \subseteq Commands \ {"start"}
  BY DEF Commands
<1>3. /\ calls' \subseteq Calls /\ Truthful'
      /\ ui' \in View(UiKinds)
      /\ ui' = ui \/ ui'.kind = "recovering"
         \/ (ui'.kind \in {"pending", "cancelling"} /\ ui'.wf \in Known)
  <2>1. Pending => ui.wf \in Known BY DEF Honest, Grounded, Pending
  <2>2. CASE QueryPending
    BY <1>1, <1>2, <2>1, <2>2, SendHonest DEF QueryPending, Honest, TypeOK
  <2>3. CASE UNCHANGED <<ui, current, calls>>
    BY <1>1, <2>3 DEF Honest, TypeOK, Truthful, Known
  <2>4. CASE Poll
    <3>1. calls' \subseteq Calls /\ Truthful' BY <1>1, <1>2, <2>1, <2>4, SendHonest DEF Poll
    <3>2. QED BY <2>1, <2>4, <3>1 DEF Poll, Pending, Honest, TypeOK, View
  <2>5. CASE Replay
    <3>1. ui.wf \in Known BY <2>5 DEF Replay, Honest, Grounded
    <3>2. calls' \subseteq Calls /\ Truthful' BY <1>1, <1>2, <2>5, <3>1, SendHonest DEF Replay
    <3>3. QED BY <2>5, <3>2 DEF Replay, Honest, TypeOK
  <2>6. CASE Cancel
    <3>1. Pending /\ ui.attempts \in Nat BY <2>6 DEF Cancel, Honest, TypeOK, View
    <3>2. calls' \subseteq Calls /\ Truthful' BY <1>1, <1>2, <2>1, <2>6, <3>1, SendHonest DEF Cancel
    <3>3. QED BY <2>1, <2>6, <3>1, <3>2 DEF Cancel, Shown, View, UiKinds, Ids, Known
  <2>7. CASE Recover
    <3>1. session.wf \in Known BY <2>7 DEF Recover, Honest, Grounded
    <3>2. calls' \subseteq Calls /\ Truthful' BY <1>1, <1>2, <2>7, <3>1, SendHonest DEF Recover
    <3>3. (ui' = session /\ session.kind = "pending") \/ ui' = Shown("recovering", session.wf, 0)
      BY <2>7 DEF Recover
    <3>4. QED BY <3>1, <3>2, <3>3 DEF Honest, TypeOK, Shown, View, UiKinds, Ids, Known
  <2>8. QED BY <2>2, <2>3, <2>4, <2>5, <2>6, <2>7 DEF QueryResult, DrainReconcileIntent, ResumePolling
<1>4. TypeOK' BY <1>1, <1>3 DEF Honest, TypeOK
<1>5. ShownIsTrue' /\ Grounded'
  BY <1>1, <1>3 DEF Honest, ShownIsTrue, Grounded, Known, Terminal
<1>6. QED BY <1>3, <1>4, <1>5 DEF Honest

\* A start is about a workflow that is issued, or was before.
LEMMA StartHonest == ASSUME Honest, Start PROVE Honest'
<1>1. /\ key' \in Workflows
      /\ server' \in [Workflows -> {"unknown", "issued", "pending"} \cup Terminal]
      /\ server'[key'] # "unknown"
      /\ \A w \in Workflows : w # key' => server'[w] = server[w]
      /\ \/ server'[key'] = server[key']
         \/ server[key'] = "unknown" /\ server'[key'] = "issued"
  <2>1. CASE key # NoWorkflow /\ UNCHANGED <<key, server>>
    BY <2>1 DEF Honest, Grounded, TypeOK, Ids
  <2>2. CASE /\ key = NoWorkflow
             /\ \E w \in Workflows : server[w] = "unknown"
             /\ key' = NewKey
             /\ server' = [server EXCEPT ![NewKey] = "issued"]
    <3>1. NewKey \in Workflows /\ server[NewKey] = "unknown" BY <2>2 DEF NewKey
    <3>2. QED BY <2>2, <3>1 DEF Honest, TypeOK
  <2>3. QED BY <2>1, <2>2 DEF Start
<1>2. Known' = Known BY <1>1 DEF Known
<1>3. /\ calls' \subseteq Calls
      /\ \A c \in calls' : c # New("start", key', 0) => ~c.fresh /\ \E d \in calls : Alike(c, d)
  BY <1>1, SendFacts DEF Honest, Start, Commands
<1>4. TypeOK'
  BY <1>1, <1>3 DEF Honest, TypeOK, Start, Shown, View, UiKinds, Ids, history
<1>5. Truthful'
  <2>1. ASSUME NEW c \in calls', c # New("start", key', 0)
        PROVE  /\ c.wf \in Workflows
               /\ c.cmd = "start" => server'[c.wf] # "unknown"
               /\ c.cmd # "start" => c.wf \in Known
               /\ c.answer = "pending" => c.wf \in Known
               /\ c.answer \in Terminal => server'[c.wf] = c.answer
    <3>1. PICK d \in calls : Alike(c, d) BY <1>3, <2>1
    <3>2. QED BY <1>1, <3>1 DEF Honest, Truthful, Alike, Terminal, Known
  <2>2. QED BY <1>1, <1>2, <2>1 DEF Truthful, New, Terminal
<1>6. ShownIsTrue' /\ Grounded'
  BY <1>1, <1>2 DEF Honest, ShownIsTrue, Grounded, Start, Shown, Terminal, Known
<1>7. QED BY <1>4, <1>5, <1>6 DEF Honest

\* Steps that neither send nor answer a call, those of a tab that goes away included.
LEMMA QuietHonest ==
    ASSUME Honest,
           \/ \E reason \in Reasons : PausePolling(reason)
           \/ Reset \/ Remount \/ Reload \/ Expire \/ UNCHANGED vars
    PROVE  Honest'
<1>1. /\ server' = server /\ key' \in {key, NoWorkflow} /\ ui' \in {ui, Idle}
      /\ \/ session' \in {session, Empty}
         \/ session' = ui /\ Pending
         \/ session' = [session EXCEPT !.kind = "expired"] /\ session.kind # "empty"
  BY DEF PausePolling, Persisted, Pending, Terminal, Reset, Remount, Reload, Cleared, Expire, vars
<1>2. \A c \in calls' : /\ c \in Calls
                        /\ \E d \in calls : c.cmd = d.cmd /\ c.wf = d.wf /\ c.answer = d.answer
  <2>1. \A c \in Outdated : /\ c \in Calls
                            /\ \E d \in calls : c.cmd = d.cmd /\ c.wf = d.wf /\ c.answer = d.answer
    BY OutdatedFacts DEF Honest, TypeOK, Alike
  <2>2. CASE Remount
    <3>1. ASSUME NEW c \in calls'
          PROVE  /\ c \in Calls
                 /\ \E d \in calls : c.cmd = d.cmd /\ c.wf = d.wf /\ c.answer = d.answer
      <4>1. PICK e \in Outdated : c = [e EXCEPT !.live = FALSE] BY <2>2 DEF Remount
      <4>2. e \in Calls BY <2>1
      <4>3. c \in Calls /\ c.cmd = e.cmd /\ c.wf = e.wf /\ c.answer = e.answer
        BY <4>1, <4>2 DEF Calls
      <4>4. QED BY <2>1, <4>3
    <3>2. QED BY <3>1
  <2>3. CASE Reset \/ Reload BY <2>1, <2>3 DEF Reset, Reload
  <2>4. CASE calls' = calls BY <2>4 DEF Honest, TypeOK
  <2>5. QED BY <2>2, <2>3, <2>4 DEF PausePolling, Expire, vars
<1>3. TypeOK'
  <2>1. calls' \subseteq Calls BY <1>2
  <2>2. /\ current' \in BOOLEAN /\ intent' \in BOOLEAN /\ drain' \in BOOLEAN /\ away' \subseteq Reasons
        /\ polls' \in Nat /\ loads' \in Nat
    <3>1. CASE Reset \/ Remount \/ Reload
      <4>1. /\ current' = FALSE /\ intent' = FALSE /\ away' = {} /\ polls' = polls
            /\ drain' \in {drain, FALSE} /\ loads' \in {loads, loads + 1}
        BY <3>1 DEF Reset, Remount, Reload, Cleared
      <4>2. drain \in BOOLEAN /\ polls \in Nat /\ loads \in Nat BY DEF Honest, TypeOK
      <4>3. loads' \in Nat BY <4>1, <4>2
      <4>4. QED BY <4>1, <4>2, <4>3
    <3>2. CASE Expire \/ UNCHANGED vars BY <3>2 DEF Honest, TypeOK, Expire, vars, history
    <3>3. CASE \E reason \in Reasons : PausePolling(reason)
      BY <3>3 DEF Honest, TypeOK, PausePolling, history
    <3>4. QED BY <3>1, <3>2, <3>3
  <2>3. abandoned' \subseteq Workflows
    BY DEF Honest, TypeOK, View, Ids, PausePolling, Reset, Remount, Reload, Expire, vars, history
  <2>4. /\ ui' \in View(UiKinds) /\ session' \in View({"empty", "pending", "result", "expired"})
        /\ key' \in Ids
    BY <1>1 DEF Honest, TypeOK, View, Pending, Idle, Empty, Shown, UiKinds, Ids
  <2>5. QED BY <1>1, <2>1, <2>2, <2>3, <2>4 DEF Honest, TypeOK
<1>4. Truthful' BY <1>1, <1>2 DEF Honest, Truthful, Known, Terminal
<1>5. ShownIsTrue' /\ Grounded'
  BY <1>1 DEF Honest, TypeOK, View, ShownIsTrue, Grounded, Known, Pending, Idle, Empty, Shown, Terminal
<1>6. QED BY <1>3, <1>4, <1>5 DEF Honest

Statuses == {"unknown", "issued", "pending"} \cup Terminal

\* What the API may do to a workflow leaves true what was said of it.
LEMMA ApiHonest ==
    ASSUME Honest, NEW w \in Workflows, NEW status \in Statuses,
           server' = [server EXCEPT ![w] = status],
           server[w] \in Terminal => status = server[w],
           server[w] = "pending" => status \in {"pending"} \cup Terminal,
           server[w] # "unknown" => status # "unknown",
           UNCHANGED <<ui, key, session>>
    PROVE  /\ server' \in [Workflows -> Statuses] /\ server'[w] = status
           /\ \A v \in Workflows : /\ v \in Known => v \in Known'
                                   /\ server[v] # "unknown" => server'[v] # "unknown"
                                   /\ server[v] \in Terminal => server'[v] = server[v]
           /\ ShownIsTrue' /\ Grounded'
<1>1. server \in [Workflows -> Statuses] BY DEF Honest, TypeOK, Statuses
<1>2. server' \in [Workflows -> Statuses] /\ server'[w] = status BY <1>1
<1>3. \A v \in Workflows : /\ server[v] # "unknown" => server'[v] # "unknown"
                           /\ server[v] \in Terminal => server'[v] = server[v]
  BY <1>1
<1>4. \A v \in Known : v \in Known'
  <2>1. \A v \in Known : server[v] \in {"pending"} \cup Terminal BY <1>1 DEF Known, Statuses
  <2>2. \A v \in Known : server'[v] \in {"pending"} \cup Terminal BY <1>1, <2>1 DEF Known
  <2>3. QED BY <2>2 DEF Known, Terminal
<1>5. Grounded' BY <1>3, <1>4 DEF Honest, TypeOK, Ids, Grounded
<1>6. ShownIsTrue'
  <2>1. ui.kind \in Terminal => server'[ui.wf] = ui.kind
    BY <1>3 DEF Honest, Grounded, ShownIsTrue, Known
  <2>2. ui.kind \in {"pending", "cancelling"} => ui.wf \in Known' BY <1>4 DEF Honest, Grounded
  <2>3. session.kind = "result" => server'[session.wf] \in Terminal
    BY <1>3 DEF Honest, Grounded, ShownIsTrue, Known
  <2>4. QED BY <2>1, <2>2, <2>3 DEF ShownIsTrue, Known
<1>7. QED BY <1>2, <1>3, <1>4, <1>5, <1>6

\* A completion makes no answer false that is on its way.
LEMMA CompleteHonest == ASSUME Honest, NEW w \in Workflows, Complete(w) PROVE Honest'
<1>1. /\ "completed" \in Statuses /\ server' = [server EXCEPT ![w] = "completed"]
      /\ server[w] = "pending"
      /\ UNCHANGED <<ui, key, session, history, calls, current, intent, drain, away>>
  BY DEF Statuses, Terminal, Complete
<1>2. /\ server' \in [Workflows -> Statuses]
      /\ \A v \in Workflows : /\ v \in Known => v \in Known'
                              /\ server[v] # "unknown" => server'[v] # "unknown"
                              /\ server[v] \in Terminal => server'[v] = server[v]
      /\ ShownIsTrue' /\ Grounded'
  BY <1>1, ApiHonest DEF Terminal
<1>3. TypeOK' BY <1>1, <1>2 DEF Honest, TypeOK, Statuses, history
<1>4. Truthful' BY <1>1, <1>2 DEF Honest, Truthful
<1>5. QED BY <1>2, <1>3, <1>4 DEF Honest

\* The API answers with the status it leaves the workflow in, with the first
\* answer of a start again, or with an error.
LEMMA ServedFacts ==
    ASSUME TypeOK, Truthful, NEW c \in calls, Serve(c)
    PROVE  \E status \in Statuses, answer \in Answers :
         /\ server' = [server EXCEPT ![c.wf] = status]
         /\ server[c.wf] \in Terminal => status = server[c.wf]
         /\ server[c.wf] = "pending" => status \in {"pending"} \cup Terminal
         /\ status # "unknown"
         /\ answer = "pending" => status \in {"pending"} \cup Terminal
         /\ answer \in Terminal => status = answer
         /\ calls' = (calls \ {c}) \cup {[c EXCEPT !.answer = answer]}
<1>1. c \in Calls /\ c.wf \in Workflows BY DEF TypeOK, Truthful
<1>2. server \in [Workflows -> Statuses] /\ server[c.wf] # "unknown"
      /\ (c.cmd # "start" => server[c.wf] \in {"pending"} \cup Terminal)
  BY <1>1 DEF TypeOK, Statuses, Truthful, Known
<1>3. CASE /\ calls' = (calls \ {c}) \cup {[c EXCEPT !.answer = "error"]}
           /\ UNCHANGED server
  <2>1. server' = [server EXCEPT ![c.wf] = server[c.wf]] BY <1>1, <1>2, <1>3
  <2>2. "error" \in Answers /\ "error" \notin Terminal /\ server[c.wf] \in Statuses
    BY <1>1, <1>2 DEF Answers, Terminal
  <2>3. QED BY <1>2, <1>3, <2>1, <2>2
<1>4. CASE \E status \in NextStatus(c) :
             /\ server' = [server EXCEPT ![c.wf] = status]
             /\ \E answer \in {status} \cup (IF c.cmd = "start" THEN {"pending"} ELSE {}) :
                   calls' = (calls \ {c}) \cup {[c EXCEPT !.answer = answer]}
  <2>1. PICK status \in NextStatus(c) :
             /\ server' = [server EXCEPT ![c.wf] = status]
             /\ \E answer \in {status} \cup (IF c.cmd = "start" THEN {"pending"} ELSE {}) :
                   calls' = (calls \ {c}) \cup {[c EXCEPT !.answer = answer]}
    BY <1>4
  <2>2. PICK answer \in {status, "pending"} :
             calls' = (calls \ {c}) \cup {[c EXCEPT !.answer = answer]} /\ (answer = status \/ answer = "pending")
    BY <2>1
  <2>3. /\ status \in {"pending"} \cup Terminal
        /\ server[c.wf] \in Terminal => status = server[c.wf]
    <3>1. server[c.wf] \in {"issued", "pending"} \cup Terminal BY <1>1, <1>2 DEF Statuses
    <3>2. CASE c.cmd = "start" /\ server[c.wf] = "issued" BY <2>1, <3>2 DEF NextStatus, Terminal
    <3>3. CASE c.cmd = "cancel" /\ server[c.wf] = "pending" BY <2>1, <3>3 DEF NextStatus, Terminal
    <3>4. CASE ~(c.cmd = "start" /\ server[c.wf] = "issued") /\ ~(c.cmd = "cancel" /\ server[c.wf] = "pending")
      <4>1. status = server[c.wf] BY <2>1, <3>4 DEF NextStatus
      <4>2. server[c.wf] # "issued" BY <1>2, <3>4 DEF Terminal
      <4>3. QED BY <3>1, <4>1, <4>2
    <3>5. QED BY <3>2, <3>3, <3>4
  <2>4. status \in Statuses /\ status # "unknown" /\ answer \in Answers
    BY <2>2, <2>3 DEF Statuses, Answers, Terminal
  <2>5. answer \in Terminal => status = answer BY <2>2 DEF Terminal
  <2>6. QED BY <2>1, <2>2, <2>3, <2>4, <2>5
<1>5. QED BY <1>3, <1>4 DEF Serve

\* An answer is true when it is given.
LEMMA ServeHonest == ASSUME Honest, NEW c \in calls, Serve(c) PROVE Honest'
<1>1. c \in Calls /\ c.wf \in Workflows BY DEF Honest, TypeOK, Truthful
<1>2. UNCHANGED <<ui, key, session, history, current, intent, drain, away>> BY DEF Serve
<1>3. PICK status \in Statuses, answer \in Answers :
         /\ server' = [server EXCEPT ![c.wf] = status]
         /\ server[c.wf] \in Terminal => status = server[c.wf]
         /\ server[c.wf] = "pending" => status \in {"pending"} \cup Terminal
         /\ status # "unknown"
         /\ answer = "pending" => status \in {"pending"} \cup Terminal
         /\ answer \in Terminal => status = answer
         /\ calls' = (calls \ {c}) \cup {[c EXCEPT !.answer = answer]}
  BY ServedFacts DEF Honest
<1>4. /\ server' \in [Workflows -> Statuses] /\ server'[c.wf] = status
      /\ \A v \in Workflows : /\ v \in Known => v \in Known'
                              /\ server[v] # "unknown" => server'[v] # "unknown"
                              /\ server[v] \in Terminal => server'[v] = server[v]
      /\ ShownIsTrue' /\ Grounded'
  BY <1>1, <1>2, <1>3, ApiHonest
<1>5. DEFINE served == [c EXCEPT !.answer = answer]
<1>6. served \in Calls /\ served.cmd = c.cmd /\ served.wf = c.wf /\ served.answer = answer
  BY <1>1, <1>3 DEF Calls
<1>7. calls' = (calls \ {c}) \cup {served} BY <1>3
<1>8. HIDE DEF served
<1>9. TypeOK' BY <1>2, <1>4, <1>6, <1>7 DEF Honest, TypeOK, Statuses, history
<1>10. Truthful'
  <2>1. answer = "pending" => c.wf \in Known' BY <1>1, <1>3, <1>4 DEF Known, Terminal
  <2>2. /\ served.cmd = "start" => server'[served.wf] # "unknown"
        /\ served.cmd # "start" => served.wf \in Known'
        /\ served.answer = "pending" => served.wf \in Known'
        /\ served.answer \in Terminal => server'[served.wf] = served.answer
    BY <1>1, <1>3, <1>4, <1>6, <2>1 DEF Honest, Truthful
  <2>3. ASSUME NEW d \in calls, d # c
        PROVE  /\ d.wf \in Workflows
               /\ d.cmd = "start" => server'[d.wf] # "unknown"
               /\ d.cmd # "start" => d.wf \in Known'
               /\ d.answer = "pending" => d.wf \in Known'
               /\ d.answer \in Terminal => server'[d.wf] = d.answer
    BY <1>4 DEF Honest, Truthful
  <2>4. QED BY <1>1, <1>6, <1>7, <2>2, <2>3 DEF Truthful
<1>11. QED BY <1>4, <1>9, <1>10 DEF Honest

\* The answers that a call can bring: those of the API are true.
LEMMA AnswerFacts ==
    ASSUME TypeOK, Truthful, NEW c \in calls, NEW answer \in {"lost", c.answer} \ {"none"}
    PROVE  /\ answer \in {"lost", "pending", "error"} \cup Terminal
           /\ answer = "pending" => c.wf \in Known
           /\ answer \in Terminal => server[c.wf] = answer /\ c.wf \in Known
<1>1. c.answer \in Answers \cup {"none"} BY DEF TypeOK, Calls
<1>2. c.answer \in Terminal => server[c.wf] = c.answer /\ c.wf \in Known
  BY DEF Truthful, Known, Terminal
<1>3. QED BY <1>1, <1>2 DEF Truthful, Answers, Terminal

\* What the reducer shows for an answer is what the answer says, if anything.
LEMMA AfterAnswerHonest ==
    ASSUME Honest, NEW c \in calls, NEW answer \in {"lost", c.answer} \ {"none"},
           NEW next, next = AfterAnswer(c, answer)
    PROVE  /\ next \in View(UiKinds)
           /\ next.kind \in {"pending", "cancelling"} \cup Terminal => next.wf \in Known
           /\ next.kind \in Terminal => server[next.wf] = next.kind
<1>1. /\ answer \in {"lost", "pending", "error"} \cup Terminal
      /\ answer = "pending" => c.wf \in Known
      /\ answer \in Terminal => server[c.wf] = answer /\ c.wf \in Known
  BY AnswerFacts DEF Honest
<1>2. /\ ui \in View(UiKinds)
      /\ ui.kind \in {"pending", "cancelling"} \cup Terminal => ui.wf \in Known
      /\ ui.kind \in Terminal => server[ui.wf] = ui.kind
      /\ ui.attempts \in Nat /\ c.wf \in Workflows
  BY DEF Honest, TypeOK, View, Grounded, ShownIsTrue, Truthful
<1>3. next \in {ui, Idle, Shown("failed", NoWorkflow, 0)}
      \/ (answer = "pending" /\ next = Shown("pending", c.wf, IF Pending THEN ui.attempts ELSE 0))
      \/ (answer \in Terminal /\ next = Shown(answer, c.wf, 0))
  BY DEF AfterAnswer
<1>4. QED BY <1>1, <1>2, <1>3 DEF Idle, Shown, View, UiKinds, Ids, Terminal

\* Any answer of any call, outdated, or of a controller that is gone, included.
LEMMA HandleHonest == ASSUME Honest, NEW c \in calls, Handle(c) PROVE Honest'
<1>1. PICK answer \in {"lost", c.answer} \ {"none"} :
         \/ Answered(c, answer)
         \/ ReplayAnswered(c, answer)
         \/ ResultRecovered(c, answer)
         \/ CancelAnswered(c, answer)
  BY DEF Handle
<1>2. /\ calls' = calls \ {c} /\ drain' = c.fresh /\ UNCHANGED <<away, key, server, loads>>
      /\ c \in Calls
  BY DEF Handle, Honest, TypeOK
<1>3. Truthful' BY <1>2 DEF Honest, Truthful, Known
<1>4. DEFINE next == AfterAnswer(c, answer)
<1>5. /\ next \in View(UiKinds)
      /\ next.kind \in {"pending", "cancelling"} \cup Terminal => next.wf \in Known
      /\ next.kind \in Terminal => server[next.wf] = next.kind
  BY AfterAnswerHonest
<1>6. /\ current' \in BOOLEAN /\ intent' \in BOOLEAN /\ abandoned' \subseteq Workflows /\ polls' \in Nat
      /\ \/ ui' = ui
         \/ ui' = Idle
         \/ ui' = next
         \/ c.cmd = "cancel" /\ ui' = Shown("pending", c.wf, c.attempts)
      /\ \/ session' = session
         \/ session' = Empty
         \/ session' = ui' /\ ui'.kind = "pending"
         \/ session' = Shown("result", ui'.wf, 0) /\ ui'.kind \in Terminal
         \/ c.cmd = "cancel" /\ session' = Shown("pending", c.wf, c.attempts)
  <2>1. CASE Answered(c, answer)
    <3>1. CASE c.fresh
      <4>1. ui' = next /\ session' = Persisted(ui') /\ UNCHANGED <<current, intent>>
        BY <2>1, <3>1 DEF Answered, Settle
      <4>2. abandoned' \subseteq Workflows /\ polls' \in Nat
        BY <2>1, <3>1 DEF Answered, Settle, Honest, TypeOK, View, Ids
      <4>3. QED BY <4>1, <4>2 DEF Persisted, Honest, TypeOK
    <3>2. CASE ~c.fresh BY <2>1, <3>2 DEF Answered, Settle, Honest, TypeOK
    <3>3. QED BY <3>1, <3>2
  <2>2. CASE ReplayAnswered(c, answer) BY <2>2 DEF ReplayAnswered, Honest, TypeOK
  <2>3. CASE ResultRecovered(c, answer)
    <3>1. UNCHANGED <<current, intent, abandoned, polls>> BY <2>3 DEF ResultRecovered
    <3>2. CASE ~c.fresh BY <2>3, <3>1, <3>2 DEF ResultRecovered, Honest, TypeOK
    <3>3. CASE c.fresh /\ answer \in Terminal
      <4>1. ui' = next /\ session' = IF ui'.kind \in Terminal THEN Persisted(ui') ELSE Empty
        BY <2>3, <3>3 DEF ResultRecovered
      <4>2. QED BY <3>1, <4>1 DEF Persisted, Terminal, Honest, TypeOK
    <3>4. CASE c.fresh /\ answer \notin Terminal
      BY <2>3, <3>1, <3>4 DEF ResultRecovered, Honest, TypeOK
    <3>5. QED BY <3>2, <3>3, <3>4
  <2>4. CASE CancelAnswered(c, answer)
    <3>1. CASE answer = "cancelled" BY <2>4, <3>1 DEF CancelAnswered, Honest, TypeOK
    <3>2. CASE answer # "cancelled" BY <1>2, <2>4, <3>2 DEF CancelAnswered, Honest, TypeOK, Calls
    <3>3. QED BY <3>1, <3>2
  <2>5. QED BY <1>1, <2>1, <2>2, <2>3, <2>4
<1>7. HIDE DEF next
<1>8. /\ c.wf \in Workflows /\ c.attempts \in Nat /\ c.fresh \in BOOLEAN
      /\ c.cmd = "cancel" => c.wf \in Known
  BY <1>2 DEF Honest, Truthful, Calls
<1>9. /\ ui' \in View(UiKinds)
      /\ ui'.kind \in {"pending", "cancelling"} \cup Terminal => ui'.wf \in Known
      /\ ui'.kind \in Terminal => server[ui'.wf] = ui'.kind
  <2>1. CASE ui' = ui BY <2>1 DEF Honest, TypeOK, Grounded, ShownIsTrue
  <2>2. CASE ui' = Idle BY <2>2 DEF Idle, Shown, View, UiKinds, Ids, Terminal
  <2>3. CASE ui' = next BY <1>5, <2>3
  <2>4. CASE c.cmd = "cancel" /\ ui' = Shown("pending", c.wf, c.attempts)
    BY <1>8, <2>4 DEF Shown, View, UiKinds, Ids, Terminal
  <2>5. QED BY <1>6, <2>1, <2>2, <2>3, <2>4
<1>10. /\ session' \in View({"empty", "pending", "result", "expired"})
       /\ session'.kind # "empty" => session'.wf \in Known
       /\ session'.kind = "result" => server[session'.wf] \in Terminal
  <2>1. CASE session' = session BY <2>1 DEF Honest, TypeOK, Grounded, ShownIsTrue
  <2>2. CASE session' = Empty BY <2>2 DEF Empty, Shown, View, Ids
  <2>3. CASE session' = ui' /\ ui'.kind = "pending" BY <1>9, <2>3 DEF View
  <2>4. CASE session' = Shown("result", ui'.wf, 0) /\ ui'.kind \in Terminal
    BY <1>9, <2>4 DEF Shown, View
  <2>5. CASE c.cmd = "cancel" /\ session' = Shown("pending", c.wf, c.attempts)
    BY <1>8, <2>5 DEF Shown, View, Ids
  <2>6. QED BY <1>6, <2>1, <2>2, <2>3, <2>4, <2>5
<1>11. TypeOK' BY <1>2, <1>6, <1>8, <1>9, <1>10 DEF Honest, TypeOK
<1>12. Grounded' BY <1>2, <1>9, <1>10 DEF Honest, Grounded, Known
<1>13. ShownIsTrue' BY <1>2, <1>9, <1>10 DEF ShownIsTrue, Known
<1>14. QED BY <1>3, <1>11, <1>12, <1>13 DEF Honest

\* The larger invariant includes what holds in any case.
LEMMA InvariantIsHonest == IInv => Honest
BY DEF IInv, Named, Honest, Grounded

-----------------------------------------------------------------------------

\* A query of a pending workflow keeps what is said of calls.
LEMMA QueryPendingKeeps ==
    ASSUME IInv, QueryPending, UNCHANGED <<session, server, key, history>>
    PROVE  /\ ui' = ui /\ current' \in BOOLEAN /\ calls' \subseteq Calls
           /\ Truthful' /\ Commanded' /\ Counted'
<1>1. ui.wf \in Known /\ ui.wf \in Workflows BY DEF IInv, Named, QueryPending, Pending, Known
<1>2. "query" \in Commands /\ 0 \in Nat BY DEF Commands
<1>3. /\ calls' \subseteq Calls
      /\ New("query", ui.wf, 0) \in calls'
      /\ \A c \in calls' : c # New("query", ui.wf, 0) => ~c.fresh /\ \E d \in calls : Alike(c, d)
  BY <1>1, <1>2, SendFacts DEF IInv, QueryPending
<1>4. \A d \in calls : ~d.fresh /\ d.cmd # "cancel"
  BY DEF IInv, QueryPending, Active, Commanded
<1>5. Truthful'
  BY <1>1, <1>3 DEF IInv, Truthful, Known, Alike, New, Terminal, history
<1>6. Commanded'
  <2>1. \A c \in calls' : c.fresh => c = New("query", ui.wf, 0) BY <1>3
  <2>2. \A c \in calls' : c.fresh => Expected(c)'
    BY <2>1 DEF Expected, New, QueryPending, Pending
  <2>3. \A c \in calls' : c.cmd # "cancel" BY <1>3, <1>4 DEF New, Alike
  <2>4. ui'.kind # "cancelling" BY DEF QueryPending, Pending
  <2>5. QED BY <2>1, <2>2, <2>3, <2>4 DEF Commanded
<1>7. Counted'
  BY <1>3, <1>4, BoundsAssumption DEF IInv, Counted, Unsaved, Pending, New, Alike, QueryPending, history
<1>8. QED BY <1>3, <1>5, <1>6, <1>7 DEF QueryPending

\* A start takes the kept key, or one that names an unknown workflow.
LEMMA StartKeeps == ASSUME IInv, Start PROVE IInv'
<1>1. /\ key' \in Workflows
      /\ server' \in [Workflows -> {"unknown", "issued", "pending"} \cup Terminal]
      /\ server'[key'] # "unknown"
      /\ \A w \in Workflows : w # key' => server'[w] = server[w]
      /\ \/ server'[key'] = server[key']
         \/ server[key'] = "unknown" /\ server'[key'] = "issued"
      /\ key' \notin abandoned
  <2>1. CASE key # NoWorkflow /\ UNCHANGED <<key, server>>
    <3>1. key' = key /\ server' = server /\ key \in Workflows
      BY <2>1 DEF IInv, TypeOK, Ids
    <3>2. QED BY <2>1, <3>1 DEF IInv, TypeOK, Named
  <2>2. CASE /\ key = NoWorkflow
             /\ \E w \in Workflows : server[w] = "unknown"
             /\ key' = NewKey
             /\ server' = [server EXCEPT ![NewKey] = "issued"]
    <3>1. NewKey \in Workflows /\ server[NewKey] = "unknown" BY <2>2 DEF NewKey
    <3>2. QED BY <2>2, <3>1 DEF IInv, TypeOK, Named
  <2>3. QED BY <2>1, <2>2 DEF Start
<1>2. Known' = Known BY <1>1 DEF Known
<1>3. "start" \in Commands /\ 0 \in Nat BY DEF Commands
<1>4. /\ calls' \subseteq Calls
      /\ New("start", key', 0) \in calls'
      /\ \A c \in calls' : c # New("start", key', 0) => ~c.fresh /\ \E d \in calls : Alike(c, d)
  BY <1>1, <1>3, SendFacts DEF IInv, Start
<1>5. \A d \in calls : ~d.fresh /\ d.cmd # "cancel"
  BY DEF IInv, Start, Active, Commanded
<1>6. TypeOK' BY InvariantIsHonest, StartHonest DEF Honest
<1>7. Truthful' BY InvariantIsHonest, StartHonest DEF Honest
<1>8. Commanded'
  <2>1. \A c \in calls' : c.fresh => c = New("start", key', 0) BY <1>4
  <2>2. \A c \in calls' : c.fresh => Expected(c)' BY <2>1 DEF Expected, New, Start, Shown
  <2>3. \A c \in calls' : c.cmd # "cancel" BY <1>4, <1>5 DEF New, Alike
  <2>4. ui'.kind # "cancelling" BY DEF Start, Shown
  <2>5. QED BY <2>1, <2>2, <2>3, <2>4 DEF Commanded
<1>9. Counted'
  <2>1. ~Unsaved BY <1>5 DEF Unsaved, Start
  <2>2. \A c \in calls' : c.attempts <= MaxAttempts /\ c.cmd # "cancel"
    BY <1>4, <1>5, BoundsAssumption DEF IInv, Counted, New, Alike
  <2>3. QED BY <2>1, <2>2, BoundsAssumption DEF IInv, TypeOK, Counted, Unsaved, Start, Shown, Pending, history, View
<1>10. NoResurrection' /\ ShownIsSaved' /\ PollsBounded'
  BY <1>1 DEF IInv, NoResurrection, ShownIsSaved, PollsBounded, Start, Shown, history, Terminal
<1>11. Named'
  <2>1. \A w \in abandoned : server'[w] # "unknown" BY <1>1 DEF IInv, Named, TypeOK
  <2>2. QED BY <1>1, <1>2, <2>1, NoWorkflowAssumption DEF IInv, Named, Start, Shown, history, Terminal
<1>12. ShownIsTrue' BY InvariantIsHonest, StartHonest DEF Honest
<1>13. QED BY <1>6, <1>7, <1>8, <1>9, <1>10, <1>11, <1>12 DEF IInv

\* A poll is counted in the state before its answer reaches the session.
LEMMA PollKeeps == ASSUME IInv, Poll PROVE IInv'
<1>1. ui.wf \in Known /\ ui.wf \in Workflows BY DEF IInv, Named, Poll, Pending, Known
<1>2. "poll" \in Commands /\ 0 \in Nat BY DEF Commands
<1>3. /\ calls' \subseteq Calls
      /\ New("poll", ui.wf, 0) \in calls'
      /\ \A c \in calls' : c # New("poll", ui.wf, 0) => ~c.fresh /\ \E d \in calls : Alike(c, d)
  BY <1>1, <1>2, SendFacts DEF IInv, Poll
<1>4. \A d \in calls : ~d.fresh /\ d.cmd # "cancel"
  BY DEF IInv, Poll, Active, Commanded
<1>5. /\ ui' \in View(UiKinds) /\ ui'.kind = "pending" /\ ui'.wf = ui.wf
      /\ ui'.attempts = ui.attempts + 1
  BY DEF IInv, TypeOK, Poll, View, Pending
<1>6. TypeOK' BY <1>3, <1>5 DEF IInv, TypeOK, Poll
<1>7. Truthful' BY <1>1, <1>3 DEF IInv, Truthful, Known, Alike, New, Terminal, Poll
<1>8. Commanded'
  <2>1. \A c \in calls' : c.fresh => c = New("poll", ui.wf, 0) BY <1>3
  <2>2. \A c \in calls' : c.fresh => Expected(c)' BY <1>5, <2>1 DEF Expected, New, Pending, Poll
  <2>3. \A c \in calls' : c.cmd # "cancel" BY <1>3, <1>4 DEF New, Alike
  <2>4. QED BY <1>5, <2>1, <2>2, <2>3 DEF Commanded
<1>9. Counted' /\ PollsBounded'
  <2>1. ~Unsaved BY <1>4 DEF Unsaved, Poll, Pending
  <2>2. Unsaved' BY <1>3 DEF Unsaved, New
  <2>3. \A c \in calls' : c.attempts <= MaxAttempts /\ c.cmd # "cancel"
    BY <1>3, <1>4, BoundsAssumption DEF IInv, Counted, New, Alike
  <2>4. QED BY <1>5, <2>1, <2>2, <2>3, BoundsAssumption
            DEF IInv, TypeOK, View, Counted, PollsBounded, Poll, PollBudgetAvailable, Pending
<1>10. NoResurrection' /\ ShownIsSaved' /\ ShownIsTrue' /\ Named'
  BY <1>5 DEF IInv, NoResurrection, ShownIsSaved, ShownIsTrue, Named, Known, Poll, Pending, Terminal
<1>11. QED BY <1>6, <1>7, <1>8, <1>9, <1>10 DEF IInv

\* Queries, asked for, after a pause, or for an intent.
LEMMA QueryKeeps ==
    ASSUME IInv,
           QueryResult \/ DrainReconcileIntent \/ (\E reason \in Reasons : ResumePolling(reason))
    PROVE  IInv'
<1>1. UNCHANGED <<session, server, key, history>> /\ intent' \in BOOLEAN /\ drain' \in BOOLEAN
      /\ away' \subseteq Reasons
  BY DEF IInv, TypeOK, QueryResult, ResumePolling, DrainReconcileIntent
<1>2. /\ ui' = ui /\ current' \in BOOLEAN /\ calls' \subseteq Calls
      /\ Truthful' /\ Commanded' /\ Counted'
  <2>1. CASE QueryPending BY <1>1, <2>1, QueryPendingKeeps
  <2>2. CASE UNCHANGED <<ui, current, calls>>
    BY <1>1, <2>2 DEF IInv, TypeOK, Truthful, Known, Commanded, Expected, Pending, Counted, Unsaved, history
  <2>3. QED BY <2>1, <2>2 DEF QueryResult, ResumePolling, DrainReconcileIntent
<1>3. TypeOK' BY <1>1, <1>2 DEF IInv, TypeOK, history
<1>4. NoResurrection' /\ ShownIsSaved' /\ ShownIsTrue' /\ PollsBounded' /\ Named'
  BY <1>1, <1>2 DEF IInv, NoResurrection, ShownIsSaved, ShownIsTrue, PollsBounded, Named, Known, history
<1>5. QED BY <1>2, <1>3, <1>4 DEF IInv

\* A replay changes nothing but the calls and the generation.
LEMMA ReplayKeeps == ASSUME IInv, Replay PROVE IInv'
<1>1. ui.wf \in Known /\ ui.wf \in Workflows BY DEF IInv, Named, Replay, Known
<1>2. "replay" \in Commands /\ 0 \in Nat BY DEF Commands
<1>3. /\ calls' \subseteq Calls
      /\ New("replay", ui.wf, 0) \in calls'
      /\ \A c \in calls' : c # New("replay", ui.wf, 0) => ~c.fresh /\ \E d \in calls : Alike(c, d)
  BY <1>1, <1>2, SendFacts DEF IInv, Replay
<1>4. \A d \in calls : ~d.fresh /\ d.cmd # "cancel"
  BY DEF IInv, Replay, Active, Commanded
<1>5. TypeOK' BY <1>3 DEF IInv, TypeOK, Replay, history
<1>6. Truthful' BY <1>1, <1>3 DEF IInv, Truthful, Known, Alike, New, Terminal, Replay
<1>7. Commanded'
  <2>1. \A c \in calls' : c.fresh => c = New("replay", ui.wf, 0) BY <1>3
  <2>2. \A c \in calls' : c.fresh => Expected(c)' BY <2>1 DEF Expected, New, Replay
  <2>3. \A c \in calls' : c.cmd # "cancel" BY <1>3, <1>4 DEF New, Alike
  <2>4. ui'.kind # "cancelling" BY DEF Replay, Terminal
  <2>5. QED BY <2>1, <2>2, <2>3, <2>4 DEF Commanded
<1>8. Counted'
  BY <1>3, <1>4, BoundsAssumption DEF IInv, Counted, Unsaved, Pending, New, Alike, Replay, history, Terminal
<1>9. NoResurrection' /\ ShownIsSaved' /\ ShownIsTrue' /\ PollsBounded' /\ Named'
  BY DEF IInv, NoResurrection, ShownIsSaved, ShownIsTrue, PollsBounded, Named, Known, Replay, history
<1>10. QED BY <1>5, <1>6, <1>7, <1>8, <1>9 DEF IInv

\* A cancel preempts the command that is active, which is no cancel itself.
LEMMA CancelKeeps == ASSUME IInv, Cancel PROVE IInv'
<1>1. ui.wf \in Known /\ ui.wf \in Workflows /\ ui.attempts \in Nat
  BY DEF IInv, TypeOK, View, Named, Cancel, Pending, Known
<1>2. "cancel" \in Commands BY DEF Commands
<1>3. /\ calls' \subseteq Calls
      /\ New("cancel", ui.wf, ui.attempts) \in calls'
      /\ \A c \in calls' : c # New("cancel", ui.wf, ui.attempts)
                             => ~c.fresh /\ \E d \in calls : Alike(c, d)
  BY <1>1, <1>2, SendFacts DEF IInv, Cancel
<1>4. \A d \in calls : d.cmd # "cancel"
  BY DEF IInv, Cancel, Active, Commanded, Preemptible
<1>5. TypeOK'
  BY <1>1, <1>3 DEF IInv, TypeOK, Cancel, Shown, View, UiKinds, Ids, history
<1>6. Truthful' BY <1>1, <1>3 DEF IInv, Truthful, Known, Alike, New, Terminal, Cancel
<1>7. Commanded'
  <2>1. \A c \in calls' : c.fresh => c = New("cancel", ui.wf, ui.attempts) BY <1>3
  <2>2. \A c \in calls' : c.fresh => Expected(c)' BY <2>1 DEF Expected, New, Cancel, Shown
  <2>3. \A c \in calls' : c.cmd = "cancel" => c.fresh /\ c.live BY <1>3, <1>4 DEF New, Alike
  <2>4. QED BY <1>3, <2>1, <2>2, <2>3 DEF Commanded, New
<1>8. Counted'
  <2>1. \A c \in calls' : c # New("cancel", ui.wf, ui.attempts)
                           => c.attempts <= MaxAttempts /\ c.cmd # "cancel"
    BY <1>3, <1>4 DEF IInv, Counted, Alike
  <2>2. Unsaved' /\ ~Pending' /\ ui'.attempts = 0 BY DEF Unsaved, Cancel, Shown, Pending
  <2>3. polls <= ui.attempts + loads /\ ui.attempts <= MaxAttempts
    BY DEF IInv, Counted, Cancel
  <2>4. \A c \in calls' : c.attempts <= MaxAttempts /\ (c.cmd = "cancel" => polls <= c.attempts + loads)
    BY <2>1, <2>3 DEF New
  <2>5. session.kind = "pending" => polls <= session.attempts + loads + 1
    BY DEF IInv, TypeOK, View, Counted
  <2>6. QED BY <2>2, <2>4, <2>5, BoundsAssumption DEF IInv, Counted, Cancel, history
<1>9. NoResurrection' /\ ShownIsSaved' /\ ShownIsTrue' /\ PollsBounded' /\ Named'
  BY <1>1 DEF IInv, NoResurrection, ShownIsSaved, ShownIsTrue, PollsBounded, Named, Known, Cancel,
              Pending, Shown, history, Terminal
<1>10. QED BY <1>5, <1>6, <1>7, <1>8, <1>9 DEF IInv

\* A pause saves the pending state as it is shown.
LEMMA PauseKeeps == ASSUME IInv, NEW reason \in Reasons, PausePolling(reason) PROVE IInv'
<1>1. session' = ui /\ Pending BY DEF PausePolling, Persisted, Pending, Terminal
<1>2. ui.wf \in Known BY <1>1 DEF IInv, Named, Pending
<1>3. TypeOK' BY <1>1 DEF IInv, TypeOK, PausePolling, View, Pending, history
<1>4. Truthful' /\ Commanded'
  BY <1>1 DEF IInv, Truthful, Known, Commanded, Expected, Pending, PausePolling
<1>5. Counted'
  BY <1>1, BoundsAssumption DEF IInv, TypeOK, View, Counted, Unsaved, Pending, PausePolling, history
<1>6. NoResurrection' /\ ShownIsSaved' /\ ShownIsTrue' /\ PollsBounded' /\ Named'
  BY <1>1, <1>2, NoWorkflowAssumption
  DEF IInv, NoResurrection, ShownIsSaved, ShownIsTrue, PollsBounded, Named, Known, PausePolling,
      Pending, history, Terminal
<1>7. QED BY <1>3, <1>4, <1>5, <1>6 DEF IInv

\* A recovery shows what the session holds.
LEMMA RecoverKeeps == ASSUME IInv, Recover PROVE IInv'
<1>1. session.wf \in Known /\ session.wf \in Workflows /\ session.wf # NoWorkflow
  BY NoWorkflowAssumption DEF IInv, Named, Recover, Known
<1>2. PICK command \in {"recover", "recover-result"} :
         /\ Send(command, session.wf, 0)
         /\ command = "recover" => session.kind = "pending" /\ ui' = session
         /\ command = "recover-result" =>
               session.kind = "result" /\ ui' = Shown("recovering", session.wf, 0)
  BY DEF Recover
<1>3. command \in Commands /\ 0 \in Nat BY DEF Commands
<1>4. /\ calls' \subseteq Calls
      /\ New(command, session.wf, 0) \in calls'
      /\ \A c \in calls' : c # New(command, session.wf, 0)
                             => ~c.fresh /\ \E d \in calls : Alike(c, d)
  BY <1>1, <1>2, <1>3, SendFacts DEF IInv
<1>5. \A d \in calls : ~d.fresh /\ d.cmd # "cancel"
  BY DEF IInv, Recover, Active, Commanded
<1>6. TypeOK'
  BY <1>1, <1>2, <1>4 DEF IInv, TypeOK, Recover, Shown, View, UiKinds, history
<1>7. Truthful' BY <1>1, <1>2, <1>4 DEF IInv, Truthful, Known, Alike, New, Terminal, Recover
<1>8. Commanded'
  <2>1. \A c \in calls' : c.fresh => c = New(command, session.wf, 0) BY <1>4
  <2>2. \A c \in calls' : c.fresh => Expected(c)'
    BY <1>2, <2>1 DEF Expected, New, Recover, Shown, Pending
  <2>3. \A c \in calls' : c.cmd # "cancel" BY <1>2, <1>4, <1>5 DEF New, Alike
  <2>4. ui'.kind # "cancelling" BY <1>2 DEF Shown
  <2>5. QED BY <2>1, <2>2, <2>3, <2>4 DEF Commanded
<1>9. Counted'
  <2>1. ~Unsaved' BY <1>2, <1>4 DEF Unsaved, New, Shown
  <2>2. \A c \in calls' : c.attempts <= MaxAttempts /\ c.cmd # "cancel"
    BY <1>2, <1>4, <1>5, BoundsAssumption DEF IInv, Counted, New, Alike
  <2>3. ~Unsaved BY <1>5 DEF IInv, Commanded, Unsaved
  <2>4. session.kind = "pending" => polls <= session.attempts + loads
    BY <2>3 DEF IInv, TypeOK, View, Counted
  <2>5. QED BY <1>2, <2>1, <2>2, <2>4, BoundsAssumption
            DEF IInv, TypeOK, View, Counted, Recover, Shown, Pending, history
<1>10. NoResurrection' /\ ShownIsSaved' /\ ShownIsTrue' /\ PollsBounded' /\ Named'
  BY <1>1, <1>2 DEF IInv, NoResurrection, ShownIsSaved, ShownIsTrue, PollsBounded, Named, Known, Recover,
                    Shown, history, Terminal
<1>11. QED BY <1>6, <1>7, <1>8, <1>9, <1>10 DEF IInv

\* Reset, unmount and reload leave no command behind, only calls out of date.
LEMMA ClearedKeeps ==
    ASSUME IInv, ~CancelsOutlived, Reset \/ Remount \/ Reload
    PROVE  IInv'
<1>1. /\ ui' = Idle /\ current' = FALSE /\ intent' = FALSE /\ away' = {} /\ key' = NoWorkflow
      /\ server' = server /\ polls' = polls /\ drain' \in BOOLEAN
  BY DEF IInv, TypeOK, Reset, Remount, Reload, Cleared
<1>2. \/ /\ session' = Empty /\ loads' = loads
         /\ abandoned' = abandoned \cup ({ui.wf, session.wf, key} \ {NoWorkflow})
      \/ /\ session' = session /\ loads' = loads + 1
         /\ abandoned' = abandoned
  BY DEF Reset, Remount, Reload
<1>3. \A c \in calls' : /\ c \in Calls /\ ~c.fresh /\ c.cmd # "cancel"
                        /\ \E d \in calls : Alike(c, d)
  <2>1. \A c \in Outdated : c \in Calls /\ ~c.fresh /\ \E d \in calls : Alike(c, d)
    BY OutdatedFacts DEF IInv, TypeOK
  <2>2. CASE Reload BY <2>2 DEF Reload
  <2>3. CASE Reset \/ Remount
    <3>1. \A c \in Outdated : c.cmd # "cancel"
      BY <2>1, <2>3 DEF Reset, Remount, MayLeave, CancelInFlight, Alike
    <3>2. CASE Reset BY <2>1, <3>1, <3>2 DEF Reset
    <3>3. CASE Remount
      <4>1. {c \in Outdated : c.cmd = "cancel"} = {} BY <3>1
      <4>2. calls' = {} BY <3>3, <4>1 DEF Remount
      <4>3. QED BY <4>2
    <3>4. QED BY <2>3, <3>2, <3>3
  <2>4. QED BY <2>2, <2>3
<1>4. TypeOK' BY InvariantIsHonest, QuietHonest DEF Honest
<1>5. Truthful' BY InvariantIsHonest, QuietHonest DEF Honest
<1>6. Commanded' BY <1>1, <1>3 DEF Commanded, Idle, Shown
<1>7. Counted'
  <2>1. ~Unsaved' /\ ~Pending' BY <1>1, <1>3 DEF Unsaved, Idle, Shown, Pending
  <2>2. \A c \in calls' : c.attempts <= MaxAttempts /\ c.cmd # "cancel"
    BY <1>3 DEF IInv, Counted, Alike
  <2>3. QED BY <1>1, <1>2, <2>1, <2>2, BoundsAssumption
            DEF IInv, TypeOK, View, Counted, Idle, Empty, Shown
<1>8. ShownIsSaved' /\ ShownIsTrue' /\ PollsBounded'
  BY <1>1, <1>2, BoundsAssumption
  DEF IInv, TypeOK, ShownIsSaved, ShownIsTrue, PollsBounded, Idle, Empty, Shown, Terminal
<1>9. Named'
  <2>1. \A w \in abandoned' : server[w] # "unknown"
    <3>1. ui.wf # NoWorkflow => server[ui.wf] # "unknown" BY DEF IInv, Named
    <3>2. session.wf # NoWorkflow => server[session.wf] # "unknown" BY DEF IInv, Named, Known
    <3>3. QED BY <1>2, <3>1, <3>2 DEF IInv, Named
  <2>2. NoWorkflow \notin abandoned' BY <1>2, NoWorkflowAssumption DEF IInv, TypeOK
  <2>3. QED BY <1>1, <1>2, <2>1, <2>2 DEF IInv, Named, Idle, Empty, Shown, Terminal, Known
<1>10. NoResurrection'
  BY <1>1, <1>2, NoWorkflowAssumption DEF IInv, TypeOK, NoResurrection, Idle, Empty, Shown
<1>11. QED BY <1>4, <1>5, <1>6, <1>7, <1>8, <1>9, <1>10 DEF IInv

\* An expired session still names its workflow.
LEMMA ExpireKeeps == ASSUME IInv, Expire PROVE IInv'
<1>1. /\ session'.kind = "expired" /\ session'.wf = session.wf
      /\ session'.attempts = session.attempts
      /\ session' \in View({"empty", "pending", "result", "expired"})
      /\ session.kind \in {"pending", "result"}
  BY DEF IInv, TypeOK, View, Expire
<1>2. TypeOK' BY <1>1 DEF IInv, TypeOK, Expire, history
<1>3. Truthful' /\ Commanded' /\ Counted'
  BY <1>1 DEF IInv, Truthful, Known, Commanded, Expected, Pending, Counted, Unsaved, Expire, history
<1>4. NoResurrection' /\ ShownIsSaved' /\ ShownIsTrue' /\ PollsBounded' /\ Named'
  BY <1>1 DEF IInv, NoResurrection, ShownIsSaved, ShownIsTrue, PollsBounded, Named, Known, Expire, history
<1>5. QED BY <1>2, <1>3, <1>4 DEF IInv

\* What the API may do to a workflow, and what of the invariant rests on that.
LEMMA ApiKeeps ==
    ASSUME IInv, NEW w \in Workflows, NEW status \in Statuses,
           server' = [server EXCEPT ![w] = status],
           server[w] \in Terminal => status = server[w],
           server[w] = "pending" => status \in {"pending"} \cup Terminal,
           server[w] # "unknown" => status # "unknown",
           UNCHANGED <<ui, key, session, history>>
    PROVE  NoResurrection' /\ ShownIsSaved' /\ PollsBounded' /\ Named'
<1>1. \A v \in Workflows : /\ v \in Known => v \in Known'
                           /\ server[v] # "unknown" => server'[v] # "unknown"
  BY ApiHonest, InvariantIsHonest
<1>2. NoResurrection' /\ ShownIsSaved' /\ PollsBounded'
  BY DEF IInv, NoResurrection, ShownIsSaved, PollsBounded, history
<1>3. \A v \in Known : v \in Known' BY <1>1 DEF Known
<1>4. Named' BY <1>1, <1>3 DEF IInv, TypeOK, Ids, View, Named, history
<1>5. QED BY <1>2, <1>4

\* A workflow that completes was pending, so no true answer becomes false.
LEMMA CompleteKeeps == ASSUME IInv, NEW w \in Workflows, Complete(w) PROVE IInv'
<1>1. /\ "completed" \in Statuses /\ server' = [server EXCEPT ![w] = "completed"]
      /\ server[w] = "pending"
      /\ UNCHANGED <<ui, key, session, history, calls, current, intent, drain, away>>
  BY DEF Statuses, Terminal, Complete
<1>2. NoResurrection' /\ ShownIsSaved' /\ PollsBounded' /\ Named'
  BY <1>1, ApiKeeps DEF Terminal
<1>3. TypeOK' /\ ShownIsTrue' /\ Truthful' BY InvariantIsHonest, CompleteHonest DEF Honest
<1>4. Commanded' /\ Counted'
  BY <1>1 DEF IInv, Commanded, Expected, Pending, Counted, Unsaved, history
<1>5. QED BY <1>2, <1>3, <1>4 DEF IInv

\* An answer of the API changes neither tokens nor counters.
LEMMA ServeKeeps == ASSUME IInv, NEW c \in calls, Serve(c) PROVE IInv'
<1>1. c \in Calls /\ c.wf \in Workflows BY DEF IInv, TypeOK, Truthful
<1>2. UNCHANGED <<ui, key, session, history, current, intent, drain, away>> BY DEF Serve
<1>3. PICK status \in Statuses, answer \in Answers :
         /\ server' = [server EXCEPT ![c.wf] = status]
         /\ server[c.wf] \in Terminal => status = server[c.wf]
         /\ server[c.wf] = "pending" => status \in {"pending"} \cup Terminal
         /\ status # "unknown"
         /\ calls' = (calls \ {c}) \cup {[c EXCEPT !.answer = answer]}
  BY ServedFacts DEF IInv
<1>4. NoResurrection' /\ ShownIsSaved' /\ PollsBounded' /\ Named' BY <1>1, <1>2, <1>3, ApiKeeps
<1>5. TypeOK' /\ ShownIsTrue' /\ Truthful' BY InvariantIsHonest, ServeHonest DEF Honest
<1>6. DEFINE served == [c EXCEPT !.answer = answer]
<1>7. /\ served.cmd = c.cmd /\ served.wf = c.wf /\ served.attempts = c.attempts
      /\ served.fresh = c.fresh /\ served.live = c.live
  BY <1>1, <1>3 DEF Calls
<1>8. calls' = (calls \ {c}) \cup {served} BY <1>3
<1>9. HIDE DEF served
<1>10. Commanded'
  <2>1. \A d \in calls' : d.fresh => Expected(d)'
    BY <1>2, <1>7, <1>8 DEF IInv, Commanded, Expected, Pending
  <2>2. \A d, e \in calls' : d.fresh /\ e.fresh => d = e BY <1>7, <1>8 DEF IInv, Commanded
  <2>3. \A d \in calls' : d.cmd = "cancel" => d.fresh /\ d.live BY <1>7, <1>8 DEF IInv, Commanded
  <2>4. ui'.kind = "cancelling" => \E d \in calls' : d.cmd = "cancel"
    BY <1>2, <1>7, <1>8 DEF IInv, Commanded
  <2>5. QED BY <2>1, <2>2, <2>3, <2>4 DEF Commanded
<1>11. Counted'
  <2>1. Unsaved' = Unsaved BY <1>2, <1>7, <1>8 DEF Unsaved
  <2>2. \A d \in calls' : d.attempts <= MaxAttempts /\ (d.cmd = "cancel" => polls <= d.attempts + loads)
    BY <1>7, <1>8 DEF IInv, Counted
  <2>3. QED BY <1>2, <2>1, <2>2 DEF IInv, Counted, Pending, history
<1>12. QED BY <1>4, <1>5, <1>10, <1>11 DEF IInv

\* What an ended call leaves of the calls.
LEMMA HandleCalls ==
    ASSUME IInv, NEW c \in calls, Handle(c)
    PROVE  /\ calls' = calls \ {c} /\ calls' \subseteq Calls /\ drain' \in BOOLEAN
           /\ UNCHANGED <<away, key, server, loads>>
           /\ Truthful' /\ Known' = Known
<1>1. calls' = calls \ {c} /\ drain' = c.fresh /\ UNCHANGED <<away, key, server, loads>> BY DEF Handle
<1>2. c \in Calls BY DEF IInv, TypeOK
<1>3. calls' \subseteq Calls BY <1>1 DEF IInv, TypeOK
<1>4. Truthful' /\ Known' = Known BY <1>1 DEF IInv, Truthful, Known
<1>5. QED BY <1>1, <1>2, <1>3, <1>4 DEF Calls

\* The answer of a call that is out of date changes nothing, nor does a replay's.
LEMMA OutdatedAnswerKeeps ==
    ASSUME IInv, NEW c \in calls, Handle(c), ~c.fresh \/ c.cmd = "replay"
    PROVE  IInv'
<1>1. /\ calls' = calls \ {c} /\ calls' \subseteq Calls /\ drain' \in BOOLEAN
      /\ UNCHANGED <<away, key, server, loads>> /\ Truthful' /\ Known' = Known
  BY HandleCalls
<1>2. c.cmd # "cancel"
  <2>1. c.cmd = "cancel" => c.fresh BY DEF IInv, Commanded
  <2>2. QED BY <2>1
<1>3. UNCHANGED <<ui, current, intent, session, abandoned, polls>>
  BY <1>2 DEF Handle, Answered, Settle, ReplayAnswered, ResultRecovered, CancelAnswered
<1>4. TypeOK' BY <1>1, <1>3 DEF IInv, TypeOK
<1>5. Commanded' BY <1>1, <1>2, <1>3 DEF IInv, Commanded, Expected, Pending
<1>6. Counted'
  <2>1. Unsaved' = Unsaved
    <3>1. ~c.fresh \/ c.cmd # "poll" OBVIOUS
    <3>2. QED BY <1>1, <1>3, <3>1 DEF Unsaved
  <2>2. QED BY <1>1, <1>3, <2>1 DEF IInv, Counted, Pending
<1>7. NoResurrection' /\ ShownIsSaved' /\ ShownIsTrue' /\ PollsBounded' /\ Named'
  BY <1>1, <1>3 DEF IInv, NoResurrection, ShownIsSaved, ShownIsTrue, PollsBounded, Named
<1>8. QED BY <1>1, <1>4, <1>5, <1>6, <1>7 DEF IInv

\* After the active command's answer no call is active and no cancel in flight.
LEMMA FreshCalls ==
    ASSUME IInv, NEW c \in calls, Handle(c), c.fresh
    PROVE  /\ \A d \in calls' : ~d.fresh /\ d.cmd # "cancel" /\ d.attempts <= MaxAttempts
           /\ Expected(c) /\ c.wf \in Workflows /\ c.wf # NoWorkflow
<1>1. calls' = calls \ {c} BY DEF Handle
<1>2. \A d \in calls' : ~d.fresh /\ d.cmd # "cancel" /\ d.attempts <= MaxAttempts
  BY <1>1 DEF IInv, Commanded, Counted
<1>3. Expected(c) /\ c.wf \in Workflows BY DEF IInv, Commanded, Truthful
<1>4. QED BY <1>2, <1>3, NoWorkflowAssumption

\* The values an answer may leave behind keep the invariant: a pending state
\* with its session, an ended one with its result, or nothing.
LEMMA FreshAnswerKeeps ==
    ASSUME IInv, NEW c \in calls, Handle(c), c.fresh, c.cmd # "replay", current' \in BOOLEAN, intent' \in BOOLEAN,
           ui' \in View(UiKinds), session' \in View({"empty", "pending", "result", "expired"}),
           polls' \in Nat, polls' <= polls, ui'.attempts <= MaxAttempts,
           ui'.kind \notin {"starting", "cancelling"},
           ui'.wf = (IF ui'.kind \in {"idle", "failed"} THEN NoWorkflow ELSE c.wf),
           ui'.kind \in {"pending"} \cup Terminal => c.wf \in Known,
           ui'.kind \in Terminal => server[c.wf] = ui'.kind,
           \/ session' = Empty /\ ui'.kind \notin {"pending", "completed"}
           \/ session' = ui' /\ ui'.kind = "pending" /\ polls' <= ui'.attempts + loads
           \/ session' = Shown("result", c.wf, 0) /\ ui'.kind \in Terminal
           \/ /\ session' = session
              /\ ui'.kind \notin {"pending", "completed"}
              /\ c.cmd \notin {"poll", "cancel"},
           abandoned' = IF session'.wf \in {NoWorkflow, session.wf} THEN abandoned
                        ELSE abandoned \cup ({session.wf} \ {NoWorkflow})
    PROVE  IInv'
<1>1. /\ calls' = calls \ {c} /\ calls' \subseteq Calls /\ drain' \in BOOLEAN
      /\ UNCHANGED <<away, key, server, loads>> /\ Truthful' /\ Known' = Known
  BY HandleCalls
<1>2. /\ \A d \in calls' : ~d.fresh /\ d.cmd # "cancel" /\ d.attempts <= MaxAttempts
      /\ Expected(c) /\ c.wf \in Workflows /\ c.wf # NoWorkflow
  BY FreshCalls
<1>3. abandoned' \subseteq Workflows /\ abandoned \subseteq abandoned'
      /\ \A w \in abandoned' : w \in abandoned \/ (w = session.wf /\ w # NoWorkflow /\ session'.wf # w)
  BY DEF IInv, TypeOK, View, Ids
<1>4. TypeOK' BY <1>1, <1>3 DEF IInv, TypeOK
<1>5. Commanded' BY <1>2 DEF Commanded
<1>6. Counted' /\ PollsBounded'
  <2>1. ~Unsaved' BY <1>2 DEF Unsaved
  <2>2. session'.attempts <= MaxAttempts BY BoundsAssumption DEF IInv, Counted, Empty, Shown
  <2>3. ui'.kind = "pending" => polls' <= ui'.attempts + loads
    BY DEF Terminal
  <2>4. session'.kind = "pending" => polls' <= session'.attempts + loads
    <3>1. CASE session' = session /\ c.cmd \notin {"poll", "cancel"}
      <4>1. ui.kind # "cancelling" BY <1>2, <3>1 DEF IInv, Commanded
      <4>2. ~Unsaved BY <3>1, <4>1 DEF IInv, Commanded, Unsaved
      <4>3. session.kind = "pending" => polls <= session.attempts + loads
        BY <4>2 DEF IInv, TypeOK, View, Counted
      <4>4. QED BY <3>1, <4>3 DEF IInv, TypeOK, View
    <3>2. CASE session' = ui' /\ polls' <= ui'.attempts + loads BY <3>2
    <3>3. CASE session' = Empty \/ session' = Shown("result", c.wf, 0) BY <3>3 DEF Empty, Shown
    <3>4. QED BY <3>1, <3>2, <3>3
  <2>5. PollsBounded' BY <1>1, BoundsAssumption DEF IInv, TypeOK, PollsBounded
  <2>6. QED BY <1>1, <1>2, <2>1, <2>2, <2>3, <2>4, <2>5 DEF Counted, Pending, IInv, TypeOK, View
<1>7. session'.wf \in {NoWorkflow, c.wf, session.wf} BY DEF Empty, Shown, Terminal
<1>8. c.wf \notin abandoned /\ session.wf \notin abandoned BY <1>2 DEF IInv, NoResurrection, Expected
<1>9. NoResurrection'
  <2>1. session'.wf \notin abandoned'
    BY <1>3, <1>7, <1>8, NoWorkflowAssumption DEF IInv, TypeOK
  <2>2. ui'.wf \notin abandoned'
    <3>1. CASE ui'.wf = NoWorkflow BY <1>3, <3>1, NoWorkflowAssumption
    <3>2. CASE ui'.wf = c.wf
      <4>1. session'.wf \in {c.wf, NoWorkflow, session.wf} BY <1>7
      <4>2. session'.wf # session.wf /\ session'.wf # NoWorkflow => session'.wf = c.wf BY <1>7
      <4>3. QED BY <1>3, <1>8, <3>2, <4>2
    <3>3. QED BY <3>1, <3>2
  <2>3. QED BY <2>1, <2>2 DEF NoResurrection
<1>10. ShownIsSaved'
  BY <1>2 DEF IInv, ShownIsSaved, Shown, Terminal
<1>11. ShownIsTrue'
  <2>1. c.wf \in Known => server[c.wf] \notin {"unknown", "issued"} BY DEF Known
  <2>2. session'.kind = "result" => server[session'.wf] \in Terminal
    BY DEF IInv, ShownIsTrue, Empty, Shown
  <2>3. QED BY <1>1, <2>1, <2>2 DEF ShownIsTrue, Terminal
<1>12. Named'
  <2>1. session'.kind = "empty" <=> session'.wf = NoWorkflow
    BY <1>2 DEF IInv, Named, Empty, Shown
  <2>2. session'.kind # "empty" => session'.wf \in Known
    BY DEF IInv, Named, Empty, Shown, Terminal
  <2>3. \A w \in abandoned' : server[w] # "unknown" BY <1>3 DEF IInv, Named, Known
  <2>4. key \notin abandoned'
    <3>1. session.wf = key /\ key # NoWorkflow => session'.wf \in {session.wf, NoWorkflow}
      <4>1. CASE c.cmd = "start" BY <1>2, <1>7, <4>1 DEF Expected
      <4>2. CASE c.cmd # "start"
        <5>1. c.cmd \in {"poll", "query", "recover", "cancel", "recover-result"}
          BY <4>2 DEF IInv, TypeOK, Calls, Commands
        <5>2. session.wf = c.wf BY <1>2, <5>1 DEF IInv, ShownIsSaved, Expected, Pending
        <5>3. QED BY <1>7, <5>2
      <4>3. QED BY <4>1, <4>2
    <3>2. QED BY <1>3, <3>1 DEF IInv, Named
  <2>5. ui'.wf # NoWorkflow => server[ui'.wf] # "unknown"
    BY <1>2 DEF IInv, Named, Expected
  <2>6. ui'.kind \in {"idle", "failed"} <=> ui'.wf = NoWorkflow BY <1>2
  <2>7. ui'.kind \in {"pending", "cancelling"} \cup Terminal => ui'.wf \in Known
    BY DEF Terminal
  <2>8. key # NoWorkflow => server[key] # "unknown" BY DEF IInv, Named
  <2>9. QED BY <1>1, <2>1, <2>2, <2>3, <2>4, <2>5, <2>6, <2>7, <2>8 DEF Named
<1>13. QED BY <1>1, <1>4, <1>5, <1>6, <1>9, <1>10, <1>11, <1>12 DEF IInv

\* Start, poll, query and the recovery of a pending session are settled alike.
LEMMA AnsweredKeeps ==
    ASSUME IInv, NEW c \in calls, Handle(c), c.fresh,
           NEW answer \in {"lost", c.answer} \ {"none"}, Answered(c, answer)
    PROVE  IInv'
<1>1. Expected(c) /\ c.wf \in Workflows /\ c.wf # NoWorkflow BY FreshCalls
<1>2. /\ answer \in {"lost", "pending", "error"} \cup Terminal
      /\ answer = "pending" => c.wf \in Known
      /\ answer \in Terminal => server[c.wf] = answer /\ c.wf \in Known
  BY AnswerFacts DEF IInv
<1>3. /\ ui' = AfterAnswer(c, answer) /\ session' = Persisted(ui')
      /\ polls' = IF c.cmd = "start" THEN 0 ELSE polls
      /\ UNCHANGED <<current, intent>>
      /\ c.cmd \in {"start", "poll", "query", "recover"}
  BY DEF Answered, Settle
<1>4. abandoned' = IF session'.wf \in {NoWorkflow, session.wf} THEN abandoned
                   ELSE abandoned \cup ({session.wf} \ {NoWorkflow})
  BY DEF Answered, Settle
<1>5. /\ ui.kind = (IF c.cmd = "start" THEN "starting" ELSE "pending")
      /\ ui.wf = c.wf /\ Accepts
  BY <1>1, <1>3 DEF Expected, Pending, Accepts
<1>6. ui.attempts \in Nat /\ ui.attempts <= MaxAttempts /\ loads \in Nat /\ polls \in Nat
  BY DEF IInv, TypeOK, View, Counted
<1>7. polls' \in Nat /\ polls' <= polls BY <1>3, <1>6
<1>8. CASE answer = "pending" \/ (answer = "lost" /\ c.cmd # "start")
  <2>1. /\ ui' = Shown("pending", c.wf, ui'.attempts)
        /\ ui'.attempts = IF c.cmd = "start" THEN 0 ELSE ui.attempts
    BY <1>2, <1>3, <1>5, <1>8 DEF AfterAnswer, Terminal, Pending, Shown, IInv, TypeOK, View
  <2>2. ui'.kind = "pending" /\ ui'.wf = c.wf BY <2>1 DEF Shown
  <2>3. session' = ui' BY <1>3, <2>2 DEF Persisted, Terminal
  <2>4. ui'.attempts \in Nat /\ ui'.attempts <= MaxAttempts BY <1>6, <2>1, BoundsAssumption
  <2>5. polls' <= ui'.attempts + loads
    BY <1>3, <1>5, <1>6, <2>1 DEF IInv, Counted, Pending
  <2>6. c.wf \in Known BY <1>2, <1>5, <1>8 DEF IInv, Named
  <2>7. ui' \in View(UiKinds) /\ session' \in View({"empty", "pending", "result", "expired"})
    BY <1>1, <2>1, <2>3, <2>4 DEF Shown, View, UiKinds, Ids
  <2>8. QED BY <1>3, <1>4, <1>7, <2>2, <2>3, <2>4, <2>5, <2>6, <2>7, FreshAnswerKeeps
            DEF IInv, TypeOK, Terminal
<1>9. CASE answer \in Terminal
  <2>1. ui' = Shown(answer, c.wf, 0) BY <1>3, <1>5, <1>9 DEF AfterAnswer, Terminal
  <2>2. ui'.kind = answer /\ ui'.wf = c.wf /\ ui'.attempts = 0 BY <2>1 DEF Shown
  <2>3. session' = Shown("result", c.wf, 0) BY <1>3, <1>9, <2>2 DEF Persisted, Terminal
  <2>4. ui' \in View(UiKinds) /\ session' \in View({"empty", "pending", "result", "expired"})
    BY <1>1, <1>9, <2>1, <2>3 DEF Shown, View, UiKinds, Ids
  <2>5. QED BY <1>2, <1>3, <1>4, <1>7, <1>9, <2>2, <2>3, <2>4, FreshAnswerKeeps, BoundsAssumption
            DEF IInv, TypeOK, Terminal
<1>10. CASE answer = "error"
  <2>1. ui' = Shown("failed", NoWorkflow, 0) BY <1>3, <1>5, <1>10 DEF AfterAnswer, Terminal
  <2>2. ui'.kind = "failed" /\ ui'.wf = NoWorkflow /\ ui'.attempts = 0 BY <2>1 DEF Shown
  <2>3. session' = Empty BY <1>3, <2>2 DEF Persisted, Terminal
  <2>4. ui' \in View(UiKinds) /\ session' \in View({"empty", "pending", "result", "expired"})
    BY <2>1, <2>3 DEF Shown, Empty, View, UiKinds, Ids
  <2>5. QED BY <1>3, <1>4, <1>7, <2>2, <2>3, <2>4, FreshAnswerKeeps, BoundsAssumption
            DEF IInv, TypeOK, Terminal
<1>11. CASE answer = "lost" /\ c.cmd = "start"
  <2>1. ui' = Idle BY <1>3, <1>5, <1>11 DEF AfterAnswer, Terminal
  <2>2. ui'.kind = "idle" /\ ui'.wf = NoWorkflow /\ ui'.attempts = 0 BY <2>1 DEF Idle, Shown
  <2>3. session' = session BY <1>3, <2>2 DEF Persisted, Terminal
  <2>4. ui' \in View(UiKinds) /\ session' \in View({"empty", "pending", "result", "expired"})
    BY <2>1, <2>3 DEF Idle, Shown, View, UiKinds, Ids, IInv, TypeOK
  <2>5. QED BY <1>3, <1>4, <1>7, <1>11, <2>2, <2>3, <2>4, FreshAnswerKeeps, BoundsAssumption
            DEF IInv, TypeOK, Terminal
<1>12. QED BY <1>2, <1>8, <1>9, <1>10, <1>11

\* The recovery of a result shows it, or gives up and shows nothing.
LEMMA ResultRecoveredKeeps ==
    ASSUME IInv, NEW c \in calls, Handle(c), c.fresh,
           NEW answer \in {"lost", c.answer} \ {"none"}, ResultRecovered(c, answer)
    PROVE  IInv'
<1>1. Expected(c) /\ c.wf \in Workflows /\ c.wf # NoWorkflow BY FreshCalls
<1>2. /\ answer \in {"lost", "pending", "error"} \cup Terminal
      /\ answer \in Terminal => server[c.wf] = answer /\ c.wf \in Known
  BY AnswerFacts DEF IInv
<1>3. c.cmd = "recover-result" /\ UNCHANGED <<current, intent, abandoned, polls>>
  BY DEF ResultRecovered
<1>4. ui.wf = c.wf /\ session.wf = c.wf /\ Accepts BY <1>1, <1>3 DEF Expected, Accepts
<1>5. polls' \in Nat /\ polls' <= polls BY <1>3 DEF IInv, TypeOK
<1>6. CASE answer \in Terminal
  <2>1. ui' = Shown(answer, c.wf, 0) BY <1>3, <1>4, <1>6 DEF ResultRecovered, AfterAnswer, Terminal
  <2>2. ui'.kind = answer /\ ui'.wf = c.wf /\ ui'.attempts = 0 BY <2>1 DEF Shown
  <2>3. session' = Shown("result", c.wf, 0)
    BY <1>3, <1>6, <2>2 DEF ResultRecovered, Persisted, Terminal
  <2>4. ui' \in View(UiKinds) /\ session' \in View({"empty", "pending", "result", "expired"})
    BY <1>1, <1>6, <2>1, <2>3 DEF Shown, View, UiKinds, Ids
  <2>5. session'.wf = session.wf BY <1>4, <2>3 DEF Shown
  <2>6. QED BY <1>2, <1>3, <1>5, <1>6, <2>2, <2>3, <2>4, <2>5, FreshAnswerKeeps, BoundsAssumption
            DEF IInv, TypeOK, Terminal
<1>7. CASE answer \notin Terminal
  <2>1. ui' = Idle /\ session' \in {session, Empty} BY <1>3, <1>4, <1>7 DEF ResultRecovered
  <2>2. ui'.kind = "idle" /\ ui'.wf = NoWorkflow /\ ui'.attempts = 0 BY <2>1 DEF Idle, Shown
  <2>3. ui' \in View(UiKinds) /\ session' \in View({"empty", "pending", "result", "expired"})
    BY <2>1 DEF Idle, Empty, Shown, View, UiKinds, Ids, IInv, TypeOK
  <2>4. session'.wf \in {NoWorkflow, session.wf} BY <2>1 DEF Empty, Shown
  <2>5. QED BY <1>3, <1>5, <2>1, <2>2, <2>3, <2>4, FreshAnswerKeeps, BoundsAssumption
            DEF IInv, TypeOK, Terminal
<1>8. QED BY <1>6, <1>7

\* A cancel that did not succeed restores the pending state it started from.
LEMMA CancelAnsweredKeeps ==
    ASSUME IInv, NEW c \in calls, Handle(c), c.fresh,
           NEW answer \in {"lost", c.answer} \ {"none"}, CancelAnswered(c, answer)
    PROVE  IInv'
<1>1. Expected(c) /\ c.wf \in Workflows /\ c.wf # NoWorkflow BY FreshCalls
<1>2. answer \in Terminal => server[c.wf] = answer /\ c.wf \in Known BY AnswerFacts DEF IInv
<1>3. c.cmd = "cancel" /\ c.live /\ UNCHANGED <<abandoned, polls>>
  BY DEF CancelAnswered, IInv, Commanded
<1>4. /\ ui.wf = c.wf /\ session.wf = c.wf /\ Accepts /\ c.wf \in Known
  BY <1>1, <1>3 DEF Expected, Accepts, IInv, ShownIsSaved, Named
<1>5. polls' \in Nat /\ polls' <= polls BY <1>3 DEF IInv, TypeOK
<1>6. CASE answer = "cancelled"
  <2>1. ui' = Shown("cancelled", c.wf, 0) /\ session' = Empty /\ UNCHANGED <<current, intent>>
    BY <1>4, <1>6 DEF CancelAnswered, AfterAnswer, Terminal
  <2>2. ui'.kind = "cancelled" /\ ui'.wf = c.wf /\ ui'.attempts = 0 BY <2>1 DEF Shown
  <2>3. ui' \in View(UiKinds) /\ session' \in View({"empty", "pending", "result", "expired"})
    BY <1>1, <2>1 DEF Empty, Shown, View, UiKinds, Ids, Terminal
  <2>4. session'.wf = NoWorkflow BY <2>1 DEF Empty, Shown
  <2>5. QED BY <1>2, <1>3, <1>5, <1>6, <2>1, <2>2, <2>3, <2>4, FreshAnswerKeeps, BoundsAssumption
            DEF IInv, TypeOK, Terminal
<1>7. CASE answer # "cancelled"
  <2>1. /\ ui' = Shown("pending", c.wf, c.attempts) /\ session' = ui'
        /\ current' = c.fresh /\ intent' = TRUE
    BY <1>3, <1>7 DEF CancelAnswered
  <2>2. ui'.kind = "pending" /\ ui'.wf = c.wf /\ ui'.attempts = c.attempts BY <2>1 DEF Shown
  <2>3. c.attempts \in Nat /\ c.attempts <= MaxAttempts /\ polls <= c.attempts + loads
    BY <1>3 DEF IInv, TypeOK, Calls, Counted
  <2>4. ui' \in View(UiKinds) /\ session' \in View({"empty", "pending", "result", "expired"})
    BY <1>1, <2>1, <2>3 DEF Shown, View, UiKinds, Ids
  <2>5. session'.wf = session.wf BY <1>4, <2>1, <2>2
  <2>6. polls' <= ui'.attempts + loads BY <1>3, <2>2, <2>3
  <2>7. QED BY <1>3, <1>4, <1>5, <2>1, <2>2, <2>3, <2>4, <2>5, <2>6, FreshAnswerKeeps
            DEF IInv, TypeOK, Terminal
<1>8. QED BY <1>6, <1>7

\* Every answer, of an active command or of an outdated call.
LEMMA HandleKeeps == ASSUME IInv, NEW c \in calls, Handle(c) PROVE IInv'
<1>1. PICK answer \in {"lost", c.answer} \ {"none"} :
         \/ Answered(c, answer)
         \/ ReplayAnswered(c, answer)
         \/ ResultRecovered(c, answer)
         \/ CancelAnswered(c, answer)
  BY DEF Handle
<1>2. CASE ~c.fresh \/ c.cmd = "replay" BY <1>2, OutdatedAnswerKeeps
<1>3. CASE c.fresh /\ c.cmd # "replay"
  <2>1. ~ReplayAnswered(c, answer) BY <1>3 DEF ReplayAnswered
  <2>2. QED BY <1>1, <1>3, <2>1, AnsweredKeeps, ResultRecoveredKeeps, CancelAnsweredKeeps
<1>4. QED BY <1>2, <1>3

-----------------------------------------------------------------------------

\* A fresh controller with an empty store.
LEMMA InitHolds == Init => IInv
<1>1. ASSUME Init PROVE IInv
  <2>1. TypeOK
    BY <1>1 DEF Init, TypeOK, Idle, Empty, Shown, View, UiKinds, Ids
  <2>2. NoResurrection /\ ShownIsSaved /\ ShownIsTrue /\ PollsBounded
    BY <1>1, BoundsAssumption
    DEF Init, NoResurrection, ShownIsSaved, ShownIsTrue, PollsBounded, Idle, Empty, Shown, Terminal
  <2>3. Named BY <1>1 DEF Init, Named, Idle, Empty, Shown, Terminal
  <2>4. Truthful /\ Commanded /\ Counted
    BY <1>1, BoundsAssumption DEF Init, Truthful, Commanded, Counted, Pending, Idle, Empty, Shown
  <2>5. QED BY <2>1, <2>2, <2>3, <2>4 DEF IInv
<1>2. QED BY <1>1

\* The invariant speaks of the variables only.
LEMMA StutterKeeps == ASSUME IInv, UNCHANGED vars PROVE IInv'
<1>1. TypeOK' /\ Named' /\ Truthful' BY DEF IInv, TypeOK, Named, Known, Truthful, vars
<1>2. Commanded' /\ Counted'
  BY DEF IInv, Commanded, Expected, Counted, Unsaved, Pending, vars
<1>3. NoResurrection' /\ ShownIsSaved' /\ ShownIsTrue' /\ PollsBounded'
  BY DEF IInv, NoResurrection, ShownIsSaved, ShownIsTrue, PollsBounded, vars
<1>4. QED BY <1>1, <1>2, <1>3 DEF IInv

\* One case for each action of Next.
LEMMA NextKeeps == ASSUME IInv, [Next]_vars, ~CancelsOutlived PROVE IInv'
<1>1. CASE Start BY <1>1, StartKeeps
<1>2. CASE Poll BY <1>2, PollKeeps
<1>3. CASE QueryResult \/ DrainReconcileIntent \/ (\E reason \in Reasons : ResumePolling(reason))
  BY <1>3, QueryKeeps
<1>4. CASE Replay BY <1>4, ReplayKeeps
<1>5. CASE Cancel BY <1>5, CancelKeeps
<1>6. CASE \E reason \in Reasons : PausePolling(reason) BY <1>6, PauseKeeps
<1>7. CASE Recover BY <1>7, RecoverKeeps
<1>8. CASE Reset \/ Remount \/ Reload BY <1>8, ClearedKeeps
<1>9. CASE Expire BY <1>9, ExpireKeeps
<1>10. CASE \E c \in calls : Handle(c) BY <1>10, HandleKeeps
<1>11. CASE \E c \in calls : Serve(c) BY <1>11, ServeKeeps
<1>12. CASE \E w \in Workflows : Complete(w) BY <1>12, CompleteKeeps
<1>13. CASE UNCHANGED vars BY <1>13, StutterKeeps
<1>14. QED
  BY <1>1, <1>2, <1>3, <1>4, <1>5, <1>6, <1>7, <1>8, <1>9, <1>10, <1>11, <1>12, <1>13 DEF Next

\* The inductive invariant of the controller: what is shown, saved, answered and
\* counted fits together at every step, unless a cancel is outlived.
THEOREM Invariance == ~CancelsOutlived /\ Spec => []IInv
<1>1. SUFFICES ASSUME ~CancelsOutlived PROVE Spec => []IInv OBVIOUS
<1>2. IInv /\ [Next]_vars => IInv' BY <1>1, NextKeeps
<1>3. QED BY <1>2, InitHolds, PTL DEF Spec

\* The invariant of every controller, whatever outlives what: no untrue state is
\* shown, saved or brought by an answer.
THEOREM Honesty == Spec => []Honest
<1>1. ASSUME Init PROVE Honest
  <2>1. TypeOK
    BY <1>1 DEF Init, TypeOK, Idle, Empty, Shown, View, UiKinds, Ids
  <2>2. ShownIsTrue /\ Grounded /\ Truthful
    BY <1>1 DEF Init, ShownIsTrue, Grounded, Truthful, Idle, Empty, Shown, Terminal
  <2>3. QED BY <2>1, <2>2 DEF Honest
<1>2. ASSUME Honest, [Next]_vars PROVE Honest'
  <2>1. CASE Start BY <1>2, <2>1, StartHonest
  <2>2. CASE \/ Poll \/ Replay \/ Cancel \/ Recover
             \/ QueryResult \/ DrainReconcileIntent \/ (\E reason \in Reasons : ResumePolling(reason))
    BY <1>2, <2>2, CommandHonest
  <2>3. CASE \/ \E reason \in Reasons : PausePolling(reason)
             \/ Reset \/ Remount \/ Reload \/ Expire \/ UNCHANGED vars
    BY <1>2, <2>3, QuietHonest
  <2>4. CASE \E c \in calls : Handle(c) BY <1>2, <2>4, HandleHonest
  <2>5. CASE \E c \in calls : Serve(c) BY <1>2, <2>5, ServeHonest
  <2>6. CASE \E w \in Workflows : Complete(w) BY <1>2, <2>6, CompleteHonest
  <2>7. QED BY <1>2, <2>1, <2>2, <2>3, <2>4, <2>5, <2>6 DEF Next
<1>3. QED BY <1>1, <1>2, PTL DEF Spec

\* Every state of the controller, its store and its calls has its type, whether
\* or not a cancel is outlived.
THEOREM TypeCorrect == Spec => []TypeOK
<1>1. Honest => TypeOK BY DEF Honest
<1>2. QED BY <1>1, Honesty, PTL

\* No answer brings back a workflow that was reset or replaced.
THEOREM NoResurrectionHolds == ~CancelsOutlived /\ Spec => []NoResurrection
<1>1. IInv => NoResurrection BY DEF IInv
<1>2. QED BY <1>1, Invariance, PTL

\* The session store always has what is shown.
THEOREM ShownIsSavedHolds == ~CancelsOutlived /\ Spec => []ShownIsSaved
<1>1. IInv => ShownIsSaved BY DEF IInv
<1>2. QED BY <1>1, Invariance, PTL

\* What is shown as ended has ended so, with every order of resets, unmounts,
\* cancels and answers that the code allows.
THEOREM ShownIsTrueHolds == Spec => []ShownIsTrue
<1>1. Honest => ShownIsTrue BY DEF Honest
<1>2. QED BY <1>1, Honesty, PTL

\* The poll budget is kept but for one poll in flight per page load.
THEOREM PollsBoundedHolds == ~CancelsOutlived /\ Spec => []PollsBounded
<1>1. IInv => PollsBounded BY DEF IInv
<1>2. QED BY <1>1, Invariance, PTL
=============================================================================
