--------------------- MODULE PostgresTransactionsProofs ---------------------
(***************************************************************************)
(* Proofs about PostgresTransactions for any number of runs, any capacity  *)
(* and any number of statements.  The inductive invariant:                 *)
(*   Placed   which connection a run has at each place;                    *)
(*   Stored   what the server has of it at each place, and what its answer *)
(*            says about that;                                             *)
(*   Closing  what the close of the pool leaves of its state.              *)
(***************************************************************************)
EXTENDS PostgresTransactions, TLAPS

Unopened == {"idle", "queued", "connecting"}
Opening  == {"begin", "beginning"}
Inside   == {"work", "querying", "commit", "committing", "rollback", "rolling-back"}
Over     == {"hooks", "done"}

\* What holds of a client wherever its run stands.
Sound(c) ==
    /\ c.conn \in {"none", "unknown", "discarded"} => c.link = "down"
    /\ c.conn \in {"checked-out", "transaction-active"} => c.link = "up"

\* The connection of a run, by its place.
Placed(place, c) ==
    /\ Sound(c)
    /\ place \in Unopened => c = NoClient
    /\ place \in Opening => c.conn \in {"checked-out", "unknown", "discarded"}
    /\ place \in Inside => c.conn \in {"transaction-active", "unknown", "discarded"}
    /\ place \in Inside /\ c.tx = "released" => c.conn = "discarded"
    /\ place \in {"work", "querying", "commit"} => c.tx \in {"active", "released"}
    /\ place = "rollback" => c.tx \in {"active", "failed", "released"}
    /\ place \in Over => c.conn \notin Held

AllPlaced == \A r \in Runs : Placed(pc[r], client[r])

Stored(r) ==
    /\ pc[r] \in Unopened \cup Opening => db[r] = "none" /\ wire[r] \in {"nothing", "BEGIN"}
    /\ client[r].link = "up" =>
          /\ pc[r] \in {"work", "commit"} => db[r] = "open" /\ wire[r] = "nothing"
          /\ pc[r] = "querying" => db[r] = "open" /\ wire[r] = "query"
          /\ pc[r] = "rollback" => db[r] \in {"open", "aborted"} /\ wire[r] = "nothing"
          /\ pc[r] = "rolling-back" => \/ db[r] \in {"open", "aborted"} /\ wire[r] = "ROLLBACK"
                                       \/ db[r] = "rolled-back" /\ wire[r] = "nothing"
          /\ pc[r] = "committing" => \/ db[r] = "open" /\ wire[r] = "COMMIT"
                                     \/ db[r] \in {"committed", "rolled-back"} /\ wire[r] = "nothing"
          /\ pc[r] \in Over => db[r] \in {"none", "committed", "rolled-back"} /\ wire[r] = "nothing"
    /\ wire[r] = "COMMIT" => pc[r] = "committing" \/ result[r] = "unknown"
    /\ db[r] = "committed" => pc[r] \in {"committing", "hooks"} \/ result[r] \in {"committed", "unknown"}
    /\ pc[r] = "hooks" \/ result[r] = "committed" => db[r] = "committed"
    /\ result[r] = "nothing" <=> pc[r] # "done"
    /\ pc[r] = "querying" => stage[r] < Statements
    /\ kind[r] = "owner" /\ (pc[r] \in {"commit", "committing"} \/ wire[r] = "COMMIT" \/ db[r] = "committed")
          => stage[r] = Statements

AllStored == \A r \in Runs : Stored(r)

Closing ==
    /\ runtime = "created" => startup = "none"
    /\ closer = "none" => pool # "draining"
    /\ closer # "none" => pool \in {"draining", "closed"} /\ startup \notin {"none", "connector", "running", "settled"}

----------------------------------------------------------------------------
\* The adapters keep a client's type, and that its state agrees with its link.
LEMMA AdapterTypes ==
    ASSUME NEW c \in Clients
    PROVE  /\ ConnRelease(c) \in Clients
           /\ ConnDiscard(c) \in Clients
           /\ TxUnknown(c) \in Clients
           /\ TxRelease(c) \in Clients
           /\ BridgeRelease(c) \in Clients
           /\ CleanUp(c) \in Clients
<1> USE DEF Clients, Held, Reuse
<1>1. ConnRelease(c) \in Clients
  BY DEF ConnRelease
<1>2. ConnDiscard(c) \in Clients
  BY DEF ConnDiscard
<1>3. TxUnknown(c) \in Clients
  BY <1>2 DEF TxUnknown
<1>4. TxRelease(c) \in Clients
  BY <1>1, <1>2 DEF TxRelease
<1>5. BridgeRelease(c) \in Clients
  BY <1>1, <1>2 DEF BridgeRelease
<1> QED BY <1>1, <1>2, <1>3, <1>4, <1>5 DEF CleanUp

\* A client that is given back by any caller after a rollback.
LEMMA RollbackGivesBack ==
    ASSUME NEW r \in Runs, kind[r] \in Kinds, NEW c \in Clients, Sound(c),
           c.conn \in Held \cup {"discarded"},
           \/ c.conn = "discarded"
           \/ c.conn = "checked-out" /\ c.tx = "rolled-back" /\ c.reuse = "safe-to-reuse"
    PROVE  /\ AfterRollback(r, c) \in Clients /\ Sound(AfterRollback(r, c))
           /\ AfterRollback(r, c).conn \notin Held
           /\ AfterRollback(r, c).link = c.link
BY AdapterTypes DEF AfterRollback, TxRelease, BridgeRelease, CleanUp, ConnRelease, ConnDiscard,
   Clients, Held, Reuse, Sound, Kinds

\* ... and after a commit.
LEMMA CommitGivesBack ==
    ASSUME NEW r \in Runs, kind[r] \in Kinds, NEW c \in Clients, Sound(c),
           \/ c.conn = "discarded"
           \/ c.conn = "checked-out" /\ c.tx = "committed" /\ c.reuse = "safe-to-reuse"
    PROVE  /\ AfterCommit(r, c) \in Clients /\ Sound(AfterCommit(r, c))
           /\ AfterCommit(r, c).conn \notin Held
           /\ AfterCommit(r, c).link = c.link
BY AdapterTypes DEF AfterCommit, TxRelease, BridgeRelease, CleanUp, ConnRelease, ConnDiscard,
   Clients, Held, Reuse, Sound, Kinds

\* ... and after a BEGIN that failed.
LEMMA BeginGivesBack ==
    ASSUME NEW r \in Runs, NEW c \in Clients, Sound(c),
           c.conn \in {"checked-out", "unknown", "discarded"}
    PROVE  /\ AfterBeginFailure(r, c) \in Clients /\ Sound(AfterBeginFailure(r, c))
           /\ AfterBeginFailure(r, c).conn \notin Held
BY AdapterTypes DEF AfterBeginFailure, BridgeRelease, ConnRelease, ConnDiscard,
   Clients, Held, Reuse, Sound

\* discard(), by what the connection was.
LEMMA Discarded ==
    ASSUME NEW c \in Clients, Sound(c)
    PROVE  /\ ConnDiscard(c) \in Clients /\ Sound(ConnDiscard(c))
           /\ ConnDiscard(c).conn \notin Held
           /\ c.conn \in Held => ConnDiscard(c).conn = "discarded" /\ ConnDiscard(c).link = "down"
           /\ c.conn \notin Held => ConnDiscard(c) = c
           /\ c.tx \in {"active", "released"} => ConnDiscard(c).tx \in {"active", "released"}
           /\ c.tx \in {"active", "failed", "released"} => ConnDiscard(c).tx \in {"active", "failed", "released"}
BY AdapterTypes DEF ConnDiscard, Clients, Held, Reuse, Sound

\* The transaction adapter's own end, after COMMIT or ROLLBACK threw.
LEMMA Unknown ==
    ASSUME NEW c \in Clients, Sound(c), c.conn \in Held \cup {"discarded"}
    PROVE  /\ TxUnknown(c) \in Clients /\ Sound(TxUnknown(c))
           /\ TxUnknown(c).conn = "discarded" /\ TxUnknown(c).link = "down"
<1>1. CASE c.conn \in Held
  BY <1>1, Discarded DEF TxUnknown
<1>2. CASE c.conn = "discarded"
  <2>1. c.conn \notin Held
    BY <1>2 DEF Held
  <2>2. TxUnknown(c) = [c EXCEPT !.tx = "unknown", !.reuse = "must-discard"]
    BY <2>1 DEF TxUnknown
  <2> QED BY <1>2, <2>2 DEF Clients, Reuse, Sound
<1> QED BY <1>1, <1>2

----------------------------------------------------------------------------
Moves(r, place, c) ==
    /\ pc' = [pc EXCEPT ![r] = place]
    /\ client' = [client EXCEPT ![r] = c]

\* What a step of a run does to its place and its connection.
LEMMA RunMoves ==
    ASSUME TypeOK, AllPlaced, NEW r \in Runs, RunNext(r)
    PROVE  \E place \in Places, c \in Clients : Moves(r, place, c) /\ Placed(place, c)
<1> DEFINE c == client[r]
<1>1. /\ c \in Clients /\ Sound(c) /\ kind[r] \in Kinds /\ pc[r] \in Places /\ Placed(pc[r], c)
  BY DEF TypeOK, AllPlaced, Placed
<1>2. client = [client EXCEPT ![r] = c] /\ pc = [pc EXCEPT ![r] = pc[r]]
  BY DEF TypeOK
<1>0. pc[r] \in Unopened => c.conn = "none"
  BY <1>1 DEF Placed, NoClient
<1> HIDE DEF c
<1> USE DEF Places, Unopened, Opening, Inside, Over, Placed, Moves, Goto, Answer, SetClient, NoClient
<1>3. CASE Checkout(r)
  <2>1. Moves(r, "queued", c) \/ Moves(r, "done", c)
    BY <1>2, <1>3 DEF Checkout
  <2>2. Placed("queued", c) /\ Placed("done", c)
    BY <1>0, <1>1, <1>3 DEF Checkout, Held, Sound
  <2> QED BY <1>1, <2>1, <2>2
<1>4. CASE TakeSlot(r)
  <2>1. Moves(r, "connecting", c)
    BY <1>2, <1>4 DEF TakeSlot
  <2>2. Placed("connecting", c)
    BY <1>1, <1>4 DEF TakeSlot
  <2> QED BY <1>1, <2>1, <2>2
<1>5. CASE Connected(r)
  <2> DEFINE d == [NoClient EXCEPT !.conn = "checked-out", !.link = "up"]
  <2>1. Moves(r, "begin", d) \/ Moves(r, "done", c)
    BY <1>1, <1>2, <1>5 DEF Connected, c
  <2>2. d \in Clients /\ Placed("begin", d)
    BY DEF Clients, Held, Reuse, Sound
  <2>3. Placed("done", c)
    BY <1>0, <1>1, <1>5 DEF Connected, Held, Sound
  <2> QED BY <1>1, <2>1, <2>2, <2>3
<1>6. CASE NoConnection(r)
  <2>1. Moves(r, "done", c)
    BY <1>2, <1>6 DEF NoConnection
  <2>2. Placed("done", c)
    BY <1>0, <1>1, <1>6 DEF NoConnection, Held, Sound
  <2> QED BY <1>1, <2>1, <2>2
<1>7. CASE Begin(r)
  <2> DEFINE d == AfterBeginFailure(r, c)
  <2>1. Moves(r, "beginning", c) \/ Moves(r, "done", d)
    BY <1>2, <1>7 DEF Begin, c
  <2>2. Placed("beginning", c)
    BY <1>1, <1>7 DEF Begin
  <2>3. d \in Clients /\ Placed("done", d)
    BY <1>1, <1>7, BeginGivesBack DEF Begin
  <2> QED BY <1>1, <2>1, <2>2, <2>3
<1>8. CASE Begun(r)
  <2> DEFINE d == [c EXCEPT !.conn = "transaction-active", !.tx = "active", !.reuse = "must-rollback-before-reuse"]
  <2>1. Moves(r, "work", d)
    BY <1>8 DEF Begun, c
  <2>2. c.link = "up"
    BY <1>8 DEF Begun, c
  <2>3. d \in Clients /\ Placed("work", d)
    BY <1>1, <2>2 DEF Clients, Held, Reuse, Sound
  <2> QED BY <2>1, <2>3
<1>9. CASE BeginFails(r)
  <2> DEFINE d == AfterBeginFailure(r, c)
  <2>1. Moves(r, "done", d)
    BY <1>9 DEF BeginFails, c
  <2>2. d \in Clients /\ Placed("done", d)
    BY <1>1, <1>9, BeginGivesBack DEF BeginFails
  <2> QED BY <2>1, <2>2
<1>10. CASE Query(r)
  <2>1. Moves(r, "querying", c) \/ Moves(r, "rollback", c) \/ Moves(r, "done", ConnDiscard(c))
    BY <1>2, <1>10 DEF Query, Abandon, c
  <2>2. Placed("querying", c) /\ Placed("rollback", c)
    BY <1>1, <1>10 DEF Query
  <2>3. ConnDiscard(c) \in Clients /\ Placed("done", ConnDiscard(c))
    BY <1>1, Discarded
  <2> QED BY <1>1, <2>1, <2>2, <2>3
<1>11. CASE QuerySucceeds(r)
  <2>1. Moves(r, "work", c)
    BY <1>2, <1>11 DEF QuerySucceeds
  <2>2. Placed("work", c)
    BY <1>1, <1>11 DEF QuerySucceeds
  <2> QED BY <1>1, <2>1, <2>2
<1>12. CASE QueryFails(r)
  <2>1. PICK reuse \in {"must-rollback-before-reuse", "must-discard"} :
            Abandon(r, [c EXCEPT !.tx = "failed", !.reuse = reuse], reuse)
    BY <1>12 DEF QueryFails, c
  <2> DEFINE d == [c EXCEPT !.tx = "failed", !.reuse = reuse]
  <2>2. d \in Clients /\ Sound(d) /\ Placed("rollback", d)
    BY <1>1, <1>12 DEF QueryFails, Clients, Reuse, Sound
  <2>3. Moves(r, "rollback", d) \/ Moves(r, "done", ConnDiscard(d))
    BY <2>1 DEF Abandon
  <2>4. ConnDiscard(d) \in Clients /\ Placed("done", ConnDiscard(d))
    BY <2>2, Discarded
  <2> HIDE DEF d
  <2> QED BY <2>2, <2>3, <2>4
<1>13. CASE Decline(r)
  <2>1. Moves(r, "rollback", c) \/ Moves(r, "done", ConnDiscard(c))
    BY <1>2, <1>13 DEF Decline, Abandon, c
  <2>2. Placed("rollback", c)
    BY <1>1, <1>13 DEF Decline
  <2>3. ConnDiscard(c) \in Clients /\ Placed("done", ConnDiscard(c))
    BY <1>1, Discarded
  <2> QED BY <1>1, <2>1, <2>2, <2>3
<1>14. CASE WorkDone(r)
  <2>1. Moves(r, "commit", c)
    BY <1>2, <1>14 DEF WorkDone
  <2>2. Placed("commit", c)
    BY <1>1, <1>14 DEF WorkDone
  <2> QED BY <1>1, <2>1, <2>2
<1>15. CASE Commit(r)
  <2> DEFINE d == [c EXCEPT !.tx = "committing"]
  <2>1. CASE c.tx = "active"
    <3>1. Moves(r, "committing", d)
      BY <1>15, <2>1 DEF Commit, c
    <3>2. d \in Clients /\ Placed("committing", d)
      BY <1>1, <1>15 DEF Commit, Clients, Sound
    <3> QED BY <3>1, <3>2
  <2>2. CASE c.tx # "active"
    <3>1. Moves(r, "rollback", c) \/ Moves(r, "done", AfterCommit(r, c))
      BY <1>2, <1>15, <2>2 DEF Commit, c
    <3>2. c.conn = "discarded" /\ Placed("rollback", c)
      BY <1>1, <1>15, <2>2 DEF Commit
    <3>3. AfterCommit(r, c) \in Clients /\ Placed("done", AfterCommit(r, c))
      BY <1>1, <3>2, CommitGivesBack
    <3> QED BY <1>1, <3>1, <3>2, <3>3
  <2> QED BY <2>1, <2>2
<1>16. CASE Committed(r)
  <2> DEFINE d == TxFinished(c, "committed")
  <2>1. Moves(r, "hooks", AfterCommit(r, d)) \/ Moves(r, "done", AfterCommit(r, d))
    BY <1>16 DEF Committed, c
  <2>2. d \in Clients /\ Sound(d) /\ d.conn = "checked-out" /\ d.tx = "committed" /\ d.reuse = "safe-to-reuse"
    BY <1>1, <1>16 DEF Committed, TxFinished, Clients, Held, Reuse, Sound, c
  <2> HIDE DEF d
  <2>3. LET e == AfterCommit(r, d) IN e \in Clients /\ Placed("hooks", e) /\ Placed("done", e)
    BY <1>1, <2>2, CommitGivesBack
  <2> QED BY <2>1, <2>3
<1>17. CASE CommitFails(r)
  <2> DEFINE d == TxUnknown(c)
  <2>1. Moves(r, "done", AfterCommit(r, d))
    BY <1>17 DEF CommitFails, c
  <2>2. c.conn \in Held \cup {"discarded"}
    BY <1>1, <1>17 DEF CommitFails, Held
  <2>3. d \in Clients /\ Sound(d) /\ d.conn = "discarded"
    BY <1>1, <2>2, Unknown
  <2> HIDE DEF d
  <2>4. AfterCommit(r, d) \in Clients /\ Placed("done", AfterCommit(r, d))
    BY <1>1, <2>3, CommitGivesBack
  <2> QED BY <2>1, <2>4
<1>18. CASE RunHooks(r)
  <2>1. Moves(r, "done", c)
    BY <1>2, <1>18 DEF RunHooks
  <2>2. Placed("done", c)
    BY <1>1, <1>18 DEF RunHooks
  <2> QED BY <1>1, <2>1, <2>2
<1>19. CASE Rollback(r)
  <2> DEFINE d == [c EXCEPT !.tx = "rolling-back"]
  <2>1. CASE c.tx \in {"active", "failed"}
    <3>1. Moves(r, "rolling-back", d)
      BY <1>19, <2>1 DEF Rollback, c
    <3>2. d \in Clients /\ Placed("rolling-back", d)
      BY <1>1, <1>19 DEF Rollback, Clients, Sound
    <3> QED BY <3>1, <3>2
  <2>2. CASE c.tx \notin {"active", "failed"}
    <3>1. Moves(r, "done", AfterRollback(r, c))
      BY <1>19, <2>2 DEF Rollback, c
    <3>2. c.conn = "discarded"
      BY <1>1, <1>19, <2>2 DEF Rollback
    <3>3. AfterRollback(r, c) \in Clients /\ Placed("done", AfterRollback(r, c))
      BY <1>1, <3>2, RollbackGivesBack
    <3> QED BY <3>1, <3>3
  <2> QED BY <2>1, <2>2
<1>20. CASE RolledBack(r)
  <2> DEFINE d == TxFinished(c, "rolled-back")
  <2>1. Moves(r, "done", AfterRollback(r, d))
    BY <1>20 DEF RolledBack, c
  <2>2. d \in Clients /\ Sound(d) /\ d.conn = "checked-out" /\ d.tx = "rolled-back" /\ d.reuse = "safe-to-reuse"
    BY <1>1, <1>20 DEF RolledBack, TxFinished, Clients, Held, Reuse, Sound, c
  <2> HIDE DEF d
  <2>3. AfterRollback(r, d) \in Clients /\ Placed("done", AfterRollback(r, d))
    BY <1>1, <2>2, RollbackGivesBack DEF Held
  <2> QED BY <2>1, <2>3
<1>21. CASE RollbackFails(r)
  <2> DEFINE d == TxUnknown(c)
  <2>1. Moves(r, "done", AfterRollback(r, d))
    BY <1>21 DEF RollbackFails, c
  <2>2. c.conn \in Held \cup {"discarded"}
    BY <1>1, <1>21 DEF RollbackFails, Held
  <2>3. d \in Clients /\ Sound(d) /\ d.conn = "discarded"
    BY <1>1, <2>2, Unknown
  <2> HIDE DEF d
  <2>4. AfterRollback(r, d) \in Clients /\ Placed("done", AfterRollback(r, d))
    BY <1>1, <2>3, RollbackGivesBack
  <2> QED BY <2>1, <2>4
<1>22. CASE ServerCommits(r)
  <2>1. Moves(r, pc[r], c)
    BY <1>2, <1>22 DEF ServerCommits
  <2> QED BY <1>1, <2>1
<1>23. CASE ServerRollsBack(r)
  <2>1. Moves(r, pc[r], c)
    BY <1>2, <1>23 DEF ServerRollsBack
  <2> QED BY <1>1, <2>1
<1>24. CASE LinkBreaks(r)
  <2> DEFINE d == [c EXCEPT !.conn = "unknown", !.link = "down"]
  <2>1. Moves(r, pc[r], d)
    BY <1>2, <1>24 DEF LinkBreaks, c
  <2>2. d \in Clients
    BY <1>1 DEF Clients, Held
  <2>3. c.conn \in Held /\ c.link = "up"
    BY <1>24 DEF LinkBreaks, c
  <2>4. Placed(pc[r], d)
    BY <1>1, <2>3 DEF Clients, Held, Sound
  <2> QED BY <1>1, <2>1, <2>2, <2>4
<1> QED BY <1>3, <1>4, <1>5, <1>6, <1>7, <1>8, <1>9, <1>10, <1>11, <1>12, <1>13, <1>14, <1>15, <1>16, <1>17, <1>18, <1>19, <1>20, <1>21, <1>22, <1>23, <1>24 DEF RunNext

\* No adapter mends a link, and what it gives up it cuts.
LEMMA AdapterLinks ==
    ASSUME NEW r \in Runs, kind[r] \in Kinds, NEW c \in Clients
    PROVE  /\ ConnDiscard(c).link = "up" => c.link = "up"
           /\ AfterBeginFailure(r, c).link = "up" => c.link = "up"
           /\ AfterCommit(r, c).link = "up" => c.link = "up"
           /\ AfterRollback(r, c).link = "up" => c.link = "up"
<1> USE DEF Clients, Held, Reuse
<1>1. ConnDiscard(c).link = "up" => c.link = "up"
  BY DEF ConnDiscard
<1>2. ConnRelease(c).link = "up" => c.link = "up"
  BY DEF ConnRelease
<1>3. BridgeRelease(c).link = "up" => c.link = "up"
  BY <1>1, <1>2 DEF BridgeRelease
<1>4. TxRelease(c).link = "up" => c.link = "up"
  BY <1>1, <1>2, AdapterTypes DEF TxRelease
<1>5. CleanUp(c).link = "up" => c.link = "up"
  BY <1>1, <1>4 DEF CleanUp
<1> QED BY <1>1, <1>3, <1>4, <1>5 DEF AfterBeginFailure, AfterCommit, AfterRollback, Kinds

\* A statement that may still be sent leaves the count in its range.
LEMMA OneMore == \A n \in 0 .. Statements : n < Statements => n + 1 \in 0 .. Statements
BY StatementsAssumption

\* The state of a transaction adapter is not that of its socket.
LEMMA SameLink == \A c \in Clients : /\ [c EXCEPT !.tx = "committing"].link = c.link
                                    /\ [c EXCEPT !.tx = "rolling-back"].link = c.link
BY DEF Clients

\* What the server and the caller know of a run after a step of it.
LEMMA RunStores ==
    ASSUME TypeOK, AllPlaced, NEW r \in Runs, Stored(r), RunNext(r)
    PROVE  /\ Stored(r)'
           /\ wire' \in [Runs -> {"nothing", "BEGIN", "query", "COMMIT", "ROLLBACK"}]
           /\ db' \in [Runs -> {"none", "open", "aborted", "committed", "rolled-back"}]
           /\ stage' \in [Runs -> 0 .. Statements]
           /\ result' \in [Runs -> Told \cup {"nothing"}]
           /\ \A q \in Runs \ {r} : /\ wire'[q] = wire[q] /\ db'[q] = db[q]
                                     /\ stage'[q] = stage[q] /\ result'[q] = result[q]
           /\ UNCHANGED service
<1> DEFINE c == client[r]
<1>1. /\ c \in Clients /\ Sound(c) /\ kind[r] \in Kinds /\ Placed(pc[r], c)
  BY DEF TypeOK, AllPlaced, Placed
<1>2. /\ wire \in [Runs -> {"nothing", "BEGIN", "query", "COMMIT", "ROLLBACK"}]
      /\ db \in [Runs -> {"none", "open", "aborted", "committed", "rolled-back"}]
      /\ stage \in [Runs -> 0 .. Statements]
      /\ result \in [Runs -> Told \cup {"nothing"}]
      /\ client \in [Runs -> Clients]
      /\ pc \in [Runs -> Places]
      /\ Statements \in Nat
  BY StatementsAssumption DEF TypeOK
<1>2a. /\ c.conn \in {"none", "unknown", "discarded"} => c.link = "down"
       /\ pc[r] \in Unopened => c.link = "down"
       /\ pc[r] \in Inside => ConnDiscard(c).link = "down"
       /\ pc[r] \in {"work", "commit"} /\ c.tx # "active" => c.link = "down"
       /\ pc[r] = "rollback" /\ c.tx \notin {"active", "failed"} => c.link = "down"
  BY <1>1, Discarded DEF Placed, NoClient, Sound, Inside, Held, Unopened
<1>2b. /\ AfterBeginFailure(r, c).link = "up" => c.link = "up"
       /\ AfterCommit(r, c).link = "up" => c.link = "up"
       /\ AfterRollback(r, c).link = "up" => c.link = "up"
  BY <1>1, AdapterLinks
<1> USE <1>1, <1>2 DEF Stored, Goto, Answer, SetClient, Send, Told, service, database,
                        Unopened, Opening, Inside, Over
<1>3. CASE Checkout(r)
  <2>1. pc[r] = "idle" /\ c.link = "down" /\ UNCHANGED <<client, wire, db, stage>> /\ UNCHANGED service
    BY <1>3, <1>2a DEF Checkout
  <2>2. \/ pc' = [pc EXCEPT ![r] = "queued"] /\ UNCHANGED result
        \/ pc' = [pc EXCEPT ![r] = "done"] /\ result' = [result EXCEPT ![r] = "not committed"]
    BY <1>3 DEF Checkout
  <2> QED BY <2>1, <2>2
<1>4. CASE TakeSlot(r)
  BY <1>4 DEF TakeSlot
<1>5. CASE Connected(r)
  <2>1. pc[r] = "connecting" /\ c.link = "down" /\ UNCHANGED <<wire, db, stage>> /\ UNCHANGED service
    BY <1>5, <1>2a DEF Connected
  <2>2. \/ pc' = [pc EXCEPT ![r] = "begin"] /\ UNCHANGED result
        \/ /\ pc' = [pc EXCEPT ![r] = "done"] /\ result' = [result EXCEPT ![r] = "not committed"]
           /\ UNCHANGED client
    BY <1>5 DEF Connected
  <2> QED BY <2>1, <2>2
<1>6. CASE NoConnection(r)
  <2>1. /\ pc[r] \in {"queued", "connecting"} /\ c.link = "down"
        /\ UNCHANGED <<client, wire, db, stage>> /\ UNCHANGED service
    BY <1>6, <1>2a DEF NoConnection
  <2>2. pc' = [pc EXCEPT ![r] = "done"] /\ result' = [result EXCEPT ![r] = "not committed"]
    BY <1>6 DEF NoConnection
  <2> QED BY <2>1, <2>2
<1>7. CASE Begin(r)
  <2>1. CASE c.conn = "checked-out"
    BY <1>7, <2>1 DEF Begin
  <2>2. CASE c.conn # "checked-out"
    <3>1. c.link = "down"
      BY <1>7, <2>2, <1>2a DEF Begin, Placed
    <3>2. client'[r].link # "up"
      BY <1>7, <2>2, <3>1, <1>2b DEF Begin
    <3> QED BY <1>7, <2>2, <3>2 DEF Begin
  <2> QED BY <2>1, <2>2
<1>8. CASE Begun(r)
  BY <1>8 DEF Begun
<1>9. CASE BeginFails(r)
  BY <1>9 DEF BeginFails
<1>10. CASE Query(r)
  <2>1. CASE c.tx = "active"
    BY <1>10, <2>1 DEF Query
  <2>2. CASE c.tx # "active"
    <3>1. c.link = "down"
      BY <1>10, <2>2, <1>2a DEF Query
    <3>2. client'[r].link # "up"
      BY <1>10, <2>2, <3>1, AdapterLinks DEF Query, Abandon
    <3>3. \/ pc' = [pc EXCEPT ![r] = "rollback"] /\ UNCHANGED result
          \/ pc' = [pc EXCEPT ![r] = "done"] /\ result' = [result EXCEPT ![r] = "not committed"]
      BY <1>10, <2>2 DEF Query, Abandon
    <3> QED BY <1>10, <2>2, <3>2, <3>3 DEF Query
  <2> QED BY <2>1, <2>2
<1>11. CASE QuerySucceeds(r)
  <2>0. pc[r] = "querying" /\ stage[r] \in 0 .. Statements /\ stage[r] < Statements
    BY <1>11 DEF QuerySucceeds
  <2>1. stage[r] + 1 \in 0 .. Statements
    BY <2>0, OneMore
  <2>2. stage' \in [Runs -> 0 .. Statements]
    BY <1>11, <2>1 DEF QuerySucceeds
  <2> QED BY <1>11, <2>2 DEF QuerySucceeds
<1>12. CASE QueryFails(r)
  <2>1. PICK reuse \in {"must-rollback-before-reuse", "must-discard"} :
            /\ Abandon(r, [c EXCEPT !.tx = "failed", !.reuse = reuse], reuse)
            /\ c.link = "up" => reuse = "must-rollback-before-reuse"
    BY <1>12 DEF QueryFails
  <2> DEFINE d == [c EXCEPT !.tx = "failed", !.reuse = reuse]
  <2>2. d \in Clients /\ d.link = c.link
    BY DEF Clients, Reuse
  <2>3. client'[r].link = "up" => c.link = "up" /\ pc'[r] = "rollback"
    <3>1. ConnDiscard(d).link # "up"
      BY <1>12, <1>2a DEF QueryFails, ConnDiscard, Placed, Held, Sound, Clients
    <3>2. \/ pc'[r] = "rollback" /\ client'[r] = d
          \/ client'[r] = ConnDiscard(d)
      BY <2>1 DEF Abandon
    <3> QED BY <2>2, <3>1, <3>2
  <2>4. \/ pc' = [pc EXCEPT ![r] = "rollback"] /\ UNCHANGED result
        \/ pc' = [pc EXCEPT ![r] = "done"] /\ result' = [result EXCEPT ![r] = "not committed"]
    BY <2>1 DEF Abandon
  <2> QED BY <1>12, <2>3, <2>4 DEF QueryFails
<1>13. CASE Decline(r)
  <2>1. \/ pc' = [pc EXCEPT ![r] = "rollback"] /\ UNCHANGED <<client, result>>
        \/ /\ pc' = [pc EXCEPT ![r] = "done"] /\ result' = [result EXCEPT ![r] = "not committed"]
           /\ client'[r] = ConnDiscard(c)
    BY <1>13 DEF Decline, Abandon
  <2>2. ConnDiscard(c).link # "up"
    BY <1>13, <1>2a DEF Decline
  <2> QED BY <1>13, <2>1, <2>2 DEF Decline
<1>14. CASE WorkDone(r)
  BY <1>14 DEF WorkDone
<1>15. CASE Commit(r)
  <2>1. CASE c.tx = "active"
    <3>0. client'[r] = [c EXCEPT !.tx = "committing"]
      BY <1>15, <2>1 DEF Commit
    <3>1. client'[r].link = c.link
      BY <3>0, SameLink
    <3> QED BY <1>15, <2>1, <3>1 DEF Commit
  <2>2. CASE c.tx # "active"
    <3>1. c.link = "down"
      BY <1>15, <2>2, <1>2a DEF Commit
    <3>2. client'[r].link # "up"
      BY <1>15, <2>2, <3>1, <1>2b DEF Commit
    <3> QED BY <1>15, <2>2, <3>2 DEF Commit
  <2> QED BY <2>1, <2>2
<1>16. CASE Committed(r)
  BY <1>16 DEF Committed
<1>17. CASE CommitFails(r)
  <2>1. c.conn \in Held \cup {"discarded"}
    BY <1>17 DEF CommitFails, Placed, Held
  <2>2. client'[r].link # "up"
    BY <1>17, <2>1, Unknown, AdapterLinks DEF CommitFails
  <2> QED BY <1>17, <2>2 DEF CommitFails
<1>18. CASE RunHooks(r)
  BY <1>18 DEF RunHooks
<1>19. CASE Rollback(r)
  <2>1. CASE c.tx \in {"active", "failed"}
    <3>0. client'[r] = [c EXCEPT !.tx = "rolling-back"]
      BY <1>19, <2>1 DEF Rollback
    <3>1. client'[r].link = c.link
      BY <3>0, SameLink
    <3> QED BY <1>19, <2>1, <3>1 DEF Rollback
  <2>2. CASE c.tx \notin {"active", "failed"}
    <3>1. c.link = "down"
      BY <1>19, <2>2, <1>2a DEF Rollback
    <3>2. client'[r].link # "up"
      BY <1>19, <2>2, <3>1, <1>2b DEF Rollback
    <3> QED BY <1>19, <2>2, <3>2 DEF Rollback
  <2> QED BY <2>1, <2>2
<1>20. CASE RolledBack(r)
  BY <1>20 DEF RolledBack
<1>21. CASE RollbackFails(r)
  <2>1. c.conn \in Held \cup {"discarded"}
    BY <1>21 DEF RollbackFails, Placed, Held
  <2>2. client'[r].link # "up"
    BY <1>21, <2>1, Unknown, AdapterLinks DEF RollbackFails
  <2> QED BY <1>21, <2>2 DEF RollbackFails
<1>22. CASE ServerCommits(r)
  BY <1>22 DEF ServerCommits
<1>23. CASE ServerRollsBack(r)
  BY <1>23 DEF ServerRollsBack
<1>24. CASE LinkBreaks(r)
  BY <1>24 DEF LinkBreaks
<1> QED BY <1>3, <1>4, <1>5, <1>6, <1>7, <1>8, <1>9, <1>10, <1>11, <1>12, <1>13, <1>14, <1>15, <1>16, <1>17, <1>18, <1>19, <1>20, <1>21, <1>22, <1>23, <1>24 DEF RunNext

----------------------------------------------------------------------------
IInv == TypeOK /\ AllPlaced /\ AllStored /\ Closing

\* The runtime before its first start, and runs that have not begun.
LEMMA InitIInv == Init => IInv
BY StatementsAssumption
DEF Init, IInv, TypeOK, AllPlaced, AllStored, Closing, Placed, Stored, Sound, NoClient, Clients, Kinds,
    Places, Held, Reuse, Unopened, Opening, Inside, Over, Told

\* What a drain cuts was held; Stored says less of a run whose link is down.
LEMMA DrainSteps ==
    ASSUME TypeOK, AllPlaced, AllStored, DrainTimeout
    PROVE  client' \in [Runs -> Clients] /\ AllPlaced' /\ AllStored'
<1>1. client' = [r \in Runs |-> ConnDiscard(client[r])]
      /\ UNCHANGED <<kind, pc, wire, db, stage, result>>
  BY DEF DrainTimeout, database
<1>2. ASSUME NEW r \in Runs
      PROVE  client'[r] \in Clients /\ Placed(pc[r], client'[r])
             /\ (client'[r].link = "up" => client[r].link = "up")
  <2>1. client[r] \in Clients /\ Placed(pc[r], client[r]) /\ Sound(client[r]) /\ kind[r] \in Kinds
    BY DEF TypeOK, AllPlaced, Placed
  <2>2. client'[r] = ConnDiscard(client[r])
    BY <1>1
  <2>3. CASE client[r].conn \in Held
    BY <2>1, <2>2, <2>3, Discarded DEF Placed, NoClient, Held, Unopened, Opening, Inside, Over
  <2>4. CASE client[r].conn \notin Held
    BY <2>1, <2>2, <2>4, Discarded
  <2> QED BY <2>3, <2>4
<1>3. client' \in [Runs -> Clients] /\ AllPlaced'
  BY <1>1, <1>2 DEF AllPlaced
<1>4. AllStored'
  BY <1>1, <1>2 DEF AllStored, Stored
<1> QED BY <1>3, <1>4

\* The runs keep their part of the invariant, whichever of them moves.
LEMMA RunSteps ==
    ASSUME TypeOK, AllPlaced, AllStored, NEW r \in Runs, RunNext(r)
    PROVE  TypeOK' /\ AllPlaced' /\ AllStored' /\ UNCHANGED service
<1>1. PICK place \in Places, c \in Clients : Moves(r, place, c) /\ Placed(place, c)
  BY RunMoves
<1>2. Stored(r)
  BY DEF AllStored
<1>3. /\ Stored(r)'
      /\ wire' \in [Runs -> {"nothing", "BEGIN", "query", "COMMIT", "ROLLBACK"}]
      /\ db' \in [Runs -> {"none", "open", "aborted", "committed", "rolled-back"}]
      /\ stage' \in [Runs -> 0 .. Statements]
      /\ result' \in [Runs -> Told \cup {"nothing"}]
      /\ \A q \in Runs \ {r} : /\ wire'[q] = wire[q] /\ db'[q] = db[q]
                                /\ stage'[q] = stage[q] /\ result'[q] = result[q]
      /\ UNCHANGED service
  BY <1>2, RunStores
<1>4. pc' \in [Runs -> Places] /\ client' \in [Runs -> Clients]
  BY <1>1 DEF TypeOK, Moves
<1>5. TypeOK'
  BY <1>3, <1>4 DEF TypeOK, service
<1>6. pc'[r] = place /\ client'[r] = c
      /\ \A q \in Runs \ {r} : pc'[q] = pc[q] /\ client'[q] = client[q]
  BY <1>1 DEF TypeOK, Moves
<1>7. AllPlaced'
  BY <1>1, <1>6 DEF AllPlaced
<1>8. ASSUME NEW q \in Runs \ {r} PROVE Stored(q)'
  BY <1>3, <1>6, <1>8 DEF AllStored, Stored, service
<1>9. AllStored'
  BY <1>3, <1>8 DEF AllStored
<1> QED BY <1>3, <1>5, <1>7, <1>9

\* Every step keeps the invariant.
LEMMA NextIInv == IInv /\ [Next]_vars => IInv'
<1> SUFFICES ASSUME IInv, [Next]_vars PROVE IInv'
  OBVIOUS
<1> USE DEF IInv
<1>1. ASSUME NEW r \in Runs, RunNext(r) PROVE IInv'
  BY <1>1, RunSteps DEF Closing, service
<1>2. CASE DrainTimeout
  BY <1>2, DrainSteps DEF TypeOK, Closing, DrainTimeout, database
<1>3. CASE ServiceNext /\ ~DrainTimeout
  <2>1. UNCHANGED <<kind, pc, client, wire, db, stage, result>>
    BY <1>3 DEF ServiceNext, StartRuntime, ConnectorAnswers, PoolStarted, RuntimeStarted, Shutdown, ShutdownProceeds,
                PoolError, Drained, PoolEnded, Dispose, database
  <2>2. AllPlaced' /\ AllStored'
    BY <2>1 DEF AllPlaced, AllStored, Stored
  <2>3. TypeOK' /\ Closing'
    BY <1>3, <2>1 DEF TypeOK, Closing, ServiceNext, StartRuntime, ConnectorAnswers, PoolStarted, RuntimeStarted, Shutdown,
                ShutdownProceeds, PoolError, Drained, PoolEnded, Dispose, ClosePool
  <2> QED BY <2>2, <2>3
<1>4. CASE UNCHANGED vars
  BY <1>4 DEF TypeOK, AllPlaced, AllStored, Stored, Closing, vars
<1> QED BY <1>1, <1>2, <1>3, <1>4 DEF Next, Ended

\* The invariant holds in every reachable state.
LEMMA IInvHolds == Spec => []IInv
BY InitIInv, NextIInv, PTL DEF Spec

----------------------------------------------------------------------------
\* Every variable keeps its type: the places, the states of the adapters and the
\* answers the code can be in.
THEOREM TypeCorrect == Spec => []TypeOK
BY IInvHolds, PTL DEF IInv

\* A client the native pool gets back in working order has no transaction open
\* and no statement under way (release() and discard() of the adapters).
THEOREM NoDirtyReuseHolds == Spec => []NoDirtyReuse
<1>1. IInv => NoDirtyReuse
  <2> SUFFICES ASSUME IInv, NEW r \in Runs, client[r].conn = "released", client[r].link = "up"
               PROVE  db[r] \notin {"open", "aborted"} /\ wire[r] = "nothing"
    BY DEF NoDirtyReuse
  <2>1. Stored(r) /\ Placed(pc[r], client[r]) /\ pc[r] \in Places
    BY DEF IInv, TypeOK, AllPlaced, AllStored
  <2>2. pc[r] \in Over
    BY <2>1 DEF Placed, NoClient, Places, Unopened, Opening, Inside, Over
  <2> QED BY <2>1, <2>2 DEF Stored
<1> QED BY <1>1, IInvHolds, PTL

\* A run that ended, or runs hooks, has given its client back on every path.
THEOREM ConnectionsComeBackHolds == Spec => []ConnectionsComeBack
<1>1. IInv => ConnectionsComeBack
  BY DEF IInv, AllPlaced, Placed, Over, ConnectionsComeBack, Tracked
<1> QED BY <1>1, IInvHolds, PTL

\* The owner's completion is committed with all its stages or not at all.
THEOREM AtomicCompletionHolds == Spec => []AtomicCompletion
<1>1. IInv => AtomicCompletion
  BY DEF IInv, AllStored, Stored, AtomicCompletion
<1> QED BY <1>1, IInvHolds, PTL

\* A pool whose close() began is never ready again.
THEOREM ClosingIsFinalHolds == Spec => []ClosingIsFinal
<1>1. IInv => ClosingIsFinal
  BY DEF IInv, Closing, ClosingIsFinal
<1> QED BY <1>1, IInvHolds, PTL

----------------------------------------------------------------------------
(* The promise of TransactionOutcome *)

\* A run that is told "not committed" while it is not committing.
LEMMA TellsNot ==
    ASSUME IInv, NEW r \in Runs, pc[r] \notin {"committing", "hooks", "done"},
           Answer(r, "not committed"), UNCHANGED db
    PROVE  Outcome!Tell(r, "not committed")
<1>1. result[r] = "nothing" /\ db[r] # "committed"
  BY DEF IInv, TypeOK, AllStored, Stored, Told
<1> QED BY <1>1 DEF IInv, TypeOK, Answer, Goto, Outcome!Tell

\* A run that moves, with neither an answer nor an end of its transaction.
LEMMA TellsNothing ==
    ASSUME IInv, NEW r \in Runs, NEW place \in Places \ {"hooks"}, pc[r] # "hooks",
           Goto(r, place), UNCHANGED result,
           \/ UNCHANGED db
           \/ /\ db[r] \notin {"committed", "rolled-back"}
              /\ \E d \in {"open", "aborted"} : db' = [db EXCEPT ![r] = d]
    PROVE  UNCHANGED Outcome!vars
<1>1. \A q \in Runs : pc'[q] = "hooks" <=> pc[q] = "hooks"
  BY DEF IInv, TypeOK, Goto
<1>2. \A q \in Runs : \/ db'[q] = db[q]
                      \/ {db[q], db'[q]} \cap {"committed", "rolled-back"} = {}
  BY DEF IInv, TypeOK
<1> QED BY <1>1, <1>2 DEF Outcome!vars

\* Every step of the transactions is a step of their promise, or none.
THEOREM Refinement == Spec => ImplementsOutcome
<1>1. Init => Outcome!Init
  BY DEF Init, Outcome!Init
<1>2. ASSUME IInv, [Next]_vars PROVE [Outcome!Next]_(Outcome!vars)
  <2>1. ASSUME NEW r \in Runs, RunNext(r) PROVE [Outcome!Next]_(Outcome!vars)
    <3>1. ASSUME pc[r] \notin {"committing", "hooks", "done"}, UNCHANGED db, Answer(r, "not committed")
          PROVE  Outcome!Next
      BY <1>2, <3>1, TellsNot DEF Outcome!Next
    <3>2. ASSUME NEW place \in Places \ {"hooks"}, pc[r] # "hooks", Goto(r, place), UNCHANGED result, UNCHANGED db
          PROVE  UNCHANGED Outcome!vars
      BY <1>2, <3>2, TellsNothing
    <3>3. CASE Checkout(r) \/ TakeSlot(r) \/ Connected(r) \/ NoConnection(r)
      BY <3>1, <3>2, <3>3 DEF Checkout, TakeSlot, Connected, NoConnection, database, Places
    <3>4. CASE Begin(r) \/ BeginFails(r)
      BY <3>1, <3>2, <3>4 DEF Begin, BeginFails, Places
    <3>5. CASE Begun(r)
      <4>1. db[r] = "none"
        BY <1>2, <3>5 DEF IInv, AllStored, Stored, Begun, Opening
      <4> QED BY <1>2, <3>5, <4>1, TellsNothing DEF Begun, Places
    <3>6. CASE Query(r) \/ QuerySucceeds(r) \/ Decline(r) \/ WorkDone(r)
      BY <3>1, <3>2, <3>6 DEF Query, QuerySucceeds, Decline, WorkDone, Abandon, database, Places
    <3>7. CASE QueryFails(r)
      <4>1. CASE client[r].link = "up"
        <5>1. db[r] = "open"
          BY <1>2, <3>7, <4>1 DEF IInv, AllStored, Stored, QueryFails
        <5>2. Goto(r, "rollback") /\ UNCHANGED result
          BY <3>7, <4>1 DEF QueryFails, Abandon
        <5> QED BY <1>2, <3>7, <4>1, <5>1, <5>2, TellsNothing DEF QueryFails, Places
      <4>2. CASE client[r].link # "up"
        <5>1. UNCHANGED db
          BY <3>7, <4>2 DEF QueryFails, database
        <5>2. PICK reuse \in {"must-rollback-before-reuse", "must-discard"} :
                  Abandon(r, [client[r] EXCEPT !.tx = "failed", !.reuse = reuse], reuse)
          BY <3>7 DEF QueryFails
        <5>3. \/ Answer(r, "not committed")
              \/ Goto(r, "rollback") /\ UNCHANGED result
          BY <5>2 DEF Abandon
        <5> QED BY <3>1, <3>2, <3>7, <5>1, <5>3 DEF QueryFails, Places
      <4> QED BY <4>1, <4>2
    <3>8. CASE Commit(r) \/ Rollback(r) \/ RolledBack(r) \/ RollbackFails(r)
      BY <3>1, <3>2, <3>8 DEF Commit, Rollback, RolledBack, RollbackFails, database, Places
    <3>9. CASE Committed(r)
      <4>1. result[r] = "nothing" /\ pc[r] = "committing" /\ db[r] = "committed" /\ UNCHANGED db
        BY <1>2, <3>9 DEF IInv, AllStored, Stored, Committed, database
      <4>2. \/ Goto(r, "hooks") /\ UNCHANGED result
            \/ Answer(r, "committed")
        BY <3>9 DEF Committed
      <4>3. Outcome!Tell(r, "committed")
        <5>1. CASE Goto(r, "hooks") /\ UNCHANGED result
          BY <1>2, <4>1, <5>1 DEF IInv, TypeOK, Goto, Outcome!Tell
        <5>2. CASE Answer(r, "committed")
          BY <1>2, <4>1, <5>2 DEF IInv, TypeOK, Goto, Answer, Outcome!Tell
        <5> QED BY <4>2, <5>1, <5>2
      <4> QED BY <4>3 DEF Outcome!Next
    <3>10. CASE CommitFails(r)
      <4>1. result[r] = "nothing" /\ pc[r] = "committing" /\ UNCHANGED db /\ Answer(r, "unknown")
        BY <1>2, <3>10 DEF IInv, AllStored, Stored, CommitFails, database
      <4>2. Outcome!Tell(r, "unknown")
        BY <1>2, <4>1 DEF IInv, TypeOK, Goto, Answer, Outcome!Tell
      <4> QED BY <4>2 DEF Outcome!Next
    <3>11. CASE RunHooks(r)
      BY <1>2, <3>11 DEF IInv, TypeOK, RunHooks, Answer, Goto, database, Outcome!vars
    <3>12. CASE ServerCommits(r)
      <4>1. result[r] # "not committed" /\ db[r] = "open" /\ UNCHANGED <<pc, result>>
            /\ db' = [db EXCEPT ![r] = "committed"]
        BY <1>2, <3>12 DEF IInv, AllStored, Stored, ServerCommits
      <4>2. Outcome!Decide(r, "committed")
        BY <1>2, <4>1 DEF IInv, TypeOK, Outcome!Decide
      <4> QED BY <4>2 DEF Outcome!Next
    <3>13. CASE ServerRollsBack(r)
      <4>1. db[r] \in {"open", "aborted"} /\ UNCHANGED <<pc, result>> /\ db' = [db EXCEPT ![r] = "rolled-back"]
        BY <3>13 DEF ServerRollsBack
      <4>2. Outcome!Decide(r, "rolled-back")
        BY <1>2, <4>1 DEF IInv, TypeOK, Outcome!Decide
      <4> QED BY <4>2 DEF Outcome!Next
    <3>14. CASE LinkBreaks(r)
      BY <3>14 DEF LinkBreaks, database, Outcome!vars
    <3> QED BY <2>1, <3>3, <3>4, <3>5, <3>6, <3>7, <3>8, <3>9, <3>10, <3>11, <3>12, <3>13, <3>14 DEF RunNext
  <2>2. ASSUME ServiceNext PROVE UNCHANGED Outcome!vars
    BY <2>2 DEF ServiceNext, StartRuntime, ConnectorAnswers, PoolStarted, RuntimeStarted, Shutdown, ShutdownProceeds,
                PoolError, Drained, DrainTimeout, PoolEnded, Dispose, database, Outcome!vars
  <2>3. ASSUME UNCHANGED vars PROVE UNCHANGED Outcome!vars
    BY <2>3 DEF vars, Outcome!vars
  <2> QED BY <1>2, <2>1, <2>2, <2>3 DEF Next, Ended
<1> QED BY <1>1, <1>2, IInvHolds, PTL DEF Spec, ImplementsOutcome, Outcome!Spec
=============================================================================
