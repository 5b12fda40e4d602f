--------------------------- MODULE JobMediaProofs ---------------------------
(***************************************************************************)
(* What holds of JobMedia for any number of finalize requests and of       *)
(* requests that use the media.                                            *)
(***************************************************************************)
EXTENDS JobMedia, TLAPS

\* Where a request has no directories.
Idle == {"resolve", "mkdir", "ended"}

\* Whoever never shared the directories is alone in them while at work.
Alone ==
    \A u \in Users \ met, v \in Users : u # v /\ at[u] \notin Idle => at[v] \in Idle

\* Nothing is left when all requests are idle and the last clean-up worked.
Clean ==
    (\A u \in Users : at[u] \in Idle) /\ ~litter =>
        source = "none" /\ subtitle = "none" /\ \A n \in Routes : output[n] = "none"

\* What the files hold for a request that is alone, at each place.
OwnFiles ==
    \A u \in Users \ met :
        /\ at[u] = "subtitle" => source = u
        /\ at[u] \in {"render", "rendering"} =>
               source = u /\ (route[u] = "burn" => subtitle = u)
        /\ at[u] = "rendering" => output[route[u]] = "partial"
        /\ at[u] = "read" => output[route[u]] = u
        /\ at[u] \in {"save", "insert", "served"} => got[u] = "own"

\* Behind a served export lie its upload and its row.
Exported ==
    \A u \in Users : route[u] = "cut" =>
        /\ at[u] = "insert" => kept[u]
        /\ at[u] = "served" => listed[u] /\ kept[u]

\* An answer is the end.
AnswersEnd == \A u \in Users : reply[u] # "pending" => at[u] = "ended"

\* Only a cut comes to its export.
CutsExport == \A u \in Users : at[u] \in {"save", "insert", "undo"} => route[u] = "cut"

\* The inductive invariant.
UInv ==
    /\ UsersTypeOK /\ AnswersEnd /\ CutsExport /\ Alone /\ OwnFiles /\ Exported
    /\ ServedExportIsKept /\ ServedIsRequested /\ Clean

\* The initial states satisfy the invariant: nobody has begun.
LEMMA InitUInv == JobInit => UInv
<1> SUFFICES ASSUME UsersInit PROVE UInv
  BY DEF JobInit
<1>1. UsersTypeOK
  BY DEF UsersInit, UsersTypeOK, Routes, File, Reading
<1>2. AnswersEnd /\ CutsExport /\ OwnFiles /\ Exported
  BY DEF UsersInit, AnswersEnd, CutsExport, OwnFiles, Exported
<1>3. ServedExportIsKept /\ ServedIsRequested
  BY DEF UsersInit, ServedExportIsKept, ServedIsRequested
<1>4. Alone /\ Clean
  BY DEF UsersInit, Alone, Clean, Idle
<1> QED BY <1>1, <1>2, <1>3, <1>4 DEF UInv

\* What MakeDirectories does: who is active meets the one that comes.
LEMMA MakesDirectories ==
    ASSUME NEW u \in Users, UsersTypeOK, MakeDirectories(u)
    PROVE  /\ at[u] = "mkdir" /\ dirs' \in BOOLEAN
           /\ UNCHANGED <<route, source, subtitle, output, got, kept, listed, litter>>
           /\ met' \subseteq Users /\ met \subseteq met'
           /\ \/ /\ at' = [at EXCEPT ![u] = "source"] /\ reply' = reply
                 /\ \A v \in Users : at[v] \notin Idle => u \in met' /\ v \in met'
              \/ /\ at' = [at EXCEPT ![u] = "ended"] /\ met' = met
                 /\ reply' = [reply EXCEPT ![u] = "failed"]
<1>1. Active = {} => \A v \in Users : at[v] \in Idle
  BY DEF Active, Idle
<1>2. Active \subseteq Users /\ \A v \in Users : at[v] \notin Idle => v \in Active
  BY DEF Active, Idle
<1>3. CASE Move(u, "source")
  BY <1>1, <1>2, <1>3 DEF MakeDirectories, UsersTypeOK, Move, End, exports
<1>4. CASE End(u, "failed")
  BY <1>4 DEF MakeDirectories, UsersTypeOK, Move, End, exports
<1> QED BY <1>3, <1>4 DEF MakeDirectories

\* What is removed in part keeps its type.
LEMMA RemovesTyped ==
    ASSUME UsersTypeOK, RemovesSome
    PROVE  /\ dirs' \in BOOLEAN /\ output' \in [Routes -> File]
           /\ source' \in File /\ subtitle' \in File
  BY DEF RemovesSome, UsersTypeOK, File

\* What Cleanup does: everything is removed, or it fails.
LEMMA CleansUpAll ==
    ASSUME NEW u \in Users, UsersTypeOK, Cleanup(u)
    PROVE  /\ at[u] \in {"served", "failed"}
           /\ at' = [at EXCEPT ![u] = "ended"]
           /\ \E a \in {at[u], "failed"} : reply' = [reply EXCEPT ![u] = a]
           /\ UNCHANGED <<route, got, kept, listed, met>>
           /\ dirs' \in BOOLEAN /\ output' \in [Routes -> File]
           /\ source' \in File /\ subtitle' \in File /\ litter' \in BOOLEAN
           /\ \/ /\ source' = "none" /\ subtitle' = "none"
                 /\ \A n \in Routes : output'[n] = "none"
              \/ litter'
<1>1. at[u] \in {"served", "failed"}
  BY DEF Cleanup
<1>2. CASE RemovesAll /\ litter' = FALSE /\ End(u, at[u])
  BY <1>1, <1>2 DEF Cleanup, RemovesAll, File, Move, End, exports
<1>3. CASE RemovesSome /\ litter' = TRUE /\ End(u, "failed")
  BY <1>1, <1>3, RemovesTyped DEF Cleanup, Move, End, exports
<1> QED BY <1>2, <1>3 DEF Cleanup, CleansUp

\* What the death of the process leaves: nobody at work, no answer but those given,
\* and what was stored.
LEMMA Dies ==
    ASSUME UsersTypeOK, Die
    PROVE  /\ UNCHANGED <<route, got, met>> /\ litter' = TRUE
           /\ at' \in [Users -> {"resolve", "ended"}]
           /\ reply' \in [Users -> {"pending", "served", "failed"}]
           /\ \A u \in Users : at[u] = "ended" => at'[u] = "ended" /\ reply'[u] = reply[u]
           /\ \A u \in Users : at[u] = "resolve" => at'[u] = "resolve" /\ reply'[u] = reply[u]
           /\ \A u \in Users : at[u] \notin {"resolve", "ended"} =>
                 at'[u] = "ended" /\ reply'[u] = "failed"
           /\ kept' \in [Users -> BOOLEAN] /\ listed' \in [Users -> BOOLEAN]
           /\ \A u \in Users : (kept[u] => kept'[u]) /\ (listed[u] => listed'[u])
           /\ dirs' \in BOOLEAN /\ output' \in [Routes -> File]
           /\ source' \in File /\ subtitle' \in File
<1>1. /\ kept' \in [Users -> BOOLEAN] /\ listed' \in [Users -> BOOLEAN]
      /\ \A u \in Users : (kept[u] => kept'[u]) /\ (listed[u] => listed'[u])
  <2>1. PICK S \in SUBSET Users : kept' = [u \in Users |-> kept[u] \/ u \in S]
    BY DEF Die, Arrives
  <2>2. PICK R \in SUBSET Users : listed' = [u \in Users |-> listed[u] \/ u \in R]
    BY DEF Die, Arrives
  <2> QED BY <2>1, <2>2, Zenon DEF UsersTypeOK
<1>2. /\ dirs' \in BOOLEAN /\ output' \in [Routes -> File]
      /\ source' \in File /\ subtitle' \in File
  <2>1. CASE UNCHANGED files
    BY <2>1 DEF files, UsersTypeOK
  <2>2. CASE source' = "partial" /\ UNCHANGED <<dirs, subtitle, output>>
    BY <2>2 DEF UsersTypeOK, File
  <2>3. CASE RemovesSome
    BY <2>3, RemovesTyped
  <2> QED BY <2>1, <2>2, <2>3 DEF Die
<1>3. /\ UNCHANGED <<route, got, met>> /\ litter' = TRUE
      /\ at' = [u \in Users |-> IF at[u] = "resolve" THEN at[u] ELSE "ended"]
      /\ reply' = [u \in Users |->
                     IF at[u] \notin {"resolve", "ended"} THEN "failed" ELSE reply[u]]
  BY DEF Die
<1> QED BY <1>1, <1>2, <1>3 DEF UsersTypeOK

\* Every step keeps the type of the state.
LEMMA TypeStep == UsersTypeOK /\ [JobNext]_<<vars, userVars>> => UsersTypeOK'
<1> SUFFICES ASSUME UsersTypeOK, [JobNext]_<<vars, userVars>> PROVE UsersTypeOK'
  OBVIOUS
<1> USE DEF UsersTypeOK, Routes, File, Reading, Idle, files, exports, userVars, Move, End
<1>1. CASE UNCHANGED userVars
  BY <1>1 DEF userVars, files, exports
<1>2. ASSUME NEW u \in Users, Use(u) PROVE UsersTypeOK'
  <2>1. CASE Resolve(u)
    BY <2>1 DEF Resolve
  <2>2. CASE MakeDirectories(u)
    BY <2>2, MakesDirectories
  <2>3. CASE WriteSource(u)
    BY <2>3 DEF WriteSource
  <2>4. CASE WriteSubtitle(u)
    BY <2>4 DEF WriteSubtitle
  <2>5. CASE StartRender(u)
    BY <2>5 DEF StartRender
  <2>6. CASE EndRender(u)
    BY <2>6 DEF EndRender, Rendered
  <2>7. CASE ReadOutput(u)
    BY <2>7 DEF ReadOutput, Reads
  <2>8. CASE Fails(u)
    BY <2>8 DEF Fails
  <2>9. CASE Save(u)
    BY <2>9 DEF Save
  <2>10. CASE Insert(u)
    BY <2>10 DEF Insert
  <2>11. CASE UndoSave(u)
    BY <2>11 DEF UndoSave
  <2>12. CASE Cleanup(u)
    BY <2>12, CleansUpAll
  <2> QED BY <1>2, <2>1, <2>2, <2>3, <2>4, <2>5, <2>6, <2>7, <2>8, <2>9, <2>10, <2>11, <2>12 DEF Use
<1>3. CASE Die
  <2>1. at' \in [Users -> Reading \cup {"resolve", "mkdir", "save", "insert", "undo",
                                      "served", "failed", "ended"}]
    BY <1>3, Dies
  <2> QED BY <1>3, <2>1, Dies
<1> QED BY <1>1, <1>2, <1>3 DEF JobNext, vars, userVars, files, exports

\* The answer is given with the last step of a request.
LEMMA AnswersEndStep == UsersTypeOK /\ AnswersEnd /\ [JobNext]_<<vars, userVars>> => AnswersEnd'
<1> SUFFICES ASSUME UsersTypeOK, AnswersEnd, [JobNext]_<<vars, userVars>> PROVE AnswersEnd'
  OBVIOUS
<1> USE DEF UsersTypeOK, Routes, File, Reading, Idle, files, exports, userVars, Move, End, AnswersEnd
<1>1. CASE UNCHANGED userVars
  BY <1>1 DEF userVars, files, exports
<1>2. ASSUME NEW u \in Users, Use(u) PROVE AnswersEnd'
  <2>1. CASE Resolve(u)
    BY <2>1 DEF Resolve
  <2>2. CASE MakeDirectories(u)
    BY <2>2, MakesDirectories
  <2>3. CASE WriteSource(u)
    BY <2>3 DEF WriteSource
  <2>4. CASE WriteSubtitle(u)
    BY <2>4 DEF WriteSubtitle
  <2>5. CASE StartRender(u)
    BY <2>5 DEF StartRender
  <2>6. CASE EndRender(u)
    BY <2>6 DEF EndRender, Rendered
  <2>7. CASE ReadOutput(u)
    BY <2>7 DEF ReadOutput, Reads
  <2>8. CASE Fails(u)
    BY <2>8 DEF Fails
  <2>9. CASE Save(u)
    BY <2>9 DEF Save
  <2>10. CASE Insert(u)
    BY <2>10 DEF Insert
  <2>11. CASE UndoSave(u)
    BY <2>11 DEF UndoSave
  <2>12. CASE Cleanup(u)
    BY <2>12, CleansUpAll
  <2> QED BY <1>2, <2>1, <2>2, <2>3, <2>4, <2>5, <2>6, <2>7, <2>8, <2>9, <2>10, <2>11, <2>12 DEF Use
<1>3. CASE Die
  BY <1>3, Dies
<1> QED BY <1>1, <1>2, <1>3 DEF JobNext, vars, userVars, files, exports

\* Only a cut goes on to the upload of its output.
LEMMA CutsExportStep == UsersTypeOK /\ CutsExport /\ [JobNext]_<<vars, userVars>> => CutsExport'
<1> SUFFICES ASSUME UsersTypeOK, CutsExport, [JobNext]_<<vars, userVars>> PROVE CutsExport'
  OBVIOUS
<1> USE DEF UsersTypeOK, Routes, File, Reading, Idle, files, exports, userVars, Move, End, CutsExport
<1>1. CASE UNCHANGED userVars
  BY <1>1 DEF userVars, files, exports
<1>2. ASSUME NEW u \in Users, Use(u) PROVE CutsExport'
  <2>1. CASE Resolve(u)
    BY <2>1 DEF Resolve
  <2>2. CASE MakeDirectories(u)
    BY <2>2, MakesDirectories
  <2>3. CASE WriteSource(u)
    BY <2>3 DEF WriteSource
  <2>4. CASE WriteSubtitle(u)
    BY <2>4 DEF WriteSubtitle
  <2>5. CASE StartRender(u)
    BY <2>5 DEF StartRender
  <2>6. CASE EndRender(u)
    BY <2>6 DEF EndRender, Rendered
  <2>7. CASE ReadOutput(u)
    BY <2>7 DEF ReadOutput, Reads
  <2>8. CASE Fails(u)
    BY <2>8 DEF Fails
  <2>9. CASE Save(u)
    BY <2>9 DEF Save
  <2>10. CASE Insert(u)
    BY <2>10 DEF Insert
  <2>11. CASE UndoSave(u)
    BY <2>11 DEF UndoSave
  <2>12. CASE Cleanup(u)
    BY <2>12, CleansUpAll
  <2> QED BY <1>2, <2>1, <2>2, <2>3, <2>4, <2>5, <2>6, <2>7, <2>8, <2>9, <2>10, <2>11, <2>12 DEF Use
<1>3. CASE Die
  BY <1>3, Dies
<1> QED BY <1>1, <1>2, <1>3 DEF JobNext, vars, userVars, files, exports

\* Whoever makes the directories while another is active has met it, and so has the
\* other; the set of the active grows in no other way.
LEMMA AloneStep == UsersTypeOK /\ Alone /\ [JobNext]_<<vars, userVars>> => Alone'
<1> SUFFICES ASSUME UsersTypeOK, Alone, [JobNext]_<<vars, userVars>> PROVE Alone'
  OBVIOUS
<1> USE DEF UsersTypeOK, Routes, File, Reading, Idle, files, exports, userVars, Move, End, Alone
<1>1. CASE UNCHANGED userVars
  BY <1>1 DEF userVars, files, exports
<1>2. ASSUME NEW u \in Users, Use(u) PROVE Alone'
  <2>1. CASE Resolve(u)
    BY <2>1 DEF Resolve
  <2>2. CASE MakeDirectories(u)
    BY <2>2, MakesDirectories
  <2>3. CASE WriteSource(u)
    BY <2>3 DEF WriteSource
  <2>4. CASE WriteSubtitle(u)
    BY <2>4 DEF WriteSubtitle
  <2>5. CASE StartRender(u)
    BY <2>5 DEF StartRender
  <2>6. CASE EndRender(u)
    BY <2>6 DEF EndRender, Rendered
  <2>7. CASE ReadOutput(u)
    BY <2>7 DEF ReadOutput, Reads
  <2>8. CASE Fails(u)
    BY <2>8 DEF Fails
  <2>9. CASE Save(u)
    BY <2>9 DEF Save
  <2>10. CASE Insert(u)
    BY <2>10 DEF Insert
  <2>11. CASE UndoSave(u)
    BY <2>11 DEF UndoSave
  <2>12. CASE Cleanup(u)
    BY <2>12, CleansUpAll
  <2> QED BY <1>2, <2>1, <2>2, <2>3, <2>4, <2>5, <2>6, <2>7, <2>8, <2>9, <2>10, <2>11, <2>12 DEF Use
<1>3. CASE Die
  BY <1>3, Dies
<1> QED BY <1>1, <1>2, <1>3 DEF JobNext, vars, userVars, files, exports

\* Who is alone finds what it has written: all who write or remove are active.
LEMMA OwnFilesStep == UsersTypeOK /\ Alone /\ OwnFiles /\ [JobNext]_<<vars, userVars>> => OwnFiles'
<1> SUFFICES ASSUME UsersTypeOK, Alone, OwnFiles, [JobNext]_<<vars, userVars>> PROVE OwnFiles'
  OBVIOUS
<1> USE DEF UsersTypeOK, Routes, File, Reading, Idle, files, exports, userVars, Move, End, Alone, OwnFiles
<1>1. CASE UNCHANGED userVars
  BY <1>1 DEF userVars, files, exports
<1>2. ASSUME NEW u \in Users, Use(u) PROVE OwnFiles'
  <2>1. CASE Resolve(u)
    BY <2>1 DEF Resolve
  <2>2. CASE MakeDirectories(u)
    BY <2>2, MakesDirectories
  <2>3. CASE WriteSource(u)
    BY <2>3 DEF WriteSource
  <2>4. CASE WriteSubtitle(u)
    BY <2>4 DEF WriteSubtitle
  <2>5. CASE StartRender(u)
    BY <2>5 DEF StartRender
  <2>6. CASE EndRender(u)
    BY <2>6 DEF EndRender, Rendered
  <2>7. CASE ReadOutput(u)
    BY <2>7 DEF ReadOutput, Reads
  <2>8. CASE Fails(u)
    BY <2>8 DEF Fails
  <2>9. CASE Save(u)
    BY <2>9 DEF Save
  <2>10. CASE Insert(u)
    BY <2>10 DEF Insert
  <2>11. CASE UndoSave(u)
    BY <2>11 DEF UndoSave
  <2>12. CASE Cleanup(u)
    BY <2>12, CleansUpAll
  <2> QED BY <1>2, <2>1, <2>2, <2>3, <2>4, <2>5, <2>6, <2>7, <2>8, <2>9, <2>10, <2>11, <2>12 DEF Use
<1>3. CASE Die
  BY <1>3, Dies
<1> QED BY <1>1, <1>2, <1>3 DEF JobNext, vars, userVars, files, exports

\* A cut is served after the acknowledged upload and the acknowledged row.
LEMMA ExportedStep == UsersTypeOK /\ CutsExport /\ Exported /\ [JobNext]_<<vars, userVars>> => Exported'
<1> SUFFICES ASSUME UsersTypeOK, CutsExport, Exported, [JobNext]_<<vars, userVars>> PROVE Exported'
  OBVIOUS
<1> USE DEF UsersTypeOK, Routes, File, Reading, Idle, files, exports, userVars, Move, End, CutsExport, Exported
<1>1. CASE UNCHANGED userVars
  BY <1>1 DEF userVars, files, exports
<1>2. ASSUME NEW u \in Users, Use(u) PROVE Exported'
  <2>1. CASE Resolve(u)
    BY <2>1 DEF Resolve
  <2>2. CASE MakeDirectories(u)
    BY <2>2, MakesDirectories
  <2>3. CASE WriteSource(u)
    BY <2>3 DEF WriteSource
  <2>4. CASE WriteSubtitle(u)
    BY <2>4 DEF WriteSubtitle
  <2>5. CASE StartRender(u)
    BY <2>5 DEF StartRender
  <2>6. CASE EndRender(u)
    BY <2>6 DEF EndRender, Rendered
  <2>7. CASE ReadOutput(u)
    BY <2>7 DEF ReadOutput, Reads
  <2>8. CASE Fails(u)
    BY <2>8 DEF Fails
  <2>9. CASE Save(u)
    BY <2>9 DEF Save
  <2>10. CASE Insert(u)
    BY <2>10 DEF Insert
  <2>11. CASE UndoSave(u)
    BY <2>11 DEF UndoSave
  <2>12. CASE Cleanup(u)
    BY <2>12, CleansUpAll
  <2> QED BY <1>2, <2>1, <2>2, <2>3, <2>4, <2>5, <2>6, <2>7, <2>8, <2>9, <2>10, <2>11, <2>12 DEF Use
<1>3. CASE Die
  BY <1>3, Dies
<1> QED BY <1>1, <1>2, <1>3 DEF JobNext, vars, userVars, files, exports

\* What an answered request has stored is not touched again.
LEMMA ServedExportStep == UsersTypeOK /\ AnswersEnd /\ Exported /\ ServedExportIsKept /\ [JobNext]_<<vars, userVars>> => ServedExportIsKept'
<1> SUFFICES ASSUME UsersTypeOK, AnswersEnd, Exported, ServedExportIsKept, [JobNext]_<<vars, userVars>> PROVE ServedExportIsKept'
  OBVIOUS
<1> USE DEF UsersTypeOK, Routes, File, Reading, Idle, files, exports, userVars, Move, End, AnswersEnd, Exported, ServedExportIsKept
<1>1. CASE UNCHANGED userVars
  BY <1>1 DEF userVars, files, exports
<1>2. ASSUME NEW u \in Users, Use(u) PROVE ServedExportIsKept'
  <2>1. CASE Resolve(u)
    BY <2>1 DEF Resolve
  <2>2. CASE MakeDirectories(u)
    BY <2>2, MakesDirectories
  <2>3. CASE WriteSource(u)
    BY <2>3 DEF WriteSource
  <2>4. CASE WriteSubtitle(u)
    BY <2>4 DEF WriteSubtitle
  <2>5. CASE StartRender(u)
    BY <2>5 DEF StartRender
  <2>6. CASE EndRender(u)
    BY <2>6 DEF EndRender, Rendered
  <2>7. CASE ReadOutput(u)
    BY <2>7 DEF ReadOutput, Reads
  <2>8. CASE Fails(u)
    BY <2>8 DEF Fails
  <2>9. CASE Save(u)
    BY <2>9 DEF Save
  <2>10. CASE Insert(u)
    BY <2>10 DEF Insert
  <2>11. CASE UndoSave(u)
    BY <2>11 DEF UndoSave
  <2>12. CASE Cleanup(u)
    BY <2>12, CleansUpAll
  <2> QED BY <1>2, <2>1, <2>2, <2>3, <2>4, <2>5, <2>6, <2>7, <2>8, <2>9, <2>10, <2>11, <2>12 DEF Use
<1>3. CASE Die
  BY <1>3, Dies
<1> QED BY <1>1, <1>2, <1>3 DEF JobNext, vars, userVars, files, exports

\* The answer carries what was read back.
LEMMA ServedRequestedStep == UsersTypeOK /\ AnswersEnd /\ OwnFiles /\ ServedIsRequested /\ [JobNext]_<<vars, userVars>> => ServedIsRequested'
<1> SUFFICES ASSUME UsersTypeOK, AnswersEnd, OwnFiles, ServedIsRequested, [JobNext]_<<vars, userVars>> PROVE ServedIsRequested'
  OBVIOUS
<1> USE DEF UsersTypeOK, Routes, File, Reading, Idle, files, exports, userVars, Move, End, AnswersEnd, OwnFiles, ServedIsRequested
<1>1. CASE UNCHANGED userVars
  BY <1>1 DEF userVars, files, exports
<1>2. ASSUME NEW u \in Users, Use(u) PROVE ServedIsRequested'
  <2>1. CASE Resolve(u)
    BY <2>1 DEF Resolve
  <2>2. CASE MakeDirectories(u)
    BY <2>2, MakesDirectories
  <2>3. CASE WriteSource(u)
    BY <2>3 DEF WriteSource
  <2>4. CASE WriteSubtitle(u)
    BY <2>4 DEF WriteSubtitle
  <2>5. CASE StartRender(u)
    BY <2>5 DEF StartRender
  <2>6. CASE EndRender(u)
    BY <2>6 DEF EndRender, Rendered
  <2>7. CASE ReadOutput(u)
    BY <2>7 DEF ReadOutput, Reads
  <2>8. CASE Fails(u)
    BY <2>8 DEF Fails
  <2>9. CASE Save(u)
    BY <2>9 DEF Save
  <2>10. CASE Insert(u)
    BY <2>10 DEF Insert
  <2>11. CASE UndoSave(u)
    BY <2>11 DEF UndoSave
  <2>12. CASE Cleanup(u)
    BY <2>12, CleansUpAll
  <2> QED BY <1>2, <2>1, <2>2, <2>3, <2>4, <2>5, <2>6, <2>7, <2>8, <2>9, <2>10, <2>11, <2>12 DEF Use
<1>3. CASE Die
  <2>1. \A u \in Users : reply'[u] = "served" => reply[u] = "served"
    BY <1>3, Dies
  <2>2. got' = got /\ met' = met
    BY <1>3, Dies
  <2> QED BY <2>1, <2>2
<1> QED BY <1>1, <1>2, <1>3 DEF JobNext, vars, userVars, files, exports

\* A clean-up that works removes everything, whoever has left it there; what is
\* written after it belongs to a request that is still active.
LEMMA CleanStep == UsersTypeOK /\ Clean /\ [JobNext]_<<vars, userVars>> => Clean'
<1> SUFFICES ASSUME UsersTypeOK, Clean, [JobNext]_<<vars, userVars>> PROVE Clean'
  OBVIOUS
<1> USE DEF UsersTypeOK, Routes, File, Reading, Idle, files, exports, userVars, Move, End, Clean
<1>1. CASE UNCHANGED userVars
  BY <1>1 DEF userVars, files, exports
<1>2. ASSUME NEW u \in Users, Use(u) PROVE Clean'
  <2>1. CASE Resolve(u)
    BY <2>1 DEF Resolve
  <2>2. CASE MakeDirectories(u)
    BY <2>2, MakesDirectories
  <2>3. CASE WriteSource(u)
    BY <2>3 DEF WriteSource
  <2>4. CASE WriteSubtitle(u)
    BY <2>4 DEF WriteSubtitle
  <2>5. CASE StartRender(u)
    BY <2>5 DEF StartRender
  <2>6. CASE EndRender(u)
    BY <2>6 DEF EndRender, Rendered
  <2>7. CASE ReadOutput(u)
    BY <2>7 DEF ReadOutput, Reads
  <2>8. CASE Fails(u)
    BY <2>8 DEF Fails
  <2>9. CASE Save(u)
    BY <2>9 DEF Save
  <2>10. CASE Insert(u)
    BY <2>10 DEF Insert
  <2>11. CASE UndoSave(u)
    BY <2>11 DEF UndoSave
  <2>12. CASE Cleanup(u)
    BY <2>12, CleansUpAll
  <2> QED BY <1>2, <2>1, <2>2, <2>3, <2>4, <2>5, <2>6, <2>7, <2>8, <2>9, <2>10, <2>11, <2>12 DEF Use
<1>3. CASE Die
  BY <1>3, Dies
<1> QED BY <1>1, <1>2, <1>3 DEF JobNext, vars, userVars, files, exports

\* The invariant is inductive.
LEMMA StepUInv == UInv /\ [JobNext]_<<vars, userVars>> => UInv'
  BY TypeStep, AnswersEndStep, CutsExportStep, AloneStep, OwnFilesStep, ExportedStep, ServedExportStep,
     ServedRequestedStep, CleanStep DEF UInv

\* The invariant holds in every behaviour of admission and use together.
THEOREM Invariance == JobSpec => []UInv
  BY InitUInv, StepUInv, PTL DEF JobSpec

\* The requests that use the media leave its admission as it is: what holds of
\* MediaAdmission holds beside them.
THEOREM AdmissionUndisturbed == JobSpec => Spec
<1>1. JobInit => Init
  BY DEF JobInit
<1>2. [JobNext]_<<vars, userVars>> => [Next]_vars
  BY DEF JobNext
<1> QED BY <1>1, <1>2, PTL DEF JobSpec, Spec

\* The state of the requests has its type.
THEOREM TypeCorrect == JobSpec => []UsersTypeOK
<1>1. UInv => UsersTypeOK
  BY DEF UInv
<1> QED BY <1>1, Invariance, PTL

\* A caller that was given an export's id can fetch it, whatever else failed.
THEOREM ServedExportIsKeptHolds == JobSpec => []ServedExportIsKept
<1>1. UInv => ServedExportIsKept
  BY DEF UInv
<1> QED BY <1>1, Invariance, PTL

\* A request that has the job's directories to itself is answered with its own
\* video.
THEOREM ServedIsRequestedHolds == JobSpec => []ServedIsRequested
<1>1. UInv => ServedIsRequested
  BY DEF UInv
<1> QED BY <1>1, Invariance, PTL

\* Nothing of a job stays on the disk once all its requests have ended, but for a
\* clean-up that failed or a process that died since.
THEOREM NothingIsLeftHolds == JobSpec => []NothingIsLeft
<1>1. Active = {} => \A u \in Users : at[u] \in Idle
  BY DEF Active, Idle
<1>2. UInv => NothingIsLeft
  BY <1>1 DEF UInv, Clean, NothingIsLeft, Routes
<1> QED BY <1>2, Invariance, PTL
=============================================================================
