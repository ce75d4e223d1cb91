----------------------- MODULE WindowsCheckpoint_proofs -----------------------
(***************************************************************************)
(* The checkpoint on Windows, for any number of processes and journeys:    *)
(* what a command holds stays in its place, its answer is true, and no     *)
(* journey is lost that nobody wanted gone.                                *)
(***************************************************************************)
EXTENDS WindowsCheckpoint, TLAPS

\* After the archive of a complete, and after its flush.
Archiving(p) ==
    /\ op[p] = "complete"
    /\ \/ pc[p] \in {"reopen", "settle", "remove", "close", "flush"}
       \/ pc[p] = "leave" /\ changed[p]
Settled(p) == op[p] = "complete" /\ pc[p] \in {"settle", "remove", "close", "flush"}

\* A command that has read current.json, or put it there.
Knows(p) ==
    \/ op[p] = "complete" /\ pc[p] \in {"write", "rename", "reopen", "settle"}
    \/ op[p] \in {"complete", "clear"} /\ pc[p] \in {"remove", "close", "flush"}
    \/ op[p] = "save" /\ pc[p] \in {"reopen", "settle"}

\* Where each command may be.
Labelled(p) ==
    /\ op[p] = "show" => pc[p] \in {"idle", "open", "leave"}
    /\ op[p] = "save" => pc[p] \in {"write", "rename", "reopen", "settle", "leave"}
    /\ op[p] = "clear" => pc[p] \in {"open", "remove", "close", "flush", "leave"}
    /\ op[p] = "complete" => pc[p] # "idle"
    /\ pc[p] = "idle" => op[p] = "show" /\ ~changed[p] /\ ~disturbed[p] /\ file[p] = NoFile
    /\ pc[p] # "leave" => closing[p] = "fine"
    /\ op[p] = "save" /\ pc[p] \in {"write", "rename"} => file[p] = NoFile

\* The temporary file and what complete has made of it.
Writing(p) ==
    /\ pc[p] = "rename" => temp[p] # NoFile
    /\ pc[p] \notin {"rename", "leave"} => temp[p] = NoFile
    /\ Knows(p) => file[p] # NoFile
    /\ Knows(p) /\ op[p] # "save" => file[p].data \in Valid
    /\ pc[p] = "rename" => temp[p].data \in Valid
    /\ pc[p] = "rename" /\ op[p] = "complete" => temp[p].data = file[p].data
    /\ Archiving(p) => history[stamp[p]] = file[p].data
    /\ Settled(p) => \A m \in moments : m.history[stamp[p]] = file[p].data

\* What is held, and how it goes.
Holding(p) ==
    /\ Grips(p) => /\ current # NoFile /\ current.ino = file[p].ino
                   /\ ~disturbed[p] => current = file[p]
    /\ Grips(p) /\ pc[p] \notin {"close", "leave"} => ~deleting
    /\ Grips(p) /\ pc[p] = "leave" /\ deleting => op[p] = "clear" \/ Archiving(p)
    /\ pc[p] = "close" => deleting
    /\ pc[p] = "flush" /\ ~disturbed[p] => current = NoFile \/ deleting
    /\ pc[p] \in {"open", "write", "rename"} => ~changed[p]
    /\ pc[p] \in {"remove", "close"} /\ op[p] = "clear" => ~changed[p]
    /\ op[p] = "complete" /\ pc[p] \in {"reopen", "settle", "remove", "close", "flush"} =>
          changed[p]

Answering(p) ==
    pc[p] = "leave" =>
        /\ temp[p] # NoFile => named[p] \/ answer[p] = "error"
        /\ answer[p] \in {"failed", "absent"} /\ changed[p] =>
              op[p] = "clear" /\ closing[p] = "retried"
        /\ answer[p] = "partial" /\ ~disturbed[p] => current = file[p] /\ ~deleting
        /\ op[p] = "complete" /\ answer[p] \in {"done", "archived"} => changed[p]
        /\ answer[p] = "done" /\ op[p] = "save" /\ ~disturbed[p] =>
              current = file[p] /\ ~deleting
        /\ (answer[p] = "done" /\ op[p] \in {"complete", "clear"}) \/ closing[p] = "retried" =>
              file[p] # NoFile /\ (~disturbed[p] => current = NoFile \/ deleting)

Fit(p) == Labelled(p) /\ Writing(p) /\ Holding(p) /\ Answering(p)

OneInside == \A p, q \in Process : Inside(p) /\ Inside(q) => p = q

PromisesKept == \A r \in promised : \A m \in moments : m.history[r[1]] = r[2]

Sound ==
    /\ TypeOK /\ Now \in moments
    /\ OneInside /\ PromisesKept
    /\ \A p \in Process : Fit(p)

LEMMA NoSuchFile == NoFile \notin File /\ NoJourney \notin Content
  BY WindowsAssumption DEF File, Content

LEMMA NewFilesAreFiles ==
    ASSUME NEW c, c \subseteq Content, NEW f \in NewFiles(c)
    PROVE  f \in File /\ f.data \in c
  BY DEF NewFiles, File

LEMMA SoundInit == Init => Sound
  <1> SUFFICES ASSUME Init PROVE Sound
    OBVIOUS
  <1>1. AnyStamp \in Stamp
    BY WindowsAssumption DEF AnyStamp
  <1>2. Now \in Moment
    BY DEF Init, Now, Moment
  <1>3. TypeOK /\ Now \in moments
    BY <1>1, <1>2 DEF Init, TypeOK, Labels, Answers
  <1>4. OneInside /\ PromisesKept
    BY DEF Init, OneInside, Inside, PromisesKept
  <1>5. \A p \in Process : Fit(p)
    BY DEF Init, Fit, Labelled, Writing, Holding, Answering, Knows, Archiving, Settled, Grips
  <1> QED
    BY <1>3, <1>4, <1>5 DEF Sound

-----------------------------------------------------------------------------
(* Types.                                                                  *)

LEMMA TypedNext == Sound /\ [Next]_vars => TypeOK' /\ Now' \in moments'
  <1> SUFFICES ASSUME TypeOK, Now \in moments, \A p \in Process : Fit(p), [Next]_vars
               PROVE  TypeOK' /\ Now' \in moments'
    BY DEF Sound
  <1>a. AnyStamp \in Stamp
    BY WindowsAssumption DEF AnyStamp
  <1>b. Valid \subseteq Content /\ \A p \in Process : file[p] \in File => {file[p].data} \subseteq Content
    BY DEF Content, File
  <1>c. \A m \in moments : /\ m.current \in File \cup {NoFile}
                           /\ m.history \in [Stamp -> Valid \cup {NoJourney}]
    BY DEF TypeOK, Moment
  <1>d. Now' = [current |-> current', history |-> history']
    BY DEF Now
  <1>e. ASSUME Vanish \/ UNCHANGED disk
        PROVE  /\ current' \in File \cup {NoFile} /\ deleting' \in BOOLEAN
               /\ history' \in [Stamp -> Valid \cup {NoJourney}]
               /\ moments' \subseteq Moment /\ Now' \in moments'
    <2>1. CASE Vanish
      <3>1. Now' \in Moment /\ moments' = moments \cup {Now'}
        BY <1>d, <2>1 DEF Vanish, Log, Moment, TypeOK
      <3> QED
        BY <2>1, <3>1 DEF Vanish, TypeOK
    <2>2. CASE UNCHANGED disk
      BY <2>2 DEF disk, TypeOK, Now
    <2> QED
      BY <1>e, <2>1, <2>2
  <1> USE DEF Goto, Answer, Ends, Breaks, Change, Flushed, FlushDirectory, Log
  <1>1. ASSUME NEW p \in Process, Enter(p) PROVE TypeOK' /\ Now' \in moments'
    BY <1>1, <1>a DEF Enter, TypeOK, disk, local, Labels, Answers, Moment, Now, Begin
  <1>2. ASSUME NEW p \in Process, GivesUp(p) PROVE TypeOK' /\ Now' \in moments'
    BY <1>2, <1>a DEF GivesUp, TypeOK, disk, local, Labels, Answers, Moment, Now
  <1>3. ASSUME NEW p \in Process, Leave(p) PROVE TypeOK' /\ Now' \in moments'
    <2>1. Vanish \/ UNCHANGED disk
      BY <1>3 DEF Leave, LetGo
    <2> QED
      BY <1>3, <1>a, <1>e, <2>1 DEF Leave, Reset, TypeOK, local, Labels, Answers
  <1>4. ASSUME NEW p \in Process, Absent(p) PROVE TypeOK' /\ Now' \in moments'
    BY <1>4, <1>a DEF Absent, TypeOK, disk, local, Labels, Answers, Moment, Now
  <1>5. ASSUME NEW p \in Process, Show(p) PROVE TypeOK' /\ Now' \in moments'
    BY <1>5, <1>a DEF Show, Opens, TypeOK, disk, local, Labels, Answers, Moment, Now
  <1>6. ASSUME NEW p \in Process, Read(p) PROVE TypeOK' /\ Now' \in moments'
    BY <1>6, <1>a DEF Read, Opens, TypeOK, disk, local, Labels, Answers, Moment, Now
  <1>7. ASSUME NEW p \in Process, WriteTemp(p) PROVE TypeOK' /\ Now' \in moments'
    <2>1. ToWrite(p) \subseteq Content
      BY <1>7, <1>b DEF WriteTemp, ToWrite, Fit, Writing, Knows, Labelled, TypeOK, Content
    <2>2. NewFiles(ToWrite(p)) \subseteq File
      BY <2>1, NewFilesAreFiles
    <2> QED
      BY <1>7, <2>2 DEF WriteTemp, TypeOK, disk, local, Labels, Answers, Moment, Now
  <1>8. ASSUME NEW p \in Process, WriteFails(p) PROVE TypeOK' /\ Now' \in moments'
    <2>1. ToWrite(p) \subseteq Content
      BY <1>8, <1>b DEF WriteFails, ToWrite, Fit, Writing, Knows, Labelled, TypeOK, Content
    <2>2. NewFiles(ToWrite(p)) \subseteq File
      BY <2>1, NewFilesAreFiles
    <2>3. temp' \in [Process -> File \cup {NoFile}] /\ named' \in [Process -> BOOLEAN]
      <3>1. CASE UNCHANGED <<temp, named>>
        BY <3>1 DEF TypeOK
      <3>2. ASSUME NEW f \in NewFiles(ToWrite(p)), temp' = [temp EXCEPT ![p] = f],
                   named' = [named EXCEPT ![p] = TRUE]
            PROVE  temp' \in [Process -> File \cup {NoFile}] /\ named' \in [Process -> BOOLEAN]
        BY <2>2, <3>2 DEF TypeOK
      <3> QED
        BY <1>8, <3>1, <3>2 DEF WriteFails
    <2>4. pc' \in [Process -> Labels] /\ answer' \in [Process -> Answers]
          /\ closing' \in [Process -> {"fine", "retried", "stuck"}]
      BY <1>8 DEF WriteFails, TypeOK, Labels, Answers
    <2> QED
      BY <1>8, <2>3, <2>4 DEF WriteFails, TypeOK, disk, Now
  <1>9. ASSUME NEW p \in Process, Publish(p) PROVE TypeOK' /\ Now' \in moments'
    <2>1. temp[p] \in File /\ temp[p].data \in Valid /\ stamp[p] \in Stamp
      BY <1>9 DEF Publish, Fit, Writing, TypeOK
    <2>2. /\ current' \in File \cup {NoFile}
          /\ history' \in [Stamp -> Valid \cup {NoJourney}]
      BY <1>9, <2>1 DEF Publish, TypeOK
    <2>3. moments' = moments \cup {Now'} /\ Now' \in Moment
      BY <1>9, <1>d, <2>2 DEF Publish, Renamed, Moment
    <2> QED
      BY <1>9, <2>1, <2>2, <2>3 DEF Publish, TypeOK, disk, local, Labels, Answers, Moment, Now, Renamed
  <1>10. ASSUME NEW p \in Process, Archive(p) PROVE TypeOK' /\ Now' \in moments'
    <2>1. temp[p] \in File /\ temp[p].data \in Valid /\ stamp[p] \in Stamp
      BY <1>10 DEF Archive, Fit, Writing, TypeOK
    <2>2. /\ current' \in File \cup {NoFile}
          /\ history' \in [Stamp -> Valid \cup {NoJourney}]
      BY <1>10, <2>1 DEF Archive, TypeOK
    <2>3. moments' = moments \cup {Now'} /\ Now' \in Moment
      BY <1>10, <1>d, <2>2 DEF Archive, Renamed, Moment
    <2> QED
      BY <1>10, <2>1, <2>2, <2>3 DEF Archive, TypeOK, disk, local, Labels, Answers, Moment, Now, Renamed, MayArchive
  <1>11. ASSUME NEW p \in Process, RenameFails(p) PROVE TypeOK' /\ Now' \in moments'
    BY <1>11, <1>a DEF RenameFails, TypeOK, disk, local, Labels, Answers, Moment, Now, Discard
  <1>12. ASSUME NEW p \in Process, Reopen(p) PROVE TypeOK' /\ Now' \in moments'
    BY <1>12, <1>a DEF Reopen, TypeOK, disk, local, Labels, Answers, Moment, Now, Unsure
  <1>13. ASSUME NEW p \in Process, Settle(p) PROVE TypeOK' /\ Now' \in moments'
    BY <1>13, <1>a DEF Settle, TypeOK, disk, local, Labels, Answers, Moment, Now, Unsure
  <1>14. ASSUME NEW p \in Process, Remove(p) PROVE TypeOK' /\ Now' \in moments'
    BY <1>14, <1>a DEF Remove, TypeOK, disk, local, Labels, Answers, Moment, Now, MayRemove
  <1>15. ASSUME NEW p \in Process, RemoveFails(p) PROVE TypeOK' /\ Now' \in moments'
    BY <1>15, <1>a DEF RemoveFails, TypeOK, disk, local, Labels, Answers, Moment, Now
  <1>16. ASSUME NEW p \in Process, Close(p) PROVE TypeOK' /\ Now' \in moments'
    <2>1. Vanish \/ UNCHANGED disk
      BY <1>16 DEF Close, LetGo
    <2> QED
      BY <1>16, <1>a, <1>e, <2>1 DEF Close, Reset, TypeOK, local, Labels, Answers
  <1>17. ASSUME NEW p \in Process, FlushRemoval(p) PROVE TypeOK' /\ Now' \in moments'
    <2>1. promised' \subseteq Stamp \X Valid
      <3>1. op[p] = "complete" => <<stamp[p], file[p].data>> \in Stamp \X Valid
        BY <1>17 DEF FlushRemoval, Fit, Writing, Knows, TypeOK
      <3> QED
        BY <1>17, <3>1 DEF FlushRemoval, TypeOK
    <2>2. Now' = Now /\ moments' \subseteq moments \cup {Now} /\ Now' \in moments'
      BY <1>17 DEF FlushRemoval, Now
    <2> QED
      BY <1>17, <2>1, <2>2 DEF FlushRemoval, Unsettled, TypeOK, Labels, Answers
  <1>18. ASSUME NEW p \in Process, Kill(p) PROVE TypeOK' /\ Now' \in moments'
    <2>1. Vanish \/ UNCHANGED disk
      BY <1>18 DEF Kill, LetGo
    <2> QED
      BY <1>18, <1>a, <1>e, <2>1 DEF Kill, Reset, TypeOK, local, Labels, Answers
  <1>24. ASSUME NEW p \in Process, CloseFails(p) PROVE TypeOK' /\ Now' \in moments'
    <2>1. Vanish \/ UNCHANGED disk
      BY <1>24 DEF CloseFails, LetGo
    <2> QED
      BY <1>24, <1>e, <2>1 DEF CloseFails, TypeOK, Labels, Answers
  <1>25. ASSUME NEW p \in Process, Unreleased(p) PROVE TypeOK' /\ Now' \in moments'
    BY <1>25 DEF Unreleased, TypeOK, disk, Answers, Now
  <1>19. CASE Displace
    <2>1. current' \in File \cup {NoFile}
      BY <1>19, NewFilesAreFiles DEF Displace
    <2>2. moments' = moments \cup {Now'} /\ Now' \in Moment
      BY <1>19, <1>d, <2>1 DEF Displace, Moment, TypeOK
    <2> QED
      BY <1>19, <2>1, <2>2 DEF Displace, Disturb, Inside, TypeOK, disk, local, Labels, Answers, Moment, Now
  <1>20. CASE OpenOutside \/ WriteBack \/ UNCHANGED vars
    BY <1>20 DEF OpenOutside, WriteBack, vars, TypeOK, disk, local, Labels, Answers, Moment, Now
  <1>21. CASE Edit
    <2>1. PICK data \in Content \ {current.data} :
          LET Edited(f) == IF f # NoFile /\ f.ino = current.ino THEN [f EXCEPT !.data = data] ELSE f
          IN  /\ current' = Edited(current)
              /\ moments' = moments \cup {[m EXCEPT !.current = Edited(m.current)] : m \in moments}
      BY <1>21 DEF Edit
    <2> DEFINE Edited(f) == IF f # NoFile /\ f.ino = current.ino THEN [f EXCEPT !.data = data] ELSE f
    <2>2. \A f \in File \cup {NoFile} : Edited(f) \in File \cup {NoFile}
      BY DEF File
    <2>3. \A m \in moments : [m EXCEPT !.current = Edited(m.current)] \in Moment
      BY <1>c, <2>2 DEF TypeOK, Moment
    <2>4. Now' = [Now EXCEPT !.current = Edited(Now.current)]
      BY <1>21, <2>1 DEF Edit, Now
    <2>5. current' \in File \cup {NoFile} /\ moments' \subseteq Moment
      BY <2>1, <2>2, <2>3 DEF TypeOK
    <2>6. Now' \in moments'
      BY <2>1, <2>4
    <2> QED
      BY <1>21, <2>5, <2>6 DEF Edit, Disturb, Inside, TypeOK
  <1>22. CASE CloseOutside
    <2>1. Vanish \/ UNCHANGED disk
      BY <1>22 DEF CloseOutside
    <2> QED
      BY <1>22, <1>e, <2>1 DEF CloseOutside, TypeOK, local
  <1>23. CASE PowerFails
    <2>1. PICK m \in moments : current' = m.current /\ history' = m.history /\ moments' = {m}
      BY <1>23 DEF PowerFails
    <2>2. m \in Moment /\ Now' = m
      BY <1>d, <2>1 DEF TypeOK, Moment
    <2> QED
      BY <1>23, <1>a, <1>c, <2>1, <2>2 DEF PowerFails, TypeOK, Labels, Answers
  <1> QED
    BY <1>1, <1>2, <1>3, <1>4, <1>5, <1>6, <1>7, <1>8, <1>9, <1>10, <1>11, <1>12, <1>13, <1>14, <1>15, <1>16, <1>17, <1>18, <1>19, <1>20, <1>21, <1>22, <1>23,
       <1>24, <1>25
    DEF Next, Commands

-----------------------------------------------------------------------------
(* One command at a time.                                                  *)

LEMMA FitIdle ==
    ASSUME NEW q \in Process, pc'[q] = "idle", op'[q] = "show", file'[q] = NoFile,
           temp'[q] = NoFile, closing'[q] = "fine", ~changed'[q], ~disturbed'[q]
    PROVE  Fit(q)'
  BY DEF Fit, Labelled, Writing, Holding, Answering, Knows, Archiving, Settled, Grips

\* The other processes are idle before and after a step of one.
LEMMA OthersFit ==
    ASSUME Sound, NEW p \in Process, NEW q \in Process, q # p,
           Commands(p) \/ Kill(p)
    PROVE  pc[q] = "idle" /\ pc'[q] = "idle" /\ Fit(q)'
  <1>1. pc[q] = "idle"
    <2>1. Inside(p) \/ \A r \in Process : ~Inside(r)
      BY DEF Commands, Enter, GivesUp, Leave, Absent, Show, Read, WriteTemp, WriteFails, Publish,
             Archive, RenameFails, Reopen, Settle, Remove, MayRemove, RemoveFails, Close,
             CloseFails, Unreleased, FlushRemoval, Kill, Inside
    <2> QED
      BY <2>1 DEF Sound, OneInside, Inside
  <1>2. /\ op[q] = "show" /\ file[q] = NoFile /\ temp[q] = NoFile /\ closing[q] = "fine"
        /\ ~changed[q] /\ ~disturbed[q]
    BY <1>1 DEF Sound, Fit, Labelled, Writing
  <1>3. /\ pc'[q] = pc[q] /\ op'[q] = op[q] /\ file'[q] = file[q] /\ temp'[q] = temp[q]
        /\ closing'[q] = closing[q] /\ changed'[q] = changed[q] /\ disturbed'[q] = disturbed[q]
    <2>1. /\ pc \in [Process -> Labels]
          /\ file \in [Process -> File \cup {NoFile}] /\ temp \in [Process -> File \cup {NoFile}]
          /\ closing \in [Process -> {"fine", "retried", "stuck"}]
          /\ op \in [Process -> {"show", "save", "complete", "clear"}]
          /\ changed \in [Process -> BOOLEAN] /\ disturbed \in [Process -> BOOLEAN]
      BY DEF Sound, TypeOK
    <2> USE <2>1 DEF Goto, Answer, Ends, Breaks, Change, Reset, Renamed, Discard, local
    <2>2. CASE Enter(p)
      BY <2>2 DEF Enter, Begin
    <2>3. CASE GivesUp(p)
      BY <2>3 DEF GivesUp
    <2>4. CASE Leave(p)
      BY <2>4 DEF Leave
    <2>5. CASE Absent(p)
      BY <2>5 DEF Absent
    <2>6. CASE Show(p)
      BY <2>6 DEF Show
    <2>7. CASE Read(p)
      BY <2>7 DEF Read
    <2>8. CASE WriteTemp(p)
      BY <2>8 DEF WriteTemp
    <2>9. CASE WriteFails(p)
      BY <2>9 DEF WriteFails
    <2>10. CASE Publish(p)
      BY <2>10 DEF Publish
    <2>11. CASE Archive(p)
      BY <2>11 DEF Archive
    <2>12. CASE RenameFails(p)
      BY <2>12 DEF RenameFails
    <2>13. CASE Reopen(p)
      BY <2>13 DEF Reopen
    <2>14. CASE Settle(p)
      BY <2>14 DEF Settle
    <2>15. CASE Remove(p)
      BY <2>15 DEF Remove
    <2>16. CASE RemoveFails(p)
      BY <2>16 DEF RemoveFails
    <2>17. CASE Close(p)
      BY <2>17 DEF Close
    <2>18. CASE FlushRemoval(p)
      BY <2>18 DEF FlushRemoval
    <2>19. CASE Kill(p)
      BY <2>19 DEF Kill
    <2>20. CASE CloseFails(p)
      BY <2>20 DEF CloseFails
    <2>21. CASE Unreleased(p)
      BY <2>21 DEF Unreleased
    <2> QED
      BY <2>20, <2>21, <2>2, <2>3, <2>4, <2>5, <2>6, <2>7, <2>8, <2>9, <2>10, <2>11, <2>12, <2>13, <2>14, <2>15, <2>16, <2>17, <2>18, <2>19 DEF Commands
  <1> QED
    BY <1>1, <1>2, <1>3, FitIdle

-----------------------------------------------------------------------------
(* The command itself.                                                     *)

LEMMA ActorFits ==
    ASSUME Sound, TypeOK', Now' \in moments', NEW p \in Process, Commands(p) \/ Kill(p)
    PROVE  Fit(p)'
  <1>1. /\ pc \in [Process -> Labels] /\ answer \in [Process -> Answers]
        /\ op \in [Process -> {"show", "save", "complete", "clear"}]
        /\ stamp \in [Process -> Stamp]
        /\ file \in [Process -> File \cup {NoFile}] /\ temp \in [Process -> File \cup {NoFile}]
        /\ closing \in [Process -> {"fine", "retried", "stuck"}]
        /\ named \in [Process -> BOOLEAN]
        /\ changed \in [Process -> BOOLEAN] /\ disturbed \in [Process -> BOOLEAN]
        /\ history \in [Stamp -> Valid \cup {NoJourney}]
    BY DEF Sound, TypeOK
  <1>2. Labelled(p) /\ Writing(p) /\ Holding(p) /\ Answering(p)
    BY DEF Sound, Fit
  <1>a. NoFile \notin File /\ \A f \in File : f.data \in Content
    BY NoSuchFile DEF File
  <1> USE <1>1 DEF Goto, Answer, Ends, Breaks, Change
  <1>3. CASE Enter(p)
    <2>1. Labelled(p)'
      BY <1>2, <1>3 DEF Enter, local, Labelled, Begin, Inside
    <2>2. Writing(p)'
      BY <1>2, <1>a, <1>3 DEF Enter, disk, local, Labelled, Writing, Knows, Archiving, Settled, Begin, Inside
    <2>3. Holding(p)'
      BY <1>2, <1>a, <1>3 DEF Enter, disk, local, Labelled, Writing, Knows, Archiving, Holding, Grips, Begin, Inside
    <2>4. Answering(p)'
      BY <1>2, <1>a, <1>3 DEF Enter, disk, local, Labelled, Writing, Knows, Archiving, Holding, Grips, Answering, Begin, Inside
    <2> QED
      BY <2>1, <2>2, <2>3, <2>4 DEF Fit
  <1>4. CASE GivesUp(p)
    <2>1. Labelled(p)'
      BY <1>2, <1>4 DEF GivesUp, local, Labelled
    <2>2. Writing(p)'
      BY <1>2, <1>a, <1>4 DEF GivesUp, disk, local, Labelled, Writing, Knows, Archiving, Settled, Holding
    <2>3. Holding(p)'
      BY <1>2, <1>a, <1>4 DEF GivesUp, disk, local, Labelled, Writing, Knows, Archiving, Holding, Grips
    <2>4. Answering(p)'
      BY <1>2, <1>a, <1>4 DEF GivesUp, disk, local, Labelled, Writing, Knows, Archiving, Holding, Grips, Answering
    <2> QED
      BY <2>1, <2>2, <2>3, <2>4 DEF Fit
  <1>5. CASE Leave(p)
    BY <1>5, FitIdle DEF Leave, Reset
  <1>6. CASE Absent(p)
    <2>1. Labelled(p)'
      BY <1>2, <1>6 DEF Absent, local, Labelled
    <2>2. Writing(p)'
      BY <1>2, <1>a, <1>6 DEF Absent, disk, local, Labelled, Writing, Knows, Archiving, Settled, Holding
    <2>3. Holding(p)'
      BY <1>2, <1>a, <1>6 DEF Absent, disk, local, Labelled, Writing, Knows, Archiving, Holding, Grips
    <2>4. Answering(p)'
      BY <1>2, <1>a, <1>6 DEF Absent, disk, local, Labelled, Writing, Knows, Archiving, Holding, Grips, Answering
    <2> QED
      BY <2>1, <2>2, <2>3, <2>4 DEF Fit
  <1>7. CASE Show(p)
    <2>1. Labelled(p)'
      BY <1>2, <1>7 DEF Show, local, Labelled, Opens
    <2>2. Writing(p)'
      BY <1>2, <1>a, <1>7 DEF Show, disk, local, Labelled, Writing, Knows, Archiving, Settled, Opens
    <2>3. Holding(p)'
      BY <1>2, <1>a, <1>7 DEF Show, disk, local, Labelled, Writing, Knows, Archiving, Holding, Grips, Opens
    <2>4. Answering(p)'
      BY <1>2, <1>a, <1>7 DEF Show, disk, local, Labelled, Writing, Knows, Archiving, Holding, Grips, Answering, Opens
    <2> QED
      BY <2>1, <2>2, <2>3, <2>4 DEF Fit
  <1>8. CASE Read(p)
    <2>1. Labelled(p)'
      BY <1>2, <1>8 DEF Read, local, Labelled, Opens
    <2>2. Writing(p)'
      BY <1>2, <1>a, <1>8 DEF Read, disk, local, Labelled, Writing, Knows, Archiving, Settled, Holding, Opens
    <2>3. Holding(p)'
      BY <1>2, <1>a, <1>8 DEF Read, disk, local, Labelled, Writing, Knows, Archiving, Holding, Grips, Opens
    <2>4. Answering(p)'
      BY <1>2, <1>a, <1>8 DEF Read, disk, local, Labelled, Writing, Knows, Archiving, Holding, Grips, Answering, Opens
    <2> QED
      BY <2>1, <2>2, <2>3, <2>4 DEF Fit
  <1>9. CASE WriteTemp(p)
    <2>1. Labelled(p)'
      BY <1>2, <1>9 DEF WriteTemp, local, Labelled
    <2>2. Writing(p)'
      <3>1. PICK f \in NewFiles(ToWrite(p)) : temp' = [temp EXCEPT ![p] = f]
        BY <1>9 DEF WriteTemp
      <3>2. op[p] \in {"save", "complete"} /\ (op[p] # "save" => file[p] \in File /\ file[p].data \in Valid)
        BY <1>2, <1>9 DEF WriteTemp, Labelled, Writing, Knows
      <3>3. ToWrite(p) \subseteq Content
        BY <3>2 DEF ToWrite, Content
      <3>4. f \in File /\ f.data \in ToWrite(p)
        BY <3>1, <3>3, NewFilesAreFiles
      <3>5. f # NoFile /\ f.data \in Valid /\ (op[p] = "complete" => f.data = file[p].data)
        <4>1. f # NoFile
          BY <3>4, NoSuchFile, Zenon
        <4>2. CASE op[p] = "save"
          BY <3>4, <4>1, <4>2 DEF ToWrite
        <4>3. CASE op[p] = "complete"
          BY <3>2, <3>4, <4>1, <4>3 DEF ToWrite
        <4> QED
          BY <3>2, <4>2, <4>3
      <3>6. /\ pc'[p] = "rename" /\ temp'[p] = f
            /\ UNCHANGED <<op, file, stamp, history, moments>> /\ pc[p] = "write"
        BY <1>9, <3>1 DEF WriteTemp, disk
      <3> QED
        BY <1>2, <3>2, <3>5, <3>6 DEF Writing, Knows, Archiving, Settled
    <2>3. Holding(p)'
      BY <1>2, <1>a, <1>9 DEF WriteTemp, disk, local, Labelled, Writing, Knows, Archiving, Holding, Grips
    <2>4. Answering(p)'
      BY <1>2, <1>a, <1>9 DEF WriteTemp, disk, local, Labelled, Writing, Knows, Archiving, Holding, Grips, Answering
    <2> QED
      BY <2>1, <2>2, <2>3, <2>4 DEF Fit
  <1>10. CASE WriteFails(p)
    <2>1. Labelled(p)'
      BY <1>2, <1>10 DEF WriteFails, local, Labelled
    <2>2. Writing(p)'
      BY <1>2, <1>a, <1>10 DEF WriteFails, disk, local, Labelled, Writing, Knows, Archiving, Settled, Holding
    <2>3. Holding(p)'
      BY <1>2, <1>a, <1>10 DEF WriteFails, disk, local, Labelled, Writing, Knows, Archiving, Holding, Grips
    <2>4. Answering(p)'
      BY <1>2, <1>a, <1>10 DEF WriteFails, disk, local, Labelled, Writing, Knows, Archiving, Holding, Grips, Answering
    <2> QED
      BY <2>1, <2>2, <2>3, <2>4 DEF Fit
  <1>11. CASE Publish(p)
    <2>1. Labelled(p)'
      BY <1>2, <1>11 DEF Publish, local, Labelled, Renamed, Loose
    <2>2. Writing(p)'
      BY <1>2, <1>a, <1>11 DEF Publish, disk, local, Labelled, Writing, Knows, Archiving, Settled, Renamed, Loose
    <2>3. Holding(p)'
      BY <1>2, <1>a, <1>11 DEF Publish, disk, local, Labelled, Writing, Knows, Archiving, Holding, Grips, Renamed, Loose
    <2>4. Answering(p)'
      BY <1>2, <1>a, <1>11 DEF Publish, disk, local, Labelled, Writing, Knows, Archiving, Holding, Grips, Answering, Renamed, Loose
    <2> QED
      BY <2>1, <2>2, <2>3, <2>4 DEF Fit
  <1>12. CASE Archive(p)
    <2>1. Labelled(p)'
      BY <1>2, <1>12 DEF Archive, local, Labelled, Renamed, MayArchive, Log
    <2>2. Writing(p)'
      BY <1>2, <1>a, <1>12 DEF Archive, disk, local, Labelled, Writing, Knows, Archiving, Settled, Renamed, MayArchive, Log
    <2>3. Holding(p)'
      BY <1>2, <1>a, <1>12 DEF Archive, disk, local, Labelled, Writing, Knows, Archiving, Holding, Grips, Renamed, MayArchive, Log
    <2>4. Answering(p)'
      BY <1>2, <1>a, <1>12 DEF Archive, disk, local, Labelled, Writing, Knows, Archiving, Holding, Grips, Answering, Renamed, MayArchive, Log
    <2> QED
      BY <2>1, <2>2, <2>3, <2>4 DEF Fit
  <1>13. CASE RenameFails(p)
    <2>1. Labelled(p)'
      BY <1>2, <1>13 DEF RenameFails, local, Labelled, Discard
    <2>2. Writing(p)'
      BY <1>2, <1>a, <1>13 DEF RenameFails, disk, local, Labelled, Writing, Knows, Archiving, Settled, Holding, Discard
    <2>3. Holding(p)'
      BY <1>2, <1>a, <1>13 DEF RenameFails, disk, local, Labelled, Writing, Knows, Archiving, Holding, Grips, Discard
    <2>4. Answering(p)'
      BY <1>2, <1>a, <1>13 DEF RenameFails, disk, local, Labelled, Writing, Knows, Archiving, Holding, Grips, Answering, Discard
    <2> QED
      BY <2>1, <2>2, <2>3, <2>4 DEF Fit
  <1>14. CASE Reopen(p)
    <2>1. Labelled(p)'
      BY <1>2, <1>14 DEF Reopen, local, Labelled, Unsure, Flushed
    <2>2. Writing(p)'
      <3>1. Now.history = history
        BY DEF Now
      <3>2. CASE Flushed
        <4>1. \A m \in moments' : m.history = history
          BY <3>1, <3>2 DEF Flushed
        <4> QED
          BY <1>2, <1>14, <4>1 DEF Reopen, disk, local, Labelled, Writing, Knows, Archiving, Settled, Unsure
      <3>3. CASE pc' = [pc EXCEPT ![p] = "leave"] /\ UNCHANGED moments
        BY <1>2, <1>14, <3>3 DEF Reopen, disk, local, Labelled, Writing, Knows, Archiving, Settled
      <3> QED
        BY <1>14, <3>2, <3>3 DEF Reopen
    <2>3. Holding(p)'
      BY <1>2, <1>a, <1>14 DEF Reopen, disk, local, Labelled, Writing, Knows, Archiving, Holding, Grips, Unsure, Flushed
    <2>4. Answering(p)'
      BY <1>2, <1>a, <1>14 DEF Reopen, disk, local, Labelled, Writing, Knows, Archiving, Holding, Grips, Answering, Unsure, Flushed
    <2> QED
      BY <2>1, <2>2, <2>3, <2>4 DEF Fit
  <1>15. CASE Settle(p)
    <2>1. Labelled(p)'
      BY <1>2, <1>15 DEF Settle, local, Labelled, Unsure, Flushed, FlushDirectory
    <2>2. Writing(p)'
      <3>1. Now \in moments /\ Now.history = history
        BY DEF Sound, Now
      <3>2. moments' \subseteq moments
        BY <1>15, <3>1 DEF Settle, FlushDirectory, Flushed
      <3> QED
        BY <1>2, <1>15, <3>2 DEF Settle, disk, local, Labelled, Writing, Knows, Archiving, Settled
    <2>3. Holding(p)'
      BY <1>2, <1>a, <1>15 DEF Settle, disk, local, Labelled, Writing, Knows, Archiving, Holding, Grips, Unsure, Flushed, FlushDirectory
    <2>4. Answering(p)'
      BY <1>2, <1>a, <1>15 DEF Settle, disk, local, Labelled, Writing, Knows, Archiving, Holding, Grips, Answering, Unsure, Flushed, FlushDirectory
    <2> QED
      BY <2>1, <2>2, <2>3, <2>4 DEF Fit
  <1>16. CASE Remove(p)
    <2>1. Labelled(p)'
      BY <1>2, <1>16 DEF Remove, local, Labelled, MayRemove
    <2>2. Writing(p)'
      BY <1>2, <1>a, <1>16 DEF Remove, disk, local, Labelled, Writing, Knows, Archiving, Settled, MayRemove
    <2>3. Holding(p)'
      BY <1>2, <1>a, <1>16 DEF Remove, disk, local, Labelled, Writing, Knows, Archiving, Holding, Grips, MayRemove
    <2>4. Answering(p)'
      BY <1>2, <1>a, <1>16 DEF Remove, disk, local, Labelled, Writing, Knows, Archiving, Holding, Grips, Answering, MayRemove
    <2> QED
      BY <2>1, <2>2, <2>3, <2>4 DEF Fit
  <1>17. CASE RemoveFails(p)
    <2>1. Labelled(p)'
      BY <1>2, <1>17 DEF RemoveFails, local, Labelled
    <2>2. Writing(p)'
      BY <1>2, <1>a, <1>17 DEF RemoveFails, disk, local, Labelled, Writing, Knows, Archiving, Settled
    <2>3. Holding(p)'
      BY <1>2, <1>a, <1>17 DEF RemoveFails, disk, local, Labelled, Writing, Knows, Archiving, Holding, Grips
    <2>4. Answering(p)'
      BY <1>2, <1>a, <1>17 DEF RemoveFails, disk, local, Labelled, Writing, Knows, Archiving, Holding, Grips, Answering
    <2> QED
      BY <2>1, <2>2, <2>3, <2>4 DEF Fit
  <1>18. CASE Close(p)
    <2>1. Labelled(p)'
      BY <1>2, <1>18 DEF Close, local, Labelled, LetGo, Vanish
    <2>2. Writing(p)'
      <3>1. history' = history /\ \A m \in moments' : m \in moments \/ m.history = history
        BY <1>18 DEF Close, LetGo, Vanish, Log, disk
      <3> QED
        BY <1>2, <1>18, <3>1 DEF Close, disk, local, Labelled, Writing, Knows, Archiving, Settled
    <2>3. Holding(p)'
      BY <1>2, <1>a, <1>18 DEF Close, disk, local, Labelled, Writing, Knows, Archiving, Holding, Grips, LetGo, Vanish
    <2>4. Answering(p)'
      BY <1>2, <1>a, <1>18 DEF Close, disk, local, Labelled, Writing, Knows, Archiving, Holding, Grips, Answering, LetGo, Vanish
    <2> QED
      BY <2>1, <2>2, <2>3, <2>4 DEF Fit
  <1>19. CASE FlushRemoval(p)
    <2>1. Labelled(p)'
      BY <1>2, <1>19 DEF FlushRemoval, local, Labelled, Unsettled, Flushed, FlushDirectory
    <2>2. Writing(p)'
      BY <1>2, <1>a, <1>19 DEF FlushRemoval, disk, local, Labelled, Writing, Knows, Archiving, Settled, Unsettled, Flushed, FlushDirectory
    <2>3. Holding(p)'
      BY <1>2, <1>a, <1>19 DEF FlushRemoval, disk, local, Labelled, Writing, Knows, Archiving, Holding, Grips, Unsettled, Flushed, FlushDirectory
    <2>4. Answering(p)'
      BY <1>2, <1>a, <1>19 DEF FlushRemoval, disk, local, Labelled, Writing, Knows, Archiving, Holding, Grips, Answering, Unsettled, Flushed, FlushDirectory
    <2> QED
      BY <2>1, <2>2, <2>3, <2>4 DEF Fit
  <1>20. CASE Kill(p)
    BY <1>20, FitIdle DEF Kill, Reset
  <1>21. CASE CloseFails(p)
    <2>1. Labelled(p)'
      BY <1>2, <1>21 DEF CloseFails, Labelled
    <2>2. Writing(p)'
      <3>1. history' = history /\ \A m \in moments' : m \in moments \/ m.history = history
        BY <1>21 DEF CloseFails, LetGo, Vanish, Log, disk
      <3> QED
        BY <1>2, <1>21, <3>1 DEF CloseFails, Labelled, Writing, Knows, Archiving, Settled
    <2>3. Holding(p)'
      BY <1>2, <1>a, <1>21 DEF CloseFails, disk, Labelled, Writing, Knows, Archiving, Holding, Grips, LetGo, Vanish
    <2>4. Answering(p)'
      BY <1>2, <1>a, <1>21 DEF CloseFails, disk, Labelled, Writing, Knows, Archiving, Holding, Grips, Answering, LetGo, Vanish
    <2> QED
      BY <2>1, <2>2, <2>3, <2>4 DEF Fit
  <1>22. CASE Unreleased(p)
    <2>1. Labelled(p)'
      BY <1>2, <1>22 DEF Unreleased, Labelled
    <2>2. Writing(p)'
      BY <1>2, <1>22 DEF Unreleased, disk, Labelled, Writing, Knows, Archiving, Settled
    <2>3. Holding(p)'
      BY <1>2, <1>22 DEF Unreleased, disk, Labelled, Archiving, Holding, Grips
    <2>4. Answering(p)'
      BY <1>2, <1>22 DEF Unreleased, disk, Labelled, Holding, Answering
    <2> QED
      BY <2>1, <2>2, <2>3, <2>4 DEF Fit
  <1> QED
    BY <1>3, <1>4, <1>5, <1>6, <1>7, <1>8, <1>9, <1>10, <1>11, <1>12, <1>13, <1>14, <1>15, <1>16, <1>17, <1>18, <1>19, <1>20, <1>21, <1>22 DEF Commands

-----------------------------------------------------------------------------
(* Other programs, and the power.                                          *)

LEMMA FitAmong ==
    ASSUME Sound, TypeOK', Now' \in moments', NEW p \in Process,
           Displace \/ OpenOutside \/ Edit \/ CloseOutside \/ WriteBack \/ PowerFails \/ UNCHANGED vars
    PROVE  Fit(p)'
  <1>1. /\ pc \in [Process -> Labels] /\ op[p] \in {"show", "save", "complete", "clear"}
        /\ current \in File \cup {NoFile} /\ disturbed \in [Process -> BOOLEAN]
    BY DEF Sound, TypeOK
  <1>2. Labelled(p) /\ Writing(p) /\ Holding(p) /\ Answering(p)
    BY DEF Sound, Fit
  <1>3. Now \in moments /\ Now.history = history
    BY DEF Sound, Now
  <1>4. CASE OpenOutside \/ UNCHANGED vars
    BY <1>2, <1>4 DEF OpenOutside, vars, disk, local, Fit, Labelled, Writing, Holding, Answering,
                      Knows, Archiving, Settled, Grips
  <1>5. CASE WriteBack
    <2>1. moments' \subseteq moments
      BY <1>3, <1>5 DEF WriteBack, Flushed
    <2> QED
      BY <1>2, <1>5, <2>1 DEF WriteBack, local, Fit, Labelled, Writing, Holding, Answering,
                              Knows, Archiving, Settled, Grips
  <1>6. CASE Displace
    <2>1. ~Grips(p) /\ ~deleting
      BY <1>6 DEF Displace, Protected, Loose, Gripped
    <2>2. /\ UNCHANGED <<history, deleting, pc, op, stamp, file, temp, answer, closing, named, changed>>
          /\ disturbed'[p] = (pc[p] # "idle")
          /\ \A m \in moments' : m \in moments \/ m.history = history
      BY <1>6 DEF Displace, Disturb, Inside, Log
    <2>3. Labelled(p)' /\ Writing(p)'
      BY <1>2, <2>2 DEF Labelled, Writing, Knows, Archiving, Settled
    <2>4. Holding(p)' /\ Answering(p)'
      BY <1>2, <2>1, <2>2 DEF Holding, Answering, Grips, Archiving
    <2> QED
      BY <2>3, <2>4 DEF Fit
  <1>7. CASE Edit
    <2>1. PICK data \in Content \ {current.data} :
          LET Edited(f) == IF f # NoFile /\ f.ino = current.ino THEN [f EXCEPT !.data = data] ELSE f
          IN  /\ current' = Edited(current)
              /\ moments' = moments \cup {[m EXCEPT !.current = Edited(m.current)] : m \in moments}
      BY <1>7 DEF Edit
    <2>2. current = NoFile => current' = NoFile
      BY <2>1
    <2>3. current # NoFile => current' # NoFile /\ current'.ino = current.ino
      BY <1>1, <2>1, NoSuchFile DEF File
    <2>4. \A m \in moments' : \E k \in moments : m.history = k.history
      <3>1. \A k \in moments : k \in Moment
        BY DEF Sound, TypeOK
      <3> QED
        BY <2>1, <3>1 DEF Moment
    <2>5. /\ UNCHANGED <<history, deleting, pc, op, stamp, file, temp, answer, closing, named, changed>>
          /\ disturbed'[p] = (pc[p] # "idle")
      BY <1>7 DEF Edit, Disturb, Inside
    <2>6. Labelled(p)' /\ Writing(p)'
      BY <1>2, <2>4, <2>5 DEF Labelled, Writing, Knows, Archiving, Settled
    <2>7. Holding(p)' /\ Answering(p)'
      BY <1>2, <2>2, <2>3, <2>5 DEF Holding, Answering, Grips, Archiving
    <2> QED
      BY <2>6, <2>7 DEF Fit
  <1>8. CASE CloseOutside
    <2>1. UNCHANGED <<pc, op, stamp, file, temp, answer, closing, named, changed, disturbed, history>>
      BY <1>8 DEF CloseOutside, Vanish, disk, local
    <2>2. CASE deleting /\ ~Gripped
      <3>1. current' = NoFile /\ ~deleting' /\ ~Grips(p)
            /\ \A m \in moments' : m \in moments \/ m.history = history
        BY <1>8, <2>2 DEF CloseOutside, Vanish, Log, Gripped
      <3>2. Labelled(p)' /\ Writing(p)'
        BY <1>2, <2>1, <3>1 DEF Labelled, Writing, Knows, Archiving, Settled
      <3>3. Holding(p)' /\ Answering(p)'
        BY <1>1, <1>2, <2>1, <2>2, <3>1 DEF Labelled, Holding, Answering, Grips, Archiving
      <3> QED
        BY <3>2, <3>3 DEF Fit
    <2>3. CASE UNCHANGED disk
      BY <1>2, <2>1, <2>3 DEF disk, Fit, Labelled, Writing, Holding, Answering,
                              Knows, Archiving, Settled, Grips
    <2> QED
      BY <1>8, <2>2, <2>3 DEF CloseOutside
  <1>9. CASE PowerFails
    BY <1>9, FitIdle DEF PowerFails
  <1> QED
    BY <1>4, <1>5, <1>6, <1>7, <1>8, <1>9

-----------------------------------------------------------------------------
(* What was promised.                                                      *)

\* Only complete changes the history, where there was no entry.
LEMMA HistoryGrows ==
    ASSUME Sound, Now' \in moments', [Next]_vars
    PROVE  \A m \in moments' : \E k \in moments :
               \/ m.history = k.history
               \/ \E s \in Stamp, j \in Valid :
                     k.history[s] = NoJourney /\ m.history = [k.history EXCEPT ![s] = j]
  <1>1. Now \in moments /\ Now.history = history
    BY DEF Sound, Now
  <1>2. \A k \in moments : k \in Moment
    BY DEF Sound, TypeOK
  <1> USE DEF disk, local
  <1>3. CASE UNCHANGED moments
    BY <1>3
  <1>4. CASE Flushed \/ FlushDirectory
    BY <1>1, <1>4 DEF Flushed, FlushDirectory
  <1>5. CASE UNCHANGED history /\ Log
    BY <1>1, <1>5 DEF Log
  <1>6. ASSUME NEW p \in Process, Archive(p)
        PROVE  \A m \in moments' : \E k \in moments :
               \/ m.history = k.history
               \/ \E s \in Stamp, j \in Valid :
                     k.history[s] = NoJourney /\ m.history = [k.history EXCEPT ![s] = j]
    <2>1. stamp[p] \in Stamp /\ temp[p].data \in Valid
      BY <1>6 DEF Sound, TypeOK, Fit, Writing, Archive
    <2>2. history[stamp[p]] = NoJourney /\ history' = [history EXCEPT ![stamp[p]] = temp[p].data]
      BY <1>6 DEF Archive, MayArchive
    <2>3. \A m \in moments' : m \in moments \/ m.history = history'
      <3>1. Log
        BY <1>6 DEF Archive, Renamed
      <3> QED
        BY <3>1 DEF Log
    <2> QED
      BY <1>1, <2>1, <2>2, <2>3
  <1>7. CASE Edit
    BY <1>2, <1>7 DEF Edit, Moment
  <1>8. CASE PowerFails
    BY <1>8 DEF PowerFails
  <1>9. CASE OpenOutside \/ WriteBack \/ UNCHANGED vars
    BY <1>3, <1>4, <1>9 DEF OpenOutside, WriteBack, vars
  <1>10. CASE Displace \/ CloseOutside
    BY <1>3, <1>5, <1>10 DEF Displace, CloseOutside, Vanish
  <1>11. ASSUME NEW p \in Process, Commands(p) \/ Kill(p)
         PROVE  UNCHANGED moments \/ Flushed \/ FlushDirectory \/ (UNCHANGED history /\ Log) \/ Archive(p)
    <2>1. CASE Enter(p)
      BY <2>1 DEF Enter, Begin
    <2>2. CASE GivesUp(p)
      BY <2>2 DEF GivesUp
    <2>3. CASE Leave(p)
      BY <2>3 DEF Leave, LetGo, Vanish
    <2>4. CASE Absent(p)
      BY <2>4 DEF Absent
    <2>5. CASE Show(p)
      BY <2>5 DEF Show
    <2>6. CASE Read(p)
      BY <2>6 DEF Read
    <2>7. CASE WriteTemp(p)
      BY <2>7 DEF WriteTemp
    <2>8. CASE WriteFails(p)
      BY <2>8 DEF WriteFails
    <2>9. CASE Publish(p)
      BY <2>9 DEF Publish, Renamed
    <2>10. CASE Archive(p)
      BY <2>10 DEF Archive
    <2>11. CASE RenameFails(p)
      BY <2>11 DEF RenameFails
    <2>12. CASE Reopen(p)
      BY <2>12 DEF Reopen
    <2>13. CASE Settle(p)
      BY <2>13 DEF Settle
    <2>14. CASE Remove(p)
      BY <2>14 DEF Remove
    <2>15. CASE RemoveFails(p)
      BY <2>15 DEF RemoveFails
    <2>16. CASE Close(p)
      BY <2>16 DEF Close, LetGo, Vanish
    <2>17. CASE FlushRemoval(p)
      BY <2>17 DEF FlushRemoval
    <2>18. CASE Kill(p)
      BY <2>18 DEF Kill, LetGo, Vanish
    <2>19. CASE CloseFails(p)
      BY <2>19 DEF CloseFails, LetGo, Vanish
    <2>20. CASE Unreleased(p)
      BY <2>20 DEF Unreleased
    <2> QED
      BY <2>19, <2>20, <1>11, <2>1, <2>2, <2>3, <2>4, <2>5, <2>6, <2>7, <2>8, <2>9, <2>10, <2>11, <2>12, <2>13, <2>14, <2>15, <2>16, <2>17, <2>18 DEF Commands
  <1> QED
    BY <1>3, <1>4, <1>5, <1>6, <1>7, <1>8, <1>9, <1>10, <1>11 DEF Next

LEMMA PromisesNext ==
    ASSUME Sound, TypeOK', Now' \in moments', [Next]_vars
    PROVE  PromisesKept'
  <1>1. promised \subseteq Stamp \X Valid /\ NoJourney \notin Valid
    BY WindowsAssumption DEF Sound, TypeOK
  <1>2. \A k \in moments : k.history \in [Stamp -> Valid \cup {NoJourney}]
    BY DEF Sound, TypeOK, Moment
  <1>3. \A r \in promised : \A m \in moments' : m.history[r[1]] = r[2]
    <2> SUFFICES ASSUME NEW r \in promised, NEW m \in moments' PROVE m.history[r[1]] = r[2]
      OBVIOUS
    <2>1. r[1] \in Stamp /\ r[2] # NoJourney
      BY <1>1
    <2>2. PICK k \in moments :
              \/ m.history = k.history
              \/ \E s \in Stamp, j \in Valid :
                    k.history[s] = NoJourney /\ m.history = [k.history EXCEPT ![s] = j]
      BY HistoryGrows
    <2>3. k.history[r[1]] = r[2]
      BY DEF Sound, PromisesKept
    <2> QED
      BY <1>2, <2>1, <2>2, <2>3
  <1>4. CASE UNCHANGED promised
    BY <1>3, <1>4 DEF PromisesKept
  <1>5. ASSUME NEW p \in Process, FlushRemoval(p), op[p] = "complete"
        PROVE  PromisesKept'
    <2>1. \A m \in moments : m.history[stamp[p]] = file[p].data
      BY <1>5 DEF Sound, Fit, Writing, Settled, FlushRemoval
    <2>2. moments' \subseteq moments
      BY <1>5 DEF FlushRemoval, FlushDirectory, Flushed, Sound
    <2>3. promised' \subseteq promised \cup {<<stamp[p], file[p].data>>}
      BY <1>5 DEF FlushRemoval
    <2> QED
      BY <1>3, <2>1, <2>2, <2>3 DEF PromisesKept
  <1>6. UNCHANGED promised \/ \E p \in Process : FlushRemoval(p) /\ op[p] = "complete"
    BY DEF Next, Commands, Enter, Begin, GivesUp, Leave, Absent, Show, Read, WriteTemp, WriteFails,
           Publish, Archive, Renamed, RenameFails, Reopen, Settle, Remove, RemoveFails, Close,
           CloseFails, Unreleased, FlushRemoval, Kill, Displace, OpenOutside, Edit, CloseOutside, WriteBack, PowerFails, vars
  <1> QED
    BY <1>4, <1>5, <1>6

-----------------------------------------------------------------------------
LEMMA SoundNext == Sound /\ [Next]_vars => Sound'
  <1> SUFFICES ASSUME Sound, [Next]_vars PROVE Sound'
    OBVIOUS
  <1>1. TypeOK' /\ Now' \in moments'
    BY TypedNext
  <1>2. PromisesKept'
    BY <1>1, PromisesNext
  <1>3. ASSUME NEW p \in Process, Commands(p) \/ Kill(p)
        PROVE  OneInside' /\ \A q \in Process : Fit(q)'
    <2>1. Fit(p)'
      BY <1>1, <1>3, ActorFits
    <2>2. \A q \in Process : q # p => pc'[q] = "idle" /\ Fit(q)'
      BY <1>3, OthersFit
    <2> QED
      BY <2>1, <2>2 DEF OneInside, Inside
  <1>4. CASE Displace \/ OpenOutside \/ Edit \/ CloseOutside \/ WriteBack \/ PowerFails
             \/ UNCHANGED vars
    <2>1. \A q \in Process : Fit(q)'
      BY <1>1, <1>4, FitAmong
    <2>2. pc' = pc \/ pc' = [q \in Process |-> "idle"]
      BY <1>4 DEF Displace, OpenOutside, Edit, CloseOutside, WriteBack, PowerFails, vars, local
    <2> QED
      BY <1>1, <1>2, <2>1, <2>2 DEF Sound, OneInside, Inside
  <1> QED
    BY <1>1, <1>2, <1>3, <1>4 DEF Sound, Next

THEOREM SoundAlways == Spec => []Sound
  <1> QED
    BY SoundInit, SoundNext, PTL DEF Spec

\* Every variable has its type.
THEOREM TypeCorrect == Spec => []TypeOK
  <1>1. Sound => TypeOK
    BY DEF Sound
  <1> QED
    BY <1>1, SoundAlways, PTL

(***************************************************************************)
(* What a command holds stays current.json until it lets go, whatever      *)
(* other programs do.                                                      *)
(***************************************************************************)
THEOREM HeldIsCurrentAlways == Spec => []HeldIsCurrent
  <1>1. Sound => HeldIsCurrent
    BY DEF Sound, Fit, Holding, HeldIsCurrent
  <1> QED
    BY <1>1, SoundAlways, PTL

(***************************************************************************)
(* No answer of save, complete or clear claims more or less than happened, *)
(* and what complete reports as archived outlasts every power failure.     *)
(***************************************************************************)
THEOREM AnswerIsTrueAlways == Spec => []AnswerIsTrue
  <1>1. Sound => AnswerIsTrue
    <2>1. Sound => \A p \in Process : Answering(p) /\ Writing(p)
      BY DEF Sound, Fit
    <2>2. Sound => \A r \in promised : \A m \in moments \cup {Now} : m.history[r[1]] = r[2]
      BY DEF Sound, PromisesKept
    <2> QED
      BY <2>1, <2>2 DEF Answering, Writing, Archiving, AnswerIsTrue
  <1> QED
    BY <1>1, SoundAlways, PTL

-----------------------------------------------------------------------------
(* Nothing at risk.                                                        *)

LEMMA StillThere ==
    ASSUME Sound, NEW j \in Content, Lasting(j), moments' \subseteq moments
    PROVE  Lasting(j)'
  BY DEF Lasting, Holds

LEMMA LoggedToo ==
    ASSUME Sound, NEW j \in Content, Lasting(j), Log,
           \/ current # NoFile /\ current.data = j =>
                 \/ current' # NoFile /\ current'.data = j
                 \/ \E s \in Stamp : history'[s] = j,
           \A s \in Stamp : history[s] = j => history'[s] = j
    PROVE  Lasting(j)'
  <1>1. Holds(Now, j)
    BY DEF Sound, Lasting
  <1>2. Holds([current |-> current', history |-> history'], j)
    BY <1>1 DEF Holds, Now
  <1> QED
    BY <1>2 DEF Log, Lasting, Holds

\* A complete that nobody disturbed has archived what goes.
LEMMA VanishIsSafe ==
    ASSUME Sound, NEW j \in Content, Lasting(j), NEW p \in Process,
           Grips(p), deleting, op[p] # "clear", ~disturbed[p], Vanish
    PROVE  Lasting(j)'
  <1>1. op[p] = "complete" /\ stamp[p] \in Stamp /\ Archiving(p)
    BY DEF Sound, TypeOK, Fit, Labelled, Holding, Archiving
  <1>2. current = file[p] /\ history[stamp[p]] = file[p].data
    BY <1>1 DEF Sound, Fit, Holding, Writing
  <1> QED
    BY <1>1, <1>2, LoggedToo DEF Vanish

LEMMA ArchiveIsSafe ==
    ASSUME Sound, NEW j \in Content, Lasting(j), NEW p \in Process, Archive(p)
    PROVE  Lasting(j)'
  <1>1. stamp[p] \in Stamp /\ history \in [Stamp -> Valid \cup {NoJourney}]
    BY DEF Sound, TypeOK
  <1>2. Log /\ UNCHANGED current
    BY DEF Archive, Renamed
  <1>3. \A s \in Stamp : history[s] = j => history'[s] = j
    BY <1>1, NoSuchFile DEF Archive, MayArchive
  <1> QED
    BY <1>2, <1>3, LoggedToo

LEMMA AtRiskNext ==
    ASSUME Sound, [Next]_vars, NEW j \in Content, Lasting(j), ~AskedToGo(j)
    PROVE  Lasting(j)'
  <1>1. Now \in moments
    BY DEF Sound
  <1>2. CASE moments' \subseteq moments
    BY <1>2, StillThere
  <1>3. CASE OpenOutside \/ WriteBack \/ PowerFails \/ UNCHANGED vars
    BY <1>1, <1>2, <1>3 DEF OpenOutside, WriteBack, Flushed, PowerFails, vars, disk
  <1>4. CASE CloseOutside
    BY <1>2, <1>4 DEF CloseOutside, AskedToGo, disk
  <1>5. CASE Displace \/ Edit
    BY <1>5 DEF AskedToGo
  <1>6. ASSUME NEW p \in Process, Archive(p) PROVE Lasting(j)'
    BY <1>6, ArchiveIsSafe
  <1>7. ASSUME NEW p \in Process, LetGo(p) PROVE Lasting(j)'
    <2>1. CASE Grips(p) /\ deleting /\ outside = "none"
      <3>1. Removing(p)
        BY <2>1 DEF Sound, Fit, Holding, Grips, Removing
      <3>2. op[p] # "clear" /\ ~disturbed[p]
        <4>1. op[p] = "clear" \/ op[p] = "complete"
          BY <2>1 DEF Sound, TypeOK, Fit, Labelled, Holding, Archiving
        <4> QED
          BY <3>1, <4>1 DEF AskedToGo
      <3>3. Vanish
        BY <1>7, <2>1 DEF LetGo
      <3> QED
        BY <2>1, <3>2, <3>3, VanishIsSafe
    <2>2. CASE UNCHANGED disk
      BY <1>2, <2>2 DEF disk
    <2> QED
      BY <1>7, <2>1, <2>2 DEF LetGo
  <1>8. ASSUME NEW p \in Process, Commands(p) \/ Kill(p), ~Archive(p), ~LetGo(p)
        PROVE  moments' \subseteq moments
    <2> USE <1>1 DEF disk, FlushDirectory, Flushed
    <2>1. CASE Enter(p)
      BY <1>8, <2>1 DEF Enter, Begin
    <2>2. CASE GivesUp(p)
      BY <1>8, <2>2 DEF GivesUp
    <2>3. CASE Leave(p)
      BY <1>8, <2>3 DEF Leave
    <2>4. CASE Absent(p)
      BY <1>8, <2>4 DEF Absent
    <2>5. CASE Show(p)
      BY <1>8, <2>5 DEF Show
    <2>6. CASE Read(p)
      BY <1>8, <2>6 DEF Read
    <2>7. CASE WriteTemp(p)
      BY <1>8, <2>7 DEF WriteTemp
    <2>8. CASE WriteFails(p)
      BY <1>8, <2>8 DEF WriteFails
    <2>9. ~Publish(p)
      BY DEF AskedToGo
    <2>10. CASE RenameFails(p)
      BY <1>8, <2>10 DEF RenameFails
    <2>11. CASE Reopen(p)
      BY <1>8, <2>11 DEF Reopen
    <2>12. CASE Settle(p)
      BY <1>8, <2>12 DEF Settle
    <2>13. CASE Remove(p)
      BY <1>8, <2>13 DEF Remove
    <2>14. CASE RemoveFails(p)
      BY <1>8, <2>14 DEF RemoveFails
    <2>15. CASE Close(p)
      BY <1>8, <2>15 DEF Close
    <2>16. CASE FlushRemoval(p)
      BY <1>8, <2>16 DEF FlushRemoval
    <2>17. CASE Kill(p)
      BY <1>8, <2>17 DEF Kill
    <2>18. CASE CloseFails(p)
      BY <1>8, <2>18 DEF CloseFails
    <2>19. CASE Unreleased(p)
      BY <1>8, <2>19 DEF Unreleased
    <2> QED
      BY <2>18, <2>19, <1>8, <2>1, <2>2, <2>3, <2>4, <2>5, <2>6, <2>7, <2>8, <2>9, <2>10, <2>11, <2>12, <2>13, <2>14, <2>15, <2>16, <2>17 DEF Commands
  <1> QED
    BY <1>2, <1>3, <1>4, <1>5, <1>6, <1>7, <1>8 DEF Next

(***************************************************************************)
(* No command, failed, raced, killed or cut off by a power failure, takes  *)
(* away a journey that would have outlasted one, unless it was asked to.   *)
(***************************************************************************)
THEOREM NothingAtRiskAlways == Spec => NothingAtRisk
  <1>1. Sound /\ [Next]_vars =>
            [\A j \in Content : Lasting(j) /\ ~Lasting(j)' => AskedToGo(j)]_vars
    BY AtRiskNext
  <1> QED
    BY <1>1, SoundAlways, PTL DEF Spec, NothingAtRisk

=============================================================================
