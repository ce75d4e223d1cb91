-------------------------- MODULE Checkpoint_proofs --------------------------
(***************************************************************************)
(* What holds of the onboarding checkpoint for any number of processes,    *)
(* files, journeys and seconds, whatever fails and whoever meddles.        *)
(***************************************************************************)
EXTENDS Checkpoint, TLAPS

\* The operations on the root directory keep it a directory.
LEMMA SetType ==
    ASSUME TypeOK, NEW n \in Name, NEW f \in File \cup {NoFile}, Set(n, f)
    PROVE  root' \in Directory /\ rootImages' \subseteq Directory
<1>1. \A d \in Directory : [d EXCEPT ![n] = f] \in Directory
  BY DEF Directory
<1> QED
  BY <1>1 DEF Set, Mutate, TypeOK

LEMMA MoveType ==
    ASSUME TypeOK, NEW n \in Name, NEW m \in Name, Move(n, m)
    PROVE  root' \in Directory /\ rootImages' \subseteq Directory
<1>1. \A d \in Directory : [d EXCEPT ![m] = d[n], ![n] = NoFile] \in Directory
  BY DEF Directory
<1> QED
  BY <1>1 DEF Move, Mutate, TypeOK

LEMMA EditType ==
    ASSUME TypeOK, NEW data \in Content, Edit(data)
    PROVE  root' \in Directory /\ rootImages' \subseteq Directory
<1> DEFINE Edited(d) == [n \in Name |-> IF d[n] # NoFile /\ d[n].ino = root["current"].ino
                                       THEN [d[n] EXCEPT !.data = data]
                                       ELSE d[n]]
<1>1. \A d \in Directory : Edited(d) \in Directory
  <2>1. \A f \in File : [f EXCEPT !.data = data] \in File
    BY DEF File
  <2> QED
    BY <2>1 DEF Directory
<1> QED
  BY <1>1 DEF Edit, Mutate, TypeOK

LocalType ==
    /\ pc \in [Process -> Labels]
    /\ op \in [Process -> {"show", "save", "complete", "clear"}]
    /\ file \in [Process -> File \cup {NoFile}]
    /\ stamp \in [Process -> Stamp]
    /\ spare \in [Process -> Name]
    /\ disturbed \in [Process -> BOOLEAN]

LEMMA AnyStampType == AnyStamp \in Stamp
  BY CheckpointAssumption DEF CheckpointAssumption, AnyStamp

LEMMA ExitType ==
    ASSUME TypeOK, NEW p \in Process, Exit(p)
    PROVE  LocalType'
  BY AnyStampType DEF TypeOK, LocalType, Exit, Goto, Labels, Name

\* A name that refers to something does so to a file.
LEMMA NamedFile ==
    ASSUME TypeOK, NEW n \in Name, root[n] # NoFile
    PROVE  root[n] \in File /\ root[n].data \in Content
  BY DEF TypeOK, Directory, File

(***************************************************************************)
(* The state has its type; in particular the history holds only journeys   *)
(* that passed validation, whatever a meddler wrote to current.json.  That *)
(* needs to know what a snapshot is: SnapshotIsValid.                      *)
(***************************************************************************)
SnapshotIsValid ==
    \A p \in Process :
        /\ pc[p] \in {"replace", "check", "archive", "archived", "remove", "verify",
                      "unlink", "confirm", "restore", "relinked", "drop"}
               => file[p] \in File /\ file[p].data \in Valid
        /\ pc[p] \in {"verify", "unlink", "confirm", "restore", "relinked", "drop"}
               => spare[p] \in Recovery

Typed == TypeOK /\ SnapshotIsValid

LEMMA TypeInit == Init => Typed
  BY AnyStampType DEF Init, Typed, TypeOK, SnapshotIsValid, Directory, History,
                      Labels, Name

LEMMA TypeStep == Typed /\ [Next]_vars => Typed'
<1> SUFFICES ASSUME Typed, [Next]_vars PROVE Typed'
  OBVIOUS
<1> USE DEF Typed
<1>1. ASSUME NEW p \in Process, Exit(p), promised' = promised,
             root' \in Directory, rootImages' \subseteq Directory,
             history' \in History, historyImages' \subseteq History
      PROVE  Typed'
  <2>1. LocalType'
    BY <1>1, ExitType
  <2>2. SnapshotIsValid'
    BY <1>1 DEF SnapshotIsValid, Exit, Goto, TypeOK
  <2> QED
    BY <1>1, <2>1, <2>2 DEF TypeOK, LocalType
<1>2. /\ root \in Directory /\ rootImages \subseteq Directory
      /\ history \in History /\ historyImages \subseteq History
      /\ promised \subseteq Stamp \X Valid
  BY DEF TypeOK
<1>3. ASSUME NEW p \in Process, Enter(p) PROVE Typed'
  <2>1. LocalType'
    BY <1>3, AnyStampType DEF Enter, Begin, Goto, TypeOK, LocalType, Labels
  <2>2. SnapshotIsValid'
    BY <1>3 DEF Enter, Begin, Goto, SnapshotIsValid, TypeOK
  <2> QED
    BY <1>2, <1>3, <2>1, <2>2 DEF Enter, Begin, disk, TypeOK, LocalType
<1>4. ASSUME NEW p \in Process, GivesUp(p) PROVE Typed'
  BY <1>1, <1>2, <1>4 DEF GivesUp, disk
<1>5. ASSUME NEW p \in Process, WriteTemp(p) PROVE Typed'
  <2>1. PICK f \in NewFiles(Valid) : file' = [file EXCEPT ![p] = f]
    BY <1>5 DEF WriteTemp
  <2>2. f \in File /\ f.data \in Valid
    BY <2>1 DEF NewFiles, File, Content
  <2> QED
    BY <1>2, <1>5, <2>1, <2>2 DEF WriteTemp, Goto, disk, TypeOK, SnapshotIsValid, Labels
<1>6. ASSUME NEW p \in Process, Replace(p) PROVE Typed'
  <2>1. root' \in Directory /\ rootImages' \subseteq Directory
    BY <1>6, SetType DEF Replace, SnapshotIsValid, Name
  <2> QED
    BY <1>2, <1>6, <2>1 DEF Replace, Goto, local, TypeOK, SnapshotIsValid, Labels
<1>7. ASSUME NEW p \in Process, CheckReplaced(p) PROVE Typed'
  <2>1. CASE Exit(p)
    BY <1>1, <1>2, <1>7, <2>1 DEF CheckReplaced, disk
  <2>2. CASE Goto(p, "sync") /\ UNCHANGED <<local, disturbed>>
    BY <1>2, <1>7, <2>2 DEF CheckReplaced, Goto, local, disk, TypeOK, SnapshotIsValid, Labels
  <2> QED
    BY <1>7, <2>1, <2>2 DEF CheckReplaced
<1>8. ASSUME NEW p \in Process, SyncAndAnswer(p) PROVE Typed'
  BY <1>1, <1>2, <1>8 DEF SyncAndAnswer, TrySync, SyncRoot
<1>9. ASSUME NEW p \in Process, Load(p) PROVE Typed'
  <2>1. CASE Exit(p)
    BY <1>1, <1>2, <1>9, <2>1 DEF Load, Snapshot, disk
  <2>2. CASE ~Exit(p)
    <3>1. /\ root["current"] # NoFile /\ root["current"].data \in Valid
          /\ file' = [file EXCEPT ![p] = root["current"]]
          /\ pc' = [pc EXCEPT ![p] = IF op[p] = "complete" THEN "archive" ELSE "remove"]
          /\ UNCHANGED <<op, stamp, spare, disturbed, disk, promised>>
      BY <1>9, <2>2 DEF Load, Snapshot, Goto
    <3>2. root["current"] \in File
      BY <3>1, NamedFile DEF Name
    <3> QED
      BY <1>2, <3>1, <3>2 DEF disk, TypeOK, SnapshotIsValid, Labels
  <2> QED
    BY <2>1, <2>2
<1>10. ASSUME NEW p \in Process, LinkArchive(p) PROVE Typed'
  <2>1. file[p].data \in Valid
    BY <1>10 DEF LinkArchive, SnapshotIsValid
  <2>2. \A h \in History : [h EXCEPT ![stamp[p]] = file[p].data] \in History
    BY <2>1 DEF History
  <2>3. history' \in History /\ historyImages' \subseteq History
    BY <1>2, <1>10, <2>2 DEF LinkArchive, Archive
  <2> QED
    BY <1>2, <1>10, <2>3 DEF LinkArchive, Archive, Goto, local, TypeOK,
                             SnapshotIsValid, Labels
<1>11. ASSUME NEW p \in Process, SyncArchive(p) PROVE Typed'
  <2>1. CASE Exit(p)
    BY <1>1, <1>2, <1>11, <2>1 DEF SyncArchive
  <2>2. CASE /\ historyImages' = {history} /\ Goto(p, "remove")
             /\ UNCHANGED <<local, disturbed>>
    BY <1>2, <1>11, <2>2 DEF SyncArchive, Goto, local, TypeOK, SnapshotIsValid, Labels
  <2> QED
    BY <1>11, <2>1, <2>2 DEF SyncArchive
<1>12. ASSUME NEW p \in Process, Quarantine(p) PROVE Typed'
  <2>1. PICK n \in Recovery : Move("current", n) /\ spare' = [spare EXCEPT ![p] = n]
    BY <1>12 DEF Quarantine
  <2>2. root' \in Directory /\ rootImages' \subseteq Directory
    BY <2>1, MoveType DEF Name
  <2> QED
    BY <1>2, <1>12, <2>1, <2>2 DEF Quarantine, Goto, TypeOK, SnapshotIsValid,
                                   Labels, Name
<1>13. ASSUME NEW p \in Process, Verify(p) PROVE Typed'
  BY <1>2, <1>13 DEF Verify, Goto, disk, local, TypeOK, SnapshotIsValid, Labels
<1>14. ASSUME NEW p \in Process, Unlink(p) PROVE Typed'
  <2>1. root' \in Directory /\ rootImages' \subseteq Directory
    BY <1>2, <1>14, SetType DEF Unlink, SnapshotIsValid, Name
  <2> QED
    BY <1>2, <1>14, <2>1 DEF Unlink, Goto, local, TypeOK, SnapshotIsValid, Labels
<1>15. ASSUME NEW p \in Process, Confirm(p) PROVE Typed'
  <2>1. promised' \subseteq Stamp \X Valid
    BY <1>2, <1>15 DEF Confirm, SnapshotIsValid, TypeOK
  <2>2. LocalType' /\ SnapshotIsValid'
    BY <1>15, ExitType DEF Confirm, Exit, Goto, SnapshotIsValid, TypeOK
  <2> QED
    BY <1>2, <1>15, <2>1, <2>2 DEF Confirm, SyncRoot, TypeOK, LocalType
<1>16. ASSUME NEW p \in Process, KeepBoth(p) \/ KeepRecovery(p) PROVE Typed'
  BY <1>1, <1>2, <1>16 DEF KeepBoth, KeepRecovery, TrySync, SyncRoot
<1>17. ASSUME NEW p \in Process, LinkBack(p) PROVE Typed'
  <2>1. root[spare[p]] \in File \cup {NoFile}
    BY <1>17 DEF TypeOK, Directory
  <2>2. root' \in Directory /\ rootImages' \subseteq Directory
    BY <1>17, <2>1, SetType DEF LinkBack, PutBack, Name
  <2> QED
    BY <1>2, <1>17, <2>2 DEF LinkBack, PutBack, Goto, local, TypeOK,
                             SnapshotIsValid, Labels
<1>18. ASSUME NEW p \in Process, SyncRestored(p) PROVE Typed'
  <2>1. CASE Exit(p)
    BY <1>1, <1>2, <1>18, <2>1 DEF SyncRestored, SyncRoot
  <2>2. CASE SyncRoot /\ Goto(p, "drop") /\ UNCHANGED <<local, disturbed>>
    BY <1>2, <1>18, <2>2 DEF SyncRestored, SyncRoot, Goto, local, TypeOK,
                             SnapshotIsValid, Labels
  <2> QED
    BY <1>18, <2>1, <2>2 DEF SyncRestored
<1>19. ASSUME NEW p \in Process, DropRecovery(p) PROVE Typed'
  <2>1. root' \in Directory /\ rootImages' \subseteq Directory
    BY <1>19, SetType DEF DropRecovery, SnapshotIsValid, Name
  <2> QED
    BY <1>2, <1>19, <2>1 DEF DropRecovery, Goto, local, TypeOK, SnapshotIsValid, Labels
<1>20. ASSUME NEW p \in Process, Kill(p) PROVE Typed'
  BY <1>1, <1>2, <1>20 DEF Kill, disk
<1>21. CASE Meddle
  <2>1. root' \in Directory /\ rootImages' \subseteq Directory
    <3>1. ASSUME NEW f \in NewFiles(Content), Set("current", f)
          PROVE  root' \in Directory /\ rootImages' \subseteq Directory
      BY <3>1, SetType DEF NewFiles, File, Name
    <3>2. ASSUME Set("current", NoFile)
          PROVE  root' \in Directory /\ rootImages' \subseteq Directory
      BY <3>2, SetType DEF Name
    <3> QED
      BY <1>21, <3>1, <3>2, EditType DEF Meddle
  <2> QED
    BY <1>2, <1>21, <2>1 DEF Meddle, local, TypeOK, SnapshotIsValid, Inside
<1>22. CASE RecoverByHand
  <2>1. root' \in Directory /\ rootImages' \subseteq Directory
    BY <1>22, SetType, MoveType DEF RecoverByHand, Name
  <2> QED
    BY <1>2, <1>22, <2>1 DEF RecoverByHand, local, TypeOK, SnapshotIsValid
<1>23. CASE WriteBack
  BY <1>2, <1>23 DEF WriteBack, SyncRoot, local, TypeOK, SnapshotIsValid
<1>24. CASE PowerFails
  BY <1>2, <1>24, AnyStampType DEF PowerFails, TypeOK, SnapshotIsValid, Labels, Name
<1>25. CASE UNCHANGED vars
  BY <1>2, <1>25 DEF vars, disk, local, TypeOK, SnapshotIsValid
<1> QED
  BY <1>3, <1>4, <1>5, <1>6, <1>7, <1>8, <1>9, <1>10, <1>11, <1>12, <1>13, <1>14,
     <1>15, <1>16, <1>17, <1>18, <1>19, <1>20, <1>21, <1>22, <1>23, <1>24, <1>25
  DEF Next, Commands

\* Every reachable state has its type, and every snapshot passed validation.
THEOREM TypeCorrect == Spec => []TypeOK
<1>1. Typed => TypeOK
  BY DEF Typed
<1> QED
  BY <1>1, TypeInit, TypeStep, PTL DEF Spec

-----------------------------------------------------------------------------
(***************************************************************************)
(* Archives.  A completion that is about to remove current.json has its    *)
(* copy in every image a power failure may leave.                          *)
(***************************************************************************)
Kept(s, j) == \A h \in historyImages \cup {history} : h[s] = j

ArchivedFirst ==
    \A p \in Process :
        /\ pc[p] = "archived" => history[stamp[p]] = file[p].data
        /\ pc[p] \in {"remove", "verify", "unlink", "confirm"} /\ op[p] = "complete"
               => Kept(stamp[p], file[p].data)

\* What a step leaves alone in the processes that do not take it.
LEMMA OthersStay ==
    ASSUME TypeOK, NEW p \in Process, NEW q \in Process, p # q,
           Commands(q) \/ Kill(q)
    PROVE  /\ pc'[p] = pc[p] /\ op'[p] = op[p] /\ file'[p] = file[p]
           /\ stamp'[p] = stamp[p] /\ spare'[p] = spare[p]
           /\ disturbed'[p] = disturbed[p]
<1>1. Exit(q) => /\ pc'[p] = pc[p] /\ op'[p] = op[p] /\ file'[p] = file[p]
                 /\ stamp'[p] = stamp[p] /\ spare'[p] = spare[p]
                 /\ disturbed'[p] = disturbed[p]
  BY DEF Exit, Goto, TypeOK
<1>2. Kill(q) \/ GivesUp(q) \/ SyncAndAnswer(q) \/ Confirm(q) \/ KeepBoth(q)
      \/ KeepRecovery(q) => Exit(q)
  BY DEF Kill, GivesUp, SyncAndAnswer, Confirm, KeepBoth, KeepRecovery
<1>3. CheckReplaced(q) \/ SyncArchive(q) \/ SyncRestored(q)
      => Exit(q) \/ (UNCHANGED <<local, disturbed>> /\ \E l \in Labels : Goto(q, l))
  BY DEF CheckReplaced, SyncArchive, SyncRestored, Labels
<1>4. Load(q) => Exit(q) \/ (UNCHANGED <<op, stamp, spare, disturbed>>
                             /\ (\E l \in Labels : Goto(q, l))
                             /\ \E f \in {root["current"]} : file' = [file EXCEPT ![q] = f])
  BY DEF Load, Snapshot, Labels
<1>5. Replace(q) \/ LinkArchive(q) \/ Verify(q) \/ Unlink(q) \/ LinkBack(q) \/ DropRecovery(q)
      => UNCHANGED <<local, disturbed>> /\ \E l \in Labels : Goto(q, l)
  BY DEF Replace, LinkArchive, Archive, Verify, Unlink, LinkBack, PutBack, DropRecovery,
         Labels
<1>6. ASSUME Enter(q) \/ WriteTemp(q) \/ Quarantine(q)
      PROVE  /\ pc'[p] = pc[p] /\ op'[p] = op[p] /\ file'[p] = file[p]
             /\ stamp'[p] = stamp[p] /\ spare'[p] = spare[p]
             /\ disturbed'[p] = disturbed[p]
  BY <1>6 DEF Enter, Begin, WriteTemp, Quarantine, Goto, TypeOK
<1>7. ASSUME NEW l \in Labels, Goto(q, l) PROVE pc'[p] = pc[p]
  BY <1>7 DEF Goto, TypeOK
<1>8. ASSUME NEW f, file' = [file EXCEPT ![q] = f] PROVE file'[p] = file[p]
  BY <1>8 DEF TypeOK
<1> QED
  BY <1>1, <1>2, <1>3, <1>4, <1>5, <1>6, <1>7, <1>8 DEF Commands, local

\* The entries of the history never change, in no image, whatever the step.
LEMMA EntryStays ==
    ASSUME Typed, [Next]_vars, NEW s \in Stamp, NEW j \in Valid,
           history[s] = j
    PROVE  /\ history'[s] = j \/ PowerFails
           /\ Kept(s, j) => Kept(s, j)'
<1>0. j # NoJourney /\ history \in History /\ historyImages \subseteq History
  BY CheckpointAssumption DEF CheckpointAssumption, Typed, TypeOK
<1>1. ASSUME NEW p \in Process, LinkArchive(p)
      PROVE  history'[s] = j /\ (Kept(s, j) => Kept(s, j)')
  <2>1. stamp[p] # s
    BY <1>0, <1>1 DEF LinkArchive
  <2>2. \A h \in History : [h EXCEPT ![stamp[p]] = file[p].data][s] = h[s]
    BY <2>1 DEF History
  <2> QED
    BY <1>0, <1>1, <2>2 DEF LinkArchive, Archive, Kept
<1>2. ASSUME NEW p \in Process, Commands(p) \/ Kill(p), ~LinkArchive(p)
      PROVE  history' = history /\ historyImages' \subseteq historyImages \cup {history}
  BY <1>2 DEF Commands, Kill, Enter, Begin, GivesUp, WriteTemp, Replace, CheckReplaced,
              SyncAndAnswer, Load, Snapshot, SyncArchive, Quarantine, Verify, Unlink,
              Confirm, KeepBoth, LinkBack, PutBack, SyncRestored, DropRecovery,
              KeepRecovery, disk
<1>3. Meddle \/ RecoverByHand \/ WriteBack \/ UNCHANGED vars
      => history' = history /\ historyImages' \subseteq historyImages \cup {history}
  BY DEF Meddle, RecoverByHand, WriteBack, vars, disk
<1>4. PowerFails => history' \in historyImages /\ historyImages' = {history'}
  BY DEF PowerFails
<1> QED
  BY <1>1, <1>2, <1>3, <1>4 DEF Next, Kept

Archiving == ReportedIsArchived /\ ArchivedFirst

LEMMA ArchivingStep == Typed /\ Archiving /\ [Next]_vars => Archiving'
<1> SUFFICES ASSUME Typed, Archiving, [Next]_vars PROVE Archiving'
  OBVIOUS
<1> USE DEF Typed
<1>1. promised \subseteq Stamp \X Valid
  BY DEF TypeOK
<1>2. \A r \in promised : Kept(r[1], r[2]) /\ history[r[1]] = r[2]
  BY DEF Archiving, ReportedIsArchived, Kept
<1>3. \A r \in promised : Kept(r[1], r[2])'
  BY <1>1, <1>2, EntryStays
<1>4. ReportedIsArchived'
  <2>1. CASE promised' = promised
    BY <1>3, <2>1 DEF ReportedIsArchived, Kept
  <2>2. CASE promised' # promised
    <3>1. PICK p \in Process : Confirm(p)
      BY <2>2 DEF Next, Commands, Kill, Enter, Begin, GivesUp, WriteTemp, Replace,
                  CheckReplaced, SyncAndAnswer, Load, Snapshot, SyncArchive, Quarantine,
                  Verify, Unlink, KeepBoth, LinkBack, PutBack, SyncRestored, DropRecovery,
                  KeepRecovery, LinkArchive, Archive, Meddle, RecoverByHand, WriteBack,
                  PowerFails, vars
    <3>2. op[p] = "complete" /\ promised' = promised \cup {<<stamp[p], file[p].data>>}
      BY <2>2, <3>1 DEF Confirm
    <3>3. UNCHANGED <<history, historyImages>>
      BY <3>1 DEF Confirm
    <3>4. Kept(stamp[p], file[p].data)
      BY <3>1, <3>2 DEF Archiving, ArchivedFirst, Confirm
    <3> QED
      BY <1>2, <3>2, <3>3, <3>4 DEF ReportedIsArchived, Kept
  <2> QED
    BY <2>1, <2>2
<1> DEFINE Ahead(p) ==
      /\ pc[p] = "archived" => history[stamp[p]] = file[p].data
      /\ pc[p] \in {"remove", "verify", "unlink", "confirm"} /\ op[p] = "complete"
             => Kept(stamp[p], file[p].data)
<1>5. ASSUME NEW p \in Process,
             \/ /\ pc'[p] = pc[p] /\ op'[p] = op[p]
                /\ file'[p] = file[p] /\ stamp'[p] = stamp[p]
             \/ pc'[p] = "idle"
      PROVE  Ahead(p)'
  <2>1. stamp[p] \in Stamp
    BY DEF TypeOK
  <2>2. pc[p] \in {"archived", "remove", "verify", "unlink", "confirm"}
        => file[p].data \in Valid
    BY DEF SnapshotIsValid
  <2>3. PowerFails => pc'[p] = "idle"
    BY DEF PowerFails
  <2>4. pc'[p] = "archived" => history'[stamp'[p]] = file'[p].data
    BY <1>5, <2>1, <2>2, <2>3, EntryStays DEF Archiving, ArchivedFirst
  <2>5. pc'[p] \in {"remove", "verify", "unlink", "confirm"} /\ op'[p] = "complete"
        => /\ Kept(stamp[p], file[p].data) /\ history[stamp[p]] = file[p].data
           /\ stamp'[p] = stamp[p] /\ file'[p] = file[p] /\ file[p].data \in Valid
    BY <1>5, <2>2 DEF Archiving, ArchivedFirst, Kept
  <2>6. pc'[p] \in {"remove", "verify", "unlink", "confirm"} /\ op'[p] = "complete"
        => \A h \in historyImages' \cup {history'} : h[stamp[p]] = file[p].data
    BY <2>1, <2>5, EntryStays DEF Kept
  <2> QED
    BY <2>4, <2>5, <2>6 DEF Kept
<1>6. ASSUME NEW p \in Process, LinkArchive(p) PROVE Ahead(p)'
  <2>1. pc'[p] = "archived" /\ stamp'[p] = stamp[p] /\ file'[p] = file[p]
    BY <1>6 DEF LinkArchive, Archive, Goto, local, TypeOK
  <2>2. history'[stamp[p]] = file[p].data
    BY <1>6 DEF LinkArchive, Archive, TypeOK, History
  <2> QED
    BY <2>1, <2>2
<1>7. ASSUME NEW p \in Process, SyncArchive(p), pc'[p] # "idle" PROVE Ahead(p)'
  <2>1. /\ historyImages' = {history} /\ history' = history
        /\ pc[p] = "archived" /\ pc'[p] = "remove"
        /\ stamp'[p] = stamp[p] /\ file'[p] = file[p]
    BY <1>7 DEF SyncArchive, Exit, Goto, local, TypeOK
  <2> QED
    BY <2>1 DEF Kept, Archiving, ArchivedFirst
<1>8. ASSUME NEW p \in Process, Load(p), pc'[p] # "idle" PROVE Ahead(p)'
  BY <1>8 DEF Load, Snapshot, Exit, Goto, TypeOK
<1>9. ASSUME NEW p \in Process, Quarantine(p) \/ Verify(p) \/ Unlink(p)
      PROVE  Ahead(p)'
  <2>1. /\ history' = history /\ historyImages' = historyImages
        /\ pc[p] \in {"remove", "verify", "unlink"}
        /\ pc'[p] \in {"verify", "unlink", "confirm", "restore"}
        /\ stamp'[p] = stamp[p] /\ file'[p] = file[p] /\ op'[p] = op[p]
    BY <1>9 DEF Quarantine, Verify, Unlink, Goto, disk, local, TypeOK
  <2> QED
    BY <2>1 DEF Kept, Archiving, ArchivedFirst
<1>10. ASSUME NEW p \in Process,
              Commands(p) \/ Kill(p),
              ~(LinkArchive(p) \/ SyncArchive(p) \/ Load(p) \/ Quarantine(p)
                \/ Verify(p) \/ Unlink(p))
       PROVE  pc'[p] \in {"idle", "write", "load", "replace", "check", "sync",
                          "relinked", "drop"}
  BY <1>10 DEF Commands, Kill, Enter, Begin, GivesUp, WriteTemp, Replace, CheckReplaced,
               SyncAndAnswer, Confirm, KeepBoth, LinkBack, PutBack, SyncRestored,
               DropRecovery, KeepRecovery, Exit, Goto, TypeOK
<1>11. ASSUME NEW p \in Process PROVE Ahead(p)'
  <2>1. ASSUME Commands(p) \/ Kill(p) PROVE Ahead(p)'
    BY <1>5, <1>6, <1>7, <1>8, <1>9, <1>10, <2>1
  <2>2. ASSUME NEW q \in Process, q # p, Commands(q) \/ Kill(q) PROVE Ahead(p)'
    BY <1>5, <2>2, OthersStay
  <2>3. ASSUME Meddle \/ RecoverByHand \/ WriteBack \/ PowerFails \/ UNCHANGED vars
        PROVE  Ahead(p)'
    <3>1. \/ /\ pc'[p] = pc[p] /\ op'[p] = op[p]
             /\ file'[p] = file[p] /\ stamp'[p] = stamp[p]
          \/ pc'[p] = "idle"
      BY <2>3 DEF Meddle, RecoverByHand, WriteBack, PowerFails, local, vars
    <3> QED
      BY <1>5, <3>1
  <2> QED
    BY <2>1, <2>2, <2>3 DEF Next
<1>12. ArchivedFirst'
  BY <1>11 DEF ArchivedFirst
<1> QED
  BY <1>4, <1>12 DEF Archiving

\* What complete has reported as archived outlasts everything that follows.
THEOREM ReportedIsArchivedAlways == Spec => []ReportedIsArchived
<1>1. Init => Archiving
  BY DEF Init, Archiving, ReportedIsArchived, ArchivedFirst
<1>2. Archiving => ReportedIsArchived
  BY DEF Archiving
<1> QED
  BY <1>1, <1>2, TypeInit, TypeStep, ArchivingStep, PTL DEF Spec

-----------------------------------------------------------------------------
(***************************************************************************)
(* The lock and the moved file.  One command at a time is under way; the   *)
(* file it has moved is no longer under current.json, so that a meddler    *)
(* can not reach it, and what is unlinked is what was read.                *)
(***************************************************************************)
OneInside == \A p, q \in Process : Inside(p) /\ Inside(q) => p = q

MovedIsApart ==
    \A p \in Process :
        /\ pc[p] \in {"verify", "unlink"} =>
               /\ root[spare[p]] # NoFile
               /\ root["current"] # NoFile =>
                      root["current"].ino # root[spare[p]].ino
        /\ pc[p] = "unlink" => root[spare[p]] = file[p]

Removes ==
    \A p \in Process :
        /\ pc[p] = "load" => op[p] # "save"
        /\ pc[p] \in {"archive", "archived", "remove", "verify", "unlink"}
               => op[p] \in {"complete", "clear"}

Careful == OneInside /\ MovedIsApart /\ Removes /\ ReadIsStillCurrent

\* A process that takes a step other than entering is inside.
LEMMA ActorInside ==
    ASSUME TypeOK, NEW p \in Process, Commands(p) \/ Kill(p)
    PROVE  /\ Enter(p) \/ Inside(p)
           /\ Enter(p) => \A q \in Process : ~Inside(q)
  BY DEF Commands, Kill, Inside, Enter, GivesUp, WriteTemp, Replace, CheckReplaced,
         SyncAndAnswer, Load, Snapshot, LinkArchive, SyncArchive, Quarantine, Verify,
         Unlink, Confirm, KeepBoth, LinkBack, SyncRestored, DropRecovery, KeepRecovery

\* While a process is inside, no other takes a step.
LEMMA OnlyActor ==
    ASSUME TypeOK, OneInside, NEW p \in Process, NEW q \in Process, p # q,
           Commands(q) \/ Kill(q)
    PROVE  pc[p] = "idle" /\ pc'[p] = "idle"
  BY ActorInside, OthersStay DEF OneInside, Inside

LEMMA OneInsideStep == TypeOK /\ OneInside /\ [Next]_vars => OneInside'
<1> SUFFICES ASSUME TypeOK, OneInside, [Next]_vars PROVE OneInside'
  OBVIOUS
<1>1. ASSUME NEW p \in Process, Commands(p) \/ Kill(p) PROVE OneInside'
  BY <1>1, OnlyActor DEF OneInside, Inside
<1>2. ASSUME Meddle \/ RecoverByHand \/ WriteBack \/ PowerFails \/ UNCHANGED vars
      PROVE  OneInside'
  <2>1. pc' = pc \/ \A p \in Process : pc'[p] = "idle"
    BY <1>2 DEF Meddle, RecoverByHand, WriteBack, PowerFails, vars
  <2> QED
    BY <2>1 DEF OneInside, Inside
<1> QED
  BY <1>1, <1>2 DEF Next

\* What the two operations do to the names they touch and to the others.
LEMMA SetNow ==
    ASSUME TypeOK, NEW n \in Name, NEW f, Set(n, f)
    PROVE  root'[n] = f /\ \A m \in Name \ {n} : root'[m] = root[m]
  BY DEF Set, Mutate, TypeOK, Directory

LEMMA MoveNow ==
    ASSUME TypeOK, NEW n \in Name, NEW m \in Name, n # m, Move(n, m)
    PROVE  /\ root'[n] = NoFile /\ root'[m] = root[n]
           /\ \A k \in Name \ {n, m} : root'[k] = root[k]
  BY DEF Move, Mutate, TypeOK, Directory

LEMMA MeddleSpares ==
    ASSUME TypeOK, Meddle, NEW n \in Recovery, root[n] # NoFile,
           root["current"] # NoFile => root["current"].ino # root[n].ino
    PROVE  /\ root'[n] = root[n]
           /\ root'["current"] # NoFile => root'["current"].ino # root[n].ino
<1>0. n \in Name /\ n # "current" /\ "current" \in Name
  BY CheckpointAssumption DEF CheckpointAssumption, Name
<1>1. ASSUME NEW f \in NewFiles(Content), Set("current", f)
      PROVE  root'[n] = root[n] /\ root'["current"].ino # root[n].ino
  BY <1>0, <1>1, SetNow DEF NewFiles
<1>2. ASSUME NEW data \in Content, Edit(data)
      PROVE  root'[n] = root[n] /\ root'["current"].ino # root[n].ino
  <2>1. root["current"] # NoFile /\ root["current"] \in File
    BY <1>0, <1>2, NamedFile DEF Edit
  <2>2. root'[n] = root[n]
    BY <1>0, <1>2, <2>1 DEF Edit, Mutate
  <2>3. root'["current"] = [root["current"] EXCEPT !.data = data]
    BY <1>0, <1>2, <2>1 DEF Edit, Mutate
  <2>4. root'["current"].ino = root["current"].ino
    BY <2>1, <2>3 DEF File
  <2> QED
    BY <2>1, <2>2, <2>4
<1>3. ASSUME Set("current", NoFile)
      PROVE  root'[n] = root[n] /\ root'["current"] = NoFile
  BY <1>0, <1>3, SetNow
<1> QED
  BY <1>1, <1>2, <1>3 DEF Meddle

Care(p) ==
    /\ pc[p] \in {"verify", "unlink"} =>
           /\ root[spare[p]] # NoFile
           /\ root["current"] # NoFile => root["current"].ino # root[spare[p]].ino
           /\ ~disturbed[p] => root[spare[p]] = file[p]
    /\ pc[p] = "unlink" => root[spare[p]] = file[p]
    /\ pc[p] = "load" => op[p] # "save"
    /\ pc[p] \in {"archive", "archived", "remove", "verify", "unlink"}
           => op[p] \in {"complete", "clear"}
    /\ pc[p] \in {"archive", "archived", "remove"} /\ ~disturbed[p]
           => root["current"] = file[p]

LEMMA CareIsCareful == Careful <=> OneInside /\ \A p \in Process : Care(p)
  BY DEF Careful, MovedIsApart, Removes, ReadIsStillCurrent, Care

LEMMA CareOfActor ==
    ASSUME Typed, NEW p \in Process, Care(p), Commands(p) \/ Kill(p)
    PROVE  Care(p)'
<1> USE DEF Typed
<1>0. "current" \in Name /\ Recovery \subseteq Name /\ "current" \notin Recovery
  BY CheckpointAssumption DEF CheckpointAssumption, Name
<1>1. CASE Load(p)
  BY <1>1 DEF Load, Snapshot, Exit, Goto, disk, TypeOK, Care
<1>2. CASE LinkArchive(p) \/ SyncArchive(p)
  BY <1>2 DEF LinkArchive, Archive, SyncArchive, Exit, Goto, local, TypeOK, Care
<1>3. CASE Quarantine(p)
  <2>1. PICK n \in Recovery : Move("current", n) /\ spare' = [spare EXCEPT ![p] = n]
    BY <1>3 DEF Quarantine
  <2>2. root'["current"] = NoFile /\ root'[n] = root["current"] /\ root["current"] # NoFile
    BY <1>0, <1>3, <2>1, MoveNow DEF Quarantine
  <2> QED
    BY <1>3, <2>1, <2>2 DEF Quarantine, Goto, TypeOK, Care
<1>4. CASE Verify(p)
  BY <1>4 DEF Verify, MovedIsSnapshot, Goto, disk, local, TypeOK, Care
<1>5. CASE Enter(p)
  BY <1>5 DEF Enter, Begin, Goto, TypeOK, Care
<1>6. CASE ~(Load(p) \/ LinkArchive(p) \/ SyncArchive(p) \/ Quarantine(p) \/ Verify(p)
            \/ Enter(p))
  <2>1. pc'[p] \in {"idle", "write", "replace", "check", "sync", "confirm", "restore",
                    "relinked", "drop"}
    BY <1>6 DEF Commands, Kill, GivesUp, WriteTemp, Replace, CheckReplaced,
                SyncAndAnswer, Unlink, Confirm, KeepBoth, LinkBack, PutBack, SyncRestored,
                DropRecovery, KeepRecovery, Exit, Goto, TypeOK
  <2> QED
    BY <2>1 DEF Care
<1> QED
  BY <1>1, <1>2, <1>3, <1>4, <1>5, <1>6

LEMMA CarefulStep == Typed /\ Careful /\ [Next]_vars => Careful'
<1> SUFFICES ASSUME Typed, Careful, [Next]_vars PROVE Careful'
  OBVIOUS
<1>1. OneInside /\ OneInside' /\ TypeOK
  BY OneInsideStep DEF Typed, Careful
<1>2. ASSUME NEW p \in Process PROVE Care(p)'
  <2>0. Care(p)
    BY CareIsCareful
  <2>1. CASE Commands(p) \/ Kill(p)
    BY <2>0, <2>1, CareOfActor
  <2>2. ASSUME NEW q \in Process, q # p, Commands(q) \/ Kill(q) PROVE Care(p)'
    <3>1. pc'[p] = "idle"
      BY <1>1, <2>2, OnlyActor
    <3> QED
      BY <3>1 DEF Care
  <2>3. CASE Meddle
    <3>1. UNCHANGED <<pc, op, file, spare>> /\ disturbed'[p] = Inside(p)
      BY <2>3 DEF Meddle, local
    <3>2. CASE pc[p] \in {"verify", "unlink"}
      <4>1. spare[p] \in Recovery
        BY <3>2 DEF Typed, SnapshotIsValid
      <4>2. /\ root'[spare[p]] = root[spare[p]]
            /\ root'["current"] # NoFile => root'["current"].ino # root[spare[p]].ino
        BY <1>1, <2>0, <2>3, <3>2, <4>1, MeddleSpares DEF Care
      <4>3. Inside(p)
        BY <3>2 DEF Inside
      <4> QED
        BY <2>0, <3>1, <3>2, <4>2, <4>3 DEF Care
    <3>3. CASE ~(pc[p] \in {"verify", "unlink"})
      BY <2>0, <3>1, <3>3 DEF Care, Inside
    <3> QED
      BY <3>2, <3>3
  <2>4. CASE RecoverByHand \/ PowerFails
    <3>1. pc'[p] = "idle"
      BY <2>4 DEF RecoverByHand, PowerFails, Inside
    <3> QED
      BY <3>1 DEF Care
  <2>5. CASE WriteBack \/ UNCHANGED vars
    <3>1. UNCHANGED <<root, pc, op, file, spare, disturbed>>
      BY <2>5 DEF WriteBack, SyncRoot, local, vars, disk
    <3> QED
      BY <2>0, <3>1 DEF Care
  <2> QED
    BY <2>1, <2>2, <2>3, <2>4, <2>5 DEF Next
<1>3. Careful' <=> OneInside' /\ \A p \in Process : Care(p)'
  BY DEF Careful, MovedIsApart, Removes, ReadIsStillCurrent, Care
<1> QED
  BY <1>1, <1>2, <1>3

LEMMA CarefulInit == Init => Careful
  BY DEF Init, Careful, OneInside, MovedIsApart, Removes, ReadIsStillCurrent, Inside

\* Unless another program meddles, what a command read is what it removes.
THEOREM ReadIsStillCurrentAlways == Spec => []ReadIsStillCurrent
<1>1. Careful => ReadIsStillCurrent
  BY DEF Careful
<1> QED
  BY <1>1, TypeInit, TypeStep, CarefulInit, CarefulStep, PTL DEF Spec

-----------------------------------------------------------------------------
(***************************************************************************)
(* No step takes the last copy of a journey, unless it was asked to.       *)
(***************************************************************************)
LEMMA Witness ==
    ASSUME NEW n \in Name, NEW j, root'[n] # NoFile, root'[n].data = j
    PROVE  Holds(root', history', j)
  BY DEF Holds

LEMMA ForgetStep ==
    ASSUME Typed, Archiving, Careful, [Next]_vars, NEW j \in Content,
           Holds(root, history, j), ~AskedToGo(j), ~PowerFails
    PROVE  Holds(root', history', j)
<1> USE DEF Typed
<1>0. "current" \in Name /\ Recovery \subseteq Name /\ "current" \notin Recovery
  BY CheckpointAssumption DEF CheckpointAssumption, Name
<1>1. CASE \E s \in Stamp : history[s] = j
  <2>1. PICK s \in Stamp : history[s] = j
    BY <1>1
  <2>2. j \in Valid
    BY <2>1, CheckpointAssumption DEF CheckpointAssumption, TypeOK, History, Content
  <2> QED
    BY <2>1, <2>2, EntryStays DEF Holds
<1>2. ASSUME NEW n \in Name, root[n] # NoFile, root[n].data = j
      PROVE  Holds(root', history', j)
  <2>1. CASE root'[n] = root[n]
    BY <1>2, <2>1, Witness
  <2>2. ASSUME NEW p \in Process, Replace(p) PROVE Holds(root', history', j)
    <3>1. n # "current"
      BY <1>2, <2>2 DEF AskedToGo
    <3>2. root'[n] = root[n]
      BY <1>0, <2>2, <3>1, SetNow DEF Replace
    <3> QED
      BY <1>2, <3>2, Witness
  <2>3. ASSUME NEW p \in Process, Quarantine(p) PROVE Holds(root', history', j)
    <3>1. PICK m \in Recovery : root[m] = NoFile /\ Move("current", m)
      BY <2>3 DEF Quarantine
    <3>2. root'[m] = root["current"] /\ \A k \in Name \ {"current", m} : root'[k] = root[k]
      BY <1>0, <3>1, MoveNow
    <3> QED
      BY <1>0, <1>2, <3>1, <3>2, Witness
  <2>4. ASSUME NEW p \in Process, Unlink(p) PROVE Holds(root', history', j)
    <3>1. CASE UNCHANGED root
      BY <1>2, <3>1, Witness
    <3>2. CASE Set(spare[p], NoFile) /\ n # spare[p]
      <4>1. root'[n] = root[n]
        BY <1>0, <2>4, <3>2, SetNow DEF SnapshotIsValid, Unlink
      <4> QED
        BY <1>2, <4>1, Witness
    <3>3. CASE n = spare[p]
      <4>1. root[n] = file[p] /\ op[p] \in {"complete", "clear"}
        BY <2>4, <3>3 DEF Unlink, Careful, MovedIsApart, Removes
      <4>2. op[p] = "complete"
        BY <1>2, <2>4, <4>1 DEF AskedToGo
      <4>3. history[stamp[p]] = j /\ stamp[p] \in Stamp
        BY <1>2, <2>4, <4>1, <4>2 DEF Unlink, Archiving, ArchivedFirst, Kept, TypeOK
      <4> QED
        BY <2>4, <4>3 DEF Unlink, Holds
    <3> QED
      BY <2>4, <3>1, <3>2, <3>3 DEF Unlink
  <2>5. ASSUME NEW p \in Process, LinkBack(p) PROVE Holds(root', history', j)
    <3>1. root["current"] = NoFile /\ Set("current", root[spare[p]])
      BY <2>5 DEF LinkBack, PutBack
    <3>2. root'[n] = root[n]
      BY <1>0, <1>2, <3>1, SetNow
    <3> QED
      BY <1>2, <3>2, Witness
  <2>6. ASSUME NEW p \in Process, DropRecovery(p) PROVE Holds(root', history', j)
    <3>1. spare[p] \in Recovery /\ Set(spare[p], NoFile) /\ root["current"] = root[spare[p]]
      BY <2>6 DEF DropRecovery, SnapshotIsValid, AskedToGo
    <3>2. \A m \in Name \ {spare[p]} : root'[m] = root[m]
      BY <1>0, <3>1, SetNow
    <3> QED
      BY <1>0, <1>2, <3>1, <3>2, Witness
  <2>7. ASSUME NEW p \in Process, Commands(p) \/ Kill(p),
               ~(Replace(p) \/ Quarantine(p) \/ Unlink(p) \/ LinkBack(p) \/ DropRecovery(p))
        PROVE  root' = root
    BY <2>7 DEF Commands, Kill, Enter, Begin, GivesUp, WriteTemp, CheckReplaced,
                SyncAndAnswer, TrySync, SyncRoot, Load, Snapshot, LinkArchive, Archive,
                SyncArchive, Verify, Confirm, KeepBoth, SyncRestored, KeepRecovery, disk
  <2>8. WriteBack \/ UNCHANGED vars => root' = root
    BY DEF WriteBack, SyncRoot, vars, disk
  <2>9. ~Meddle /\ ~RecoverByHand
    BY DEF AskedToGo
  <2> QED
    BY <2>1, <2>2, <2>3, <2>4, <2>5, <2>6, <2>7, <2>8, <2>9 DEF Next
<1> QED
  BY <1>1, <1>2 DEF Holds

(***************************************************************************)
(* A crash, a failed call or a race never costs a journey: the last copy   *)
(* goes only with a save over it, the clear that had read it, or a hand    *)
(* that is not the program's.                                              *)
(***************************************************************************)
THEOREM NothingForgottenAlways == Spec => NothingForgotten
<1>1. Init => Archiving
  BY DEF Init, Archiving, ReportedIsArchived, ArchivedFirst
<1>2. Typed /\ Archiving /\ Careful /\ [Next]_vars
      => [\A j \in Content :
             Holds(root, history, j) /\ ~Holds(root', history', j)
             => AskedToGo(j) \/ PowerFails]_vars
  BY ForgetStep
<1> QED
  BY <1>1, <1>2, TypeInit, TypeStep, ArchivingStep, CarefulInit, CarefulStep, PTL
  DEF Spec, NothingForgotten
-----------------------------------------------------------------------------
(***************************************************************************)
(* Power failures.  What is current is among the images a failure may      *)
(* leave, and an image of the history lacks entries but has no others.     *)
(* Once a restored name is synced, no image has it without the recovery    *)
(* name, so that dropping the latter is safe: Relinked.  A meddler's edit  *)
(* reaches both names or neither: SamePlace.                               *)
(***************************************************************************)
ImagesCurrent ==
    /\ root \in rootImages /\ history \in historyImages
    /\ \A h \in historyImages, s \in Stamp : h[s] \in {NoJourney, history[s]}

SamePlace(p) ==
    /\ pc[p] \in {"relinked", "drop"}
    /\ root["current"] # NoFile /\ root[spare[p]] # NoFile
    /\ root["current"].ino = root[spare[p]].ino
    => root["current"] = root[spare[p]]

Relinked(p) ==
    pc[p] = "drop" /\ root["current"] # NoFile /\ root["current"] = root[spare[p]]
    => \A d \in rootImages : d["current"] = d[spare[p]]

Outlasting == ImagesCurrent /\ \A p \in Process : SamePlace(p) /\ Relinked(p)

\* The root directory changes by an operation that the images share, or its
\* images shrink to the current one, or to the one a power failure leaves.
LEMMA RootStep ==
    ASSUME Typed, root \in rootImages, [Next]_vars
    PROVE  root' \in rootImages'
<1>1. ASSUME NEW n, NEW f, Set(n, f) PROVE root' \in rootImages'
  BY <1>1 DEF Set, Mutate
<1>2. ASSUME NEW n, NEW m, Move(n, m) PROVE root' \in rootImages'
  BY <1>2 DEF Move, Mutate
<1>3. ASSUME NEW data, Edit(data) PROVE root' \in rootImages'
  BY <1>3 DEF Edit, Mutate
<1>4. Meddle \/ RecoverByHand => root' \in rootImages'
  BY <1>1, <1>2, <1>3 DEF Meddle, RecoverByHand
<1>5. WriteBack \/ PowerFails \/ UNCHANGED vars => root' \in rootImages'
  BY DEF WriteBack, SyncRoot, PowerFails, vars, disk
<1>6. ASSUME NEW p \in Process,
             Replace(p) \/ Quarantine(p) \/ Unlink(p) \/ LinkBack(p) \/ DropRecovery(p)
      PROVE  root' \in rootImages'
  BY <1>1, <1>2, <1>6 DEF Replace, Quarantine, Unlink, LinkBack, PutBack, DropRecovery
<1>7. ASSUME NEW p \in Process, Commands(p) \/ Kill(p),
             ~(Replace(p) \/ Quarantine(p) \/ Unlink(p) \/ LinkBack(p) \/ DropRecovery(p))
      PROVE  root' = root /\ rootImages' \in {rootImages, {root}}
  BY <1>7 DEF Commands, Kill, Enter, Begin, GivesUp, WriteTemp, CheckReplaced,
              SyncAndAnswer, TrySync, SyncRoot, Load, Snapshot, LinkArchive, Archive,
              SyncArchive, Verify, Confirm, KeepBoth, SyncRestored, KeepRecovery, disk
<1> QED
  BY <1>4, <1>5, <1>6, <1>7 DEF Next

LEMMA HistoryStep ==
    ASSUME Typed, ImagesCurrent, [Next]_vars
    PROVE  /\ history' \in historyImages'
           /\ \A h \in historyImages', s \in Stamp : h[s] \in {NoJourney, history'[s]}
<1>0. history \in History /\ historyImages \subseteq History
  BY DEF Typed, TypeOK
<1>1. ASSUME NEW p \in Process, LinkArchive(p)
      PROVE  /\ history' \in historyImages'
             /\ \A h \in historyImages', s \in Stamp : h[s] \in {NoJourney, history'[s]}
  <2> DEFINE With(h) == [h EXCEPT ![stamp[p]] = file[p].data]
  <2>1. /\ history[stamp[p]] = NoJourney /\ stamp[p] \in Stamp
        /\ history' = With(history)
        /\ historyImages' = historyImages \cup {With(h) : h \in historyImages}
    BY <1>1 DEF LinkArchive, Archive, Typed, TypeOK
  <2>2. history' \in historyImages'
    BY <2>1 DEF ImagesCurrent
  <2>3. ASSUME NEW h \in historyImages, NEW s \in Stamp
        PROVE  /\ h[s] \in {NoJourney, With(history)[s]}
               /\ With(h)[s] \in {NoJourney, With(history)[s]}
    BY <1>0, <2>1, <2>3 DEF ImagesCurrent, History
  <2> QED
    BY <2>1, <2>2, <2>3
<1>2. ASSUME NEW p \in Process, Commands(p) \/ Kill(p), ~LinkArchive(p)
      PROVE  history' = history /\ historyImages' \in {historyImages, {history}}
  BY <1>2 DEF Commands, Kill, Enter, Begin, GivesUp, WriteTemp, Replace, CheckReplaced,
              SyncAndAnswer, Load, Snapshot, SyncArchive, Quarantine, Verify, Unlink,
              Confirm, KeepBoth, LinkBack, PutBack, SyncRestored, DropRecovery,
              KeepRecovery, disk
<1>3. Meddle \/ RecoverByHand \/ WriteBack \/ UNCHANGED vars
      => history' = history /\ historyImages' \in {historyImages, {history}}
  BY DEF Meddle, RecoverByHand, WriteBack, vars, disk
<1>4. PowerFails => history' \in historyImages' /\ historyImages' = {history'}
  BY DEF PowerFails
<1> QED
  BY <1>0, <1>1, <1>2, <1>3, <1>4 DEF Next, ImagesCurrent

\* A meddler writes a file of its own, or edits the restored one under both
\* its names, in each image.
LEMMA MeddleRelinked ==
    ASSUME Typed, Meddle, NEW p \in Process, SamePlace(p), Relinked(p)
    PROVE  SamePlace(p)' /\ Relinked(p)'
<1>0. /\ "current" \in Name /\ "current" \notin Recovery /\ Recovery \subseteq Name
      /\ root \in Directory /\ rootImages \subseteq Directory
      /\ pc' = pc /\ spare' = spare
  BY CheckpointAssumption DEF CheckpointAssumption, Name, Typed, TypeOK, Meddle, local
<1> SUFFICES ASSUME pc[p] \in {"relinked", "drop"}
             PROVE  SamePlace(p)' /\ Relinked(p)'
  BY <1>0 DEF SamePlace, Relinked
<1> DEFINE r == spare[p]
<1>1. r \in Recovery /\ r \in Name /\ r # "current"
  BY <1>0 DEF Typed, SnapshotIsValid
<1>2. ASSUME NEW f \in NewFiles(Content), Set("current", f)
      PROVE  SamePlace(p)' /\ Relinked(p)'
  <2>1. root'["current"] = f /\ root'[r] = root[r]
    BY <1>0, <1>1, <1>2, SetNow DEF Typed
  <2>2. f # NoFile
    BY CheckpointAssumption DEF CheckpointAssumption, NewFiles, Content
  <2>3. root[r] # NoFile => f.ino # root[r].ino
    BY <1>1 DEF NewFiles
  <2> QED
    BY <1>0, <2>1, <2>2, <2>3 DEF SamePlace, Relinked
<1>3. ASSUME Set("current", NoFile) PROVE SamePlace(p)' /\ Relinked(p)'
  <2>1. root'["current"] = NoFile
    BY <1>0, <1>3, SetNow DEF Typed
  <2> QED
    BY <2>1 DEF SamePlace, Relinked
<1>4. ASSUME NEW data \in Content, Edit(data) PROVE SamePlace(p)' /\ Relinked(p)'
  <2> DEFINE ino == root["current"].ino
             New(f) == IF f # NoFile /\ f.ino = ino
                       THEN [f EXCEPT !.data = data] ELSE f
             Edited(d) == [n \in Name |-> New(d[n])]
  <2>1. /\ root["current"] # NoFile
        /\ root' = Edited(root)
        /\ rootImages' = rootImages \cup {Edited(d) : d \in rootImages}
    BY <1>4 DEF Edit, Mutate
  <2>2. /\ root'["current"] = New(root["current"]) /\ root'[r] = New(root[r])
        /\ \A d \in rootImages : Edited(d)["current"] = New(d["current"])
                                 /\ Edited(d)[r] = New(d[r])
    BY <1>0, <1>1, <2>1
  <2>3. root["current"] \in File /\ (root[r] # NoFile => root[r] \in File)
    BY <1>0, <1>1, <2>1, NamedFile DEF Typed
  <2>4. \A f \in File : New(f) \in File /\ New(f).ino = f.ino
    <3>1. \A f \in File : [f EXCEPT !.data = data] \in File
                          /\ [f EXCEPT !.data = data].ino = f.ino
      BY DEF File
    <3> QED
      BY <3>1
  <2>5. New(NoFile) = NoFile
    OBVIOUS
  <2>6. root'[r] # NoFile => root[r] # NoFile /\ root'[r].ino = root[r].ino
    BY <2>2, <2>3, <2>4, <2>5
  <2>7. root'["current"].ino = ino
    BY <2>2, <2>3, <2>4
  <2>8. root'[r] # NoFile /\ root'["current"].ino = root'[r].ino
        => root["current"] = root[r]
    BY <2>1, <2>6, <2>7 DEF SamePlace
  <2>9. SamePlace(p)'
    BY <1>0, <2>2, <2>8 DEF SamePlace
  <2>10. Relinked(p)'
    <3>1. SUFFICES ASSUME pc[p] = "drop", root'["current"] # NoFile,
                          root'["current"] = root'[r]
                   PROVE  \A d \in rootImages' : d["current"] = d[r]
      BY <1>0 DEF Relinked
    <3>2. root["current"] = root[r]
      BY <2>8, <3>1
    <3>3. \A d \in rootImages : d["current"] = d[r]
      BY <2>1, <3>1, <3>2 DEF Relinked
    <3>4. \A d \in rootImages : Edited(d)["current"] = Edited(d)[r]
      BY <2>2, <3>3
    <3> HIDE DEF Edited
    <3> QED
      BY <2>1, <3>3, <3>4
  <2> QED
    BY <2>9, <2>10
<1> QED
  BY <1>2, <1>3, <1>4 DEF Meddle

LEMMA RelinkedByActor ==
    ASSUME Typed, NEW p \in Process, SamePlace(p), Commands(p) \/ Kill(p)
    PROVE  SamePlace(p)' /\ Relinked(p)'
<1>1. CASE LinkBack(p)
  <2>1. /\ root' = [root EXCEPT !["current"] = root[spare[p]]]
        /\ spare' = spare /\ pc' = [pc EXCEPT ![p] = "relinked"]
    BY <1>1 DEF LinkBack, PutBack, Set, Mutate, Goto, local
  <2>2. spare[p] \in Recovery /\ "current" \in Name /\ spare[p] # "current"
        /\ Recovery \subseteq Name /\ root \in Directory /\ pc \in [Process -> Labels]
    BY <1>1, CheckpointAssumption
    DEF CheckpointAssumption, LinkBack, Typed, TypeOK, SnapshotIsValid, Name
  <2>3. root'["current"] = root'[spare[p]] /\ pc'[p] = "relinked"
    BY <2>1, <2>2 DEF Directory
  <2> QED
    BY <2>1, <2>3 DEF SamePlace, Relinked
<1>2. CASE SyncRestored(p) /\ pc'[p] = "drop"
  <2>1. pc[p] = "relinked" /\ root' = root /\ rootImages' = {root} /\ spare' = spare
    BY <1>2 DEF SyncRestored, SyncRoot, Exit, Goto, local, Typed, TypeOK
  <2> QED
    BY <2>1 DEF SamePlace, Relinked
<1>3. CASE ~LinkBack(p) /\ ~SyncRestored(p)
  <2>1. pc'[p] \notin {"relinked", "drop"}
    BY <1>3 DEF Commands, Kill, Enter, Begin, GivesUp, WriteTemp, Replace, CheckReplaced,
                SyncAndAnswer, Load, Snapshot, LinkArchive, Archive, SyncArchive,
                Quarantine, Verify, Unlink, Confirm, KeepBoth, DropRecovery,
                KeepRecovery, Exit, Goto, Typed, TypeOK
  <2> QED
    BY <2>1 DEF SamePlace, Relinked
<1>4. CASE SyncRestored(p) /\ pc'[p] # "drop"
  BY <1>4 DEF SyncRestored, Exit, Goto, Typed, TypeOK, SamePlace, Relinked
<1> QED
  BY <1>1, <1>2, <1>3, <1>4


LEMMA OutlastingStep == Typed /\ OneInside /\ Outlasting /\ [Next]_vars => Outlasting'
<1> SUFFICES ASSUME Typed, OneInside, Outlasting, [Next]_vars PROVE Outlasting'
  OBVIOUS
<1>1. ImagesCurrent'
  BY RootStep, HistoryStep DEF Outlasting, ImagesCurrent
<1>2. ASSUME NEW p \in Process PROVE SamePlace(p)' /\ Relinked(p)'
  <2>0. SamePlace(p) /\ Relinked(p)
    BY DEF Outlasting
  <2>1. CASE Commands(p) \/ Kill(p)
    BY <2>0, <2>1, RelinkedByActor
  <2>2. ASSUME NEW q \in Process, q # p, Commands(q) \/ Kill(q)
        PROVE  SamePlace(p)' /\ Relinked(p)'
    <3>1. pc'[p] = "idle"
      BY <2>2, OnlyActor DEF Typed
    <3> QED
      BY <3>1 DEF SamePlace, Relinked
  <2>3. CASE Meddle
    BY <2>0, <2>3, MeddleRelinked
  <2>4. CASE RecoverByHand \/ PowerFails
    <3>1. pc'[p] = "idle"
      BY <2>4 DEF RecoverByHand, PowerFails, Inside
    <3> QED
      BY <3>1 DEF SamePlace, Relinked
  <2>5. CASE WriteBack \/ UNCHANGED vars
    <3>1. UNCHANGED <<root, pc, spare>> /\ rootImages' \in {rootImages, {root}}
      BY <2>5 DEF WriteBack, SyncRoot, local, vars, disk
    <3> QED
      BY <2>0, <3>1 DEF SamePlace, Relinked
  <2> QED
    BY <2>1, <2>2, <2>3, <2>4, <2>5 DEF Next
<1> QED
  BY <1>1, <1>2 DEF Outlasting

LEMMA OutlastingInit == Init => Outlasting
  BY DEF Init, Outlasting, ImagesCurrent, SamePlace, Relinked

\* A name that a step does not touch goes on holding what it held.
LEMMA SetHolds ==
    ASSUME Typed, NEW n \in Name, NEW f, Set(n, f), history' = history,
           historyImages' = historyImages, NEW j \in Content, Lasting(j),
           \A d \in rootImages : d[n] = root[n] =>
               \/ d[n] = NoFile \/ d[n].data # j
               \/ \E m \in Name \ {n} : d[m] # NoFile /\ d[m].data = j
               \/ \A h \in historyImages : \E s \in Stamp : h[s] = j
    PROVE  Lasting(j)'
<1>1. ASSUME NEW d \in rootImages, d[n] = root[n], NEW h \in historyImages
      PROVE  Holds([d EXCEPT ![n] = f], h, j)
  <2>1. Holds(d, h, j) /\ d \in Directory
    BY DEF Lasting, Typed, TypeOK
  <2>2. \A m \in Name \ {n} : [d EXCEPT ![n] = f][m] = d[m]
    BY <2>1 DEF Directory
  <2>3. \/ \E m \in Name \ {n} : d[m] # NoFile /\ d[m].data = j
        \/ \E s \in Stamp : h[s] = j
    BY <1>1, <2>1 DEF Holds
  <2> QED
    BY <2>2, <2>3 DEF Holds
<1>2. rootImages' = rootImages \cup
          {[d EXCEPT ![n] = f] : d \in {e \in rootImages : e[n] = root[n]}}
  BY DEF Set, Mutate
<1> QED
  BY <1>1, <1>2 DEF Lasting

LEMMA AtRiskStep ==
    ASSUME Typed, Archiving, Careful, Outlasting, [Next]_vars, NEW j \in Content,
           Lasting(j), ~AskedToGo(j)
    PROVE  Lasting(j)'
<1> USE DEF Typed
<1>0. /\ "current" \in Name /\ Recovery \subseteq Name /\ "current" \notin Recovery
      /\ j # NoJourney
      /\ root \in Directory /\ rootImages \subseteq Directory
      /\ history \in History /\ historyImages \subseteq History
      /\ root \in rootImages /\ history \in historyImages
  BY CheckpointAssumption
  DEF CheckpointAssumption, Name, Content, TypeOK, Outlasting, ImagesCurrent
<1>1. ASSUME rootImages' \subseteq rootImages, historyImages' \subseteq historyImages
      PROVE  Lasting(j)'
  BY <1>1 DEF Lasting
<1>2. ASSUME NEW p \in Process, Replace(p) PROVE Lasting(j)'
  <2>1. root["current"] = NoFile \/ root["current"].data # j
    BY <1>2 DEF AskedToGo
  <2> QED
    BY <1>0, <1>2, <2>1, SetHolds DEF Replace
<1>3. ASSUME NEW p \in Process, LinkArchive(p) PROVE Lasting(j)'
  <2> DEFINE With(h) == [h EXCEPT ![stamp[p]] = file[p].data]
  <2>1. /\ history[stamp[p]] = NoJourney /\ stamp[p] \in Stamp
        /\ historyImages' = historyImages \cup {With(h) : h \in historyImages}
        /\ rootImages' = rootImages
    BY <1>3 DEF LinkArchive, Archive, TypeOK
  <2>2. ASSUME NEW d \in rootImages, NEW h \in historyImages
        PROVE  Holds(d, With(h), j)
    <3>1. h[stamp[p]] = NoJourney
      BY <2>1 DEF Outlasting, ImagesCurrent
    <3>2. \A s \in Stamp : h[s] = j => With(h)[s] = j
      BY <1>0, <3>1 DEF History
    <3>3. Holds(d, h, j)
      BY DEF Lasting
    <3> HIDE DEF With
    <3> QED
      BY <3>2, <3>3 DEF Holds
  <2> HIDE DEF With
  <2> QED
    BY <2>1, <2>2 DEF Lasting
<1>4. ASSUME NEW p \in Process, Quarantine(p) PROVE Lasting(j)'
  <2>1. PICK n \in Recovery : root[n] = NoFile /\ Move("current", n)
    BY <1>4 DEF Quarantine
  <2> DEFINE Moved(d) == [d EXCEPT ![n] = d["current"], !["current"] = NoFile]
  <2>2. rootImages' = rootImages \cup
            {Moved(d) : d \in {e \in rootImages : \A k \in {"current", n} : e[k] = root[k]}}
    BY <2>1 DEF Move, Mutate
  <2>3. ASSUME NEW d \in rootImages, d[n] = NoFile, NEW h \in historyImages
        PROVE  Holds(Moved(d), h, j)
    <3>1. Holds(d, h, j) /\ d \in Directory
      BY <1>0 DEF Lasting
    <3>2. /\ Moved(d)[n] = d["current"]
          /\ \A k \in Name \ {"current", n} : Moved(d)[k] = d[k]
      BY <1>0, <3>1 DEF Directory
    <3> HIDE DEF Moved
    <3> QED
      BY <1>0, <2>3, <3>1, <3>2 DEF Holds
  <2> HIDE DEF Moved
  <2> QED
    BY <1>4, <2>1, <2>2, <2>3 DEF Quarantine, Lasting
<1>5. ASSUME NEW p \in Process, Unlink(p) PROVE Lasting(j)'
  <2>1. CASE UNCHANGED <<root, rootImages>>
    BY <1>1, <1>5, <2>1 DEF Unlink
  <2>2. CASE Set(spare[p], NoFile)
    <3>1. root[spare[p]] = file[p] /\ op[p] \in {"complete", "clear"}
          /\ spare[p] \in Name
      BY <1>0, <1>5 DEF Unlink, Careful, MovedIsApart, Removes, SnapshotIsValid
    <3>2. op[p] = "complete" => \A h \in historyImages : h[stamp[p]] = file[p].data
      BY <1>5 DEF Unlink, Archiving, ArchivedFirst, Kept
    <3>3. op[p] = "clear" => file[p].data # j
      BY <1>5 DEF AskedToGo
    <3>4. \/ file[p].data # j
          \/ \A h \in historyImages : \E s \in Stamp : h[s] = j
      BY <3>1, <3>2, <3>3 DEF TypeOK
    <3> QED
      BY <1>5, <2>2, <3>1, <3>4, SetHolds DEF Unlink
  <2> QED
    BY <1>5, <2>1, <2>2 DEF Unlink
<1>6. ASSUME NEW p \in Process, LinkBack(p) PROVE Lasting(j)'
  BY <1>0, <1>6, SetHolds DEF LinkBack, PutBack
<1>7. ASSUME NEW p \in Process, DropRecovery(p) PROVE Lasting(j)'
  <2>1. /\ spare[p] \in Name /\ spare[p] # "current" /\ pc[p] = "drop"
        /\ Set(spare[p], NoFile) /\ root["current"] = root[spare[p]]
        /\ history' = history /\ historyImages' = historyImages
    BY <1>0, <1>7 DEF DropRecovery, SnapshotIsValid, AskedToGo
  <2>2. root["current"] # NoFile => \A d \in rootImages : d["current"] = d[spare[p]]
    BY <2>1 DEF Outlasting, Relinked
  <2>3. ASSUME NEW d \in rootImages, d[spare[p]] = root[spare[p]]
        PROVE  \/ d[spare[p]] = NoFile \/ d[spare[p]].data # j
               \/ \E m \in Name \ {spare[p]} : d[m] # NoFile /\ d[m].data = j
    BY <1>0, <2>1, <2>2, <2>3
  <2> QED
    BY <2>1, <2>3, SetHolds
<1>8. ASSUME NEW p \in Process, Commands(p) \/ Kill(p),
             ~(Replace(p) \/ LinkArchive(p) \/ Quarantine(p) \/ Unlink(p) \/ LinkBack(p)
               \/ DropRecovery(p))
      PROVE  rootImages' \in {rootImages, {root}} /\ historyImages' \in {historyImages, {history}}
  BY <1>8 DEF Commands, Kill, Enter, Begin, GivesUp, WriteTemp, CheckReplaced,
              SyncAndAnswer, TrySync, SyncRoot, Load, Snapshot,
              SyncArchive, Verify, Confirm, KeepBoth, SyncRestored, KeepRecovery, disk
<1>9. WriteBack \/ PowerFails \/ UNCHANGED vars
      => rootImages' \subseteq rootImages /\ historyImages' \subseteq historyImages
  BY <1>0 DEF WriteBack, SyncRoot, PowerFails, vars, disk
<1>10. ~Meddle /\ ~RecoverByHand
  BY DEF AskedToGo
<1> QED
  BY <1>0, <1>1, <1>2, <1>3, <1>4, <1>5, <1>6, <1>7, <1>8, <1>9, <1>10 DEF Next

(***************************************************************************)
(* A content that would outlast a power failure keeps doing so at every    *)
(* step of every command: archives are synced before the original goes,    *)
(* and a restored name before its recovery name goes.                      *)
(***************************************************************************)
THEOREM NothingAtRiskAlways == Spec => NothingAtRisk
<1>1. Init => Archiving
  BY DEF Init, Archiving, ReportedIsArchived, ArchivedFirst
<1>2. Careful => OneInside
  BY DEF Careful
<1>3. Typed /\ Archiving /\ Careful /\ Outlasting /\ [Next]_vars
      => [\A j \in Content : Lasting(j) /\ ~Lasting(j)' => AskedToGo(j)]_vars
  BY AtRiskStep
<1> QED
  BY <1>1, <1>2, <1>3, TypeInit, TypeStep, ArchivingStep, CarefulInit, CarefulStep,
     OutlastingInit, OutlastingStep, PTL
  DEF Spec, NothingAtRisk
=============================================================================
