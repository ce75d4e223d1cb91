----------------------------- MODULE Checkpoint -----------------------------
(***************************************************************************)
(* The onboarding checkpoint of onboarding_state.py on POSIX systems: the  *)
(* active journey in current.json, completed ones in history/, and the     *)
(* commands save, show, complete and clear, each one process under an      *)
(* exclusive flock.  Another program that ignores the lock may replace,    *)
(* edit or remove current.json between any two steps; any system call may  *)
(* fail; a process may be killed; the power may fail.                      *)
(*                                                                         *)
(* A directory operation is visible at once and lasting only when the      *)
(* directory is synced.  rootImages and historyImages are what a power     *)
(* failure may leave: any choice of the operations since the last sync     *)
(* that keeps the order of those on one name.                              *)
(***************************************************************************)
EXTENDS Naturals, FiniteSets

CONSTANTS
    Process,    \* processes that may run at the same time
    Valid,      \* journeys that pass validate_state
    Broken,     \* contents that do not
    Inode,      \* bound: files under the root directory at one time
    Recovery,   \* bound: names .current.*.remove ever left behind
    Stamp,      \* completion times, to the second
    Unsynced,   \* bound: images beyond which nothing new starts before a sync
    NoFile,     \* a name that refers to nothing
    NoJourney   \* a history entry that does not exist

ASSUME CheckpointAssumption ==
    /\ Valid \cap Broken = {}
    /\ NoFile \notin [ino : Inode, data : Valid \cup Broken]
    /\ NoJourney \notin Valid \cup Broken
    /\ "current" \notin Recovery
    /\ Stamp # {}
    /\ Unsynced \in Nat

Content == Valid \cup Broken
File == [ino : Inode, data : Content]
Name == {"current"} \cup Recovery
Directory == [Name -> File \cup {NoFile}]
History == [Stamp -> Valid \cup {NoJourney}]

VARIABLES
    root,           \* the names in onboarding/ericsson, now
    rootImages,     \* what a power failure may leave of them
    history,        \* the entries of history/, now
    historyImages,  \* what a power failure may leave of them
    pc,             \* where each process is
    op,             \* the command it executes
    file,           \* the file it wrote, or read as its snapshot
    stamp,          \* the completion time, taken before the lock
    spare,          \* the name it moved current.json to
    disturbed,      \* history: current.json was meddled with since the lock
    promised        \* history: what complete has reported as archived

disk == <<root, rootImages, history, historyImages>>
local == <<op, file, stamp, spare>>
vars == <<disk, pc, local, disturbed, promised>>

Labels == {"idle", "write", "replace", "check", "sync", "load",
           "archive", "archived", "remove", "verify", "unlink", "confirm",
           "restore", "relinked", "drop"}

TypeOK ==
    /\ root \in Directory /\ rootImages \subseteq Directory
    /\ history \in History /\ historyImages \subseteq History
    /\ pc \in [Process -> Labels]
    /\ op \in [Process -> {"show", "save", "complete", "clear"}]
    /\ file \in [Process -> File \cup {NoFile}]
    /\ stamp \in [Process -> Stamp]
    /\ spare \in [Process -> Name]
    /\ disturbed \in [Process -> BOOLEAN]
    /\ promised \subseteq Stamp \X Valid

AnyStamp == CHOOSE s \in Stamp : TRUE

Init ==
    /\ root = [n \in Name |-> NoFile] /\ rootImages = {root}
    /\ history = [s \in Stamp |-> NoJourney] /\ historyImages = {history}
    /\ pc = [p \in Process |-> "idle"]
    /\ op = [p \in Process |-> "show"]
    /\ file = [p \in Process |-> NoFile]
    /\ stamp = [p \in Process |-> AnyStamp]
    /\ spare = [p \in Process |-> "current"]
    /\ disturbed = [p \in Process |-> FALSE]
    /\ promised = {}

-----------------------------------------------------------------------------
(***************************************************************************)
(* The file system.                                                        *)
(***************************************************************************)
\* One operation on the names in touched, now and in the images it may reach.
Mutate(touched, Effect(_)) ==
    /\ root' = Effect(root)
    /\ rootImages' = rootImages \cup
           {Effect(d) : d \in {e \in rootImages :
                                   \A n \in touched : e[n] = root[n]}}

Set(n, f) == LET Put(d) == [d EXCEPT ![n] = f] IN Mutate({n}, Put)

Move(n, m) ==
    LET Moved(d) == [d EXCEPT ![m] = d[n], ![n] = NoFile]
    IN  Mutate({n, m}, Moved)

SyncRoot == root' = root /\ rootImages' = {root}

\* _best_effort_sync: whether it worked does not matter to the caller.
TrySync == SyncRoot \/ UNCHANGED <<root, rootImages>>

\* A new file takes a number that no name refers to, perhaps an old one.
NewFiles(contents) ==
    LET taken == {root[n].ino : n \in {m \in Name : root[m] # NoFile}}
    IN  [ino : Inode \ taken, data : contents]

-----------------------------------------------------------------------------
(***************************************************************************)
(* Processes and the lock.  The kernel holds the lock for the process, so  *)
(* it is free exactly when no command is under way.                        *)
(***************************************************************************)
Goto(p, label) == pc' = [pc EXCEPT ![p] = label]

\* The command answers, whatever the answer, and its process is gone.
Exit(p) ==
    /\ Goto(p, "idle")
    /\ op' = [op EXCEPT ![p] = "show"]
    /\ file' = [file EXCEPT ![p] = NoFile]
    /\ stamp' = [stamp EXCEPT ![p] = AnyStamp]
    /\ spare' = [spare EXCEPT ![p] = "current"]
    /\ disturbed' = [disturbed EXCEPT ![p] = FALSE]

Inside(p) == pc[p] # "idle"

Begin(p) ==
    /\ \E o \in {"show", "save", "complete", "clear"} :
          /\ op' = [op EXCEPT ![p] = o]
          /\ \E s \in (IF o = "complete" THEN Stamp ELSE {AnyStamp}) :
                stamp' = [stamp EXCEPT ![p] = s]
          /\ Goto(p, IF o = "save" THEN "write" ELSE "load")
    /\ UNCHANGED <<disk, file, spare, disturbed, promised>>

\* Slip: a command that goes ahead without the lock.
EnterAnyway(p) ==
    /\ pc[p] = "idle"
    /\ Cardinality(rootImages) <= Unsynced
    /\ Begin(p)

\* The time is taken and the payload read before the lock, which is tried for
\* half a second; a command that does not get it answers "busy", no step here.
Enter(p) ==
    /\ pc[p] = "idle"
    /\ \A q \in Process : ~Inside(q)
    /\ Cardinality(rootImages) <= Unsynced
    /\ Begin(p)

\* An error before anything has changed: only the answer.
GivesUp(p) ==
    /\ pc[p] \in {"write", "replace", "load", "archive", "remove"}
    /\ Exit(p)
    /\ UNCHANGED <<disk, promised>>

-----------------------------------------------------------------------------
(***************************************************************************)
(* save: a temporary file, renamed over current.json.                      *)
(***************************************************************************)
WriteTemp(p) ==
    /\ pc[p] = "write"
    /\ \E f \in NewFiles(Valid) : file' = [file EXCEPT ![p] = f]
    /\ Goto(p, "replace")
    /\ UNCHANGED <<disk, op, stamp, spare, disturbed, promised>>

Replace(p) ==
    /\ pc[p] = "replace"
    /\ Set("current", file[p])
    /\ Goto(p, "check")
    /\ UNCHANGED <<history, historyImages, local, disturbed, promised>>

\* _verify_named_identity: current.json is still the file just put there.
CheckReplaced(p) ==
    /\ pc[p] = "check"
    /\ \/ /\ root["current"] # NoFile
          /\ root["current"].ino = file[p].ino
          /\ Goto(p, "sync")
          /\ UNCHANGED <<local, disturbed>>
       \/ Exit(p)
    /\ UNCHANGED <<disk, promised>>

SyncAndAnswer(p) ==
    /\ pc[p] = "sync"
    /\ TrySync
    /\ Exit(p)
    /\ UNCHANGED <<history, historyImages, promised>>

-----------------------------------------------------------------------------
(***************************************************************************)
(* show, complete and clear read a snapshot of current.json.               *)
(***************************************************************************)
Snapshot(p, contents) ==
    /\ pc[p] = "load"
    /\ IF root["current"] # NoFile /\ root["current"].data \in contents
              /\ op[p] # "show"
       THEN /\ file' = [file EXCEPT ![p] = root["current"]]
            /\ Goto(p, IF op[p] = "complete" THEN "archive" ELSE "remove")
            /\ UNCHANGED <<op, stamp, spare, disturbed>>
       ELSE Exit(p)
    /\ UNCHANGED <<disk, promised>>

Load(p) == Snapshot(p, Valid)

Archive(p) ==
    /\ history' = [history EXCEPT ![stamp[p]] = file[p].data]
    /\ historyImages' = historyImages \cup
           {[h EXCEPT ![stamp[p]] = file[p].data] : h \in historyImages}
    /\ Goto(p, "archived")
    /\ UNCHANGED <<root, rootImages, local, disturbed, promised>>

\* Slip: a rename, which would take the place of an entry of that second.
ArchiveByRename(p) == pc[p] = "archive" /\ Archive(p)

\* os.link refuses a name that exists.
LinkArchive(p) ==
    /\ pc[p] = "archive"
    /\ history[stamp[p]] = NoJourney
    /\ Archive(p)

\* Slip: the entry is not synced before current.json is removed.
LeaveArchiveUnsynced(p) ==
    /\ pc[p] = "archived"
    /\ Goto(p, "remove")
    /\ UNCHANGED <<disk, local, disturbed, promised>>

\* The temporary is unlinked and history/ synced; else a partial archive stays.
SyncArchive(p) ==
    /\ pc[p] = "archived"
    /\ \/ /\ historyImages' = {history}
          /\ Goto(p, "remove")
          /\ UNCHANGED <<local, disturbed>>
       \/ /\ UNCHANGED historyImages
          /\ Exit(p)
    /\ UNCHANGED <<root, rootImages, history, promised>>

-----------------------------------------------------------------------------
(***************************************************************************)
(* _remove_snapshot: current.json is first moved to a name of its own and  *)
(* unlinked only when what was moved is what the command had read.         *)
(***************************************************************************)
Quarantine(p) ==
    /\ pc[p] = "remove"
    /\ root["current"] # NoFile
    /\ \E n \in Recovery :
          /\ root[n] = NoFile
          /\ Move("current", n)
          /\ spare' = [spare EXCEPT ![p] = n]
    /\ Goto(p, "verify")
    /\ UNCHANGED <<history, historyImages, op, file, stamp, disturbed, promised>>

\* Number and digest of the moved file are those of the snapshot.
MovedIsSnapshot(p) == root[spare[p]] = file[p]

Verify(p) ==
    /\ pc[p] = "verify"
    /\ \/ MovedIsSnapshot(p) /\ Goto(p, "unlink")
       \/ Goto(p, "restore")
    /\ UNCHANGED <<disk, local, disturbed, promised>>

Unlink(p) ==
    /\ pc[p] = "unlink"
    /\ \/ Set(spare[p], NoFile) /\ Goto(p, "confirm")
       \/ UNCHANGED <<root, rootImages>> /\ Goto(p, "restore")
    /\ UNCHANGED <<history, historyImages, local, disturbed, promised>>

\* Only a synced removal is reported as one.
Confirm(p) ==
    /\ pc[p] = "confirm"
    /\ \/ /\ SyncRoot
          /\ promised' = IF op[p] = "complete"
                         THEN promised \cup {<<stamp[p], file[p].data>>}
                         ELSE promised
       \/ UNCHANGED <<root, rootImages, promised>>
    /\ Exit(p)
    /\ UNCHANGED <<history, historyImages>>

-----------------------------------------------------------------------------
(***************************************************************************)
(* _restore_quarantine: linked back to current.json, synced, and only then *)
(* unlinked.  A newer current.json stays, and the moved file beside it.    *)
(***************************************************************************)
KeepBoth(p) ==
    /\ pc[p] = "restore"
    /\ TrySync
    /\ Exit(p)
    /\ UNCHANGED <<history, historyImages, promised>>

PutBack(p) ==
    /\ Set("current", root[spare[p]])
    /\ Goto(p, "relinked")
    /\ UNCHANGED <<history, historyImages, local, disturbed, promised>>

\* Slip: a rename or copy back, over a newer journey.
PutBackAnyway(p) == pc[p] = "restore" /\ PutBack(p)

LinkBack(p) ==
    /\ pc[p] = "restore"
    /\ root["current"] = NoFile
    /\ PutBack(p)

SyncRestored(p) ==
    /\ pc[p] = "relinked"
    /\ \/ SyncRoot /\ Goto(p, "drop") /\ UNCHANGED <<local, disturbed>>
       \/ UNCHANGED <<root, rootImages>> /\ Exit(p)
    /\ UNCHANGED <<history, historyImages, promised>>

DropRecovery(p) ==
    /\ pc[p] = "drop"
    /\ Set(spare[p], NoFile)
    /\ Goto(p, "sync")
    /\ UNCHANGED <<history, historyImages, local, disturbed, promised>>

KeepRecovery(p) ==
    /\ pc[p] = "drop"
    /\ TrySync
    /\ Exit(p)
    /\ UNCHANGED <<history, historyImages, promised>>

-----------------------------------------------------------------------------
(***************************************************************************)
(* The environment.                                                        *)
(***************************************************************************)
Kill(p) ==
    /\ pc[p] # "idle"
    /\ Exit(p)
    /\ UNCHANGED <<disk, promised>>

\* An edit in place changes the file under each of its names.
Edit(data) ==
    LET edited == root["current"].ino
        Edited(d) == [n \in Name |-> IF d[n] # NoFile /\ d[n].ino = edited
                                    THEN [d[n] EXCEPT !.data = data]
                                    ELSE d[n]]
    IN  root["current"] # NoFile /\ Mutate({}, Edited)

\* Another program at current.json, without the lock.
Meddle ==
    /\ Cardinality(rootImages) <= Unsynced
    /\ \/ \E f \in NewFiles(Content) : Set("current", f)
       \/ \E data \in Content : Edit(data)
       \/ root["current"] # NoFile /\ Set("current", NoFile)
    /\ disturbed' = [p \in Process |-> Inside(p)]
    /\ UNCHANGED <<history, historyImages, pc, local, promised>>

\* What the answers ask a person to do with a recovery file: put it back if
\* there is no newer journey, or drop it after inspecting both.
RecoverByHand ==
    /\ \A p \in Process : ~Inside(p)
    /\ \E n \in Recovery :
          /\ root[n] # NoFile
          /\ IF root["current"] = NoFile THEN Move(n, "current")
             ELSE Set(n, NoFile)
    /\ UNCHANGED <<history, historyImages, pc, local, disturbed, promised>>

\* The kernel writes a directory back on its own.
WriteBack ==
    /\ \/ SyncRoot /\ UNCHANGED historyImages
       \/ historyImages' = {history} /\ UNCHANGED <<root, rootImages>>
    /\ UNCHANGED <<history, pc, local, disturbed, promised>>

PowerFails ==
    /\ root' \in rootImages /\ rootImages' = {root'}
    /\ history' \in historyImages /\ historyImages' = {history'}
    /\ pc' = [p \in Process |-> "idle"]
    /\ op' = [p \in Process |-> "show"]
    /\ file' = [p \in Process |-> NoFile]
    /\ stamp' = [p \in Process |-> AnyStamp]
    /\ spare' = [p \in Process |-> "current"]
    /\ disturbed' = [p \in Process |-> FALSE]
    /\ UNCHANGED promised

Commands(p) ==
    \/ Enter(p) \/ GivesUp(p)
    \/ WriteTemp(p) \/ Replace(p) \/ CheckReplaced(p) \/ SyncAndAnswer(p)
    \/ Load(p) \/ LinkArchive(p) \/ SyncArchive(p)
    \/ Quarantine(p) \/ Verify(p) \/ Unlink(p) \/ Confirm(p)
    \/ KeepBoth(p) \/ LinkBack(p) \/ SyncRestored(p)
    \/ DropRecovery(p) \/ KeepRecovery(p)

Next ==
    \/ \E p \in Process : Commands(p) \/ Kill(p)
    \/ Meddle \/ RecoverByHand \/ WriteBack \/ PowerFails

Spec == Init /\ [][Next]_vars

-----------------------------------------------------------------------------
(***************************************************************************)
(* What the lock is for: unless another program meddles, what a command    *)
(* has read is still what it archives, moves and unlinks.                  *)
(***************************************************************************)
ReadIsStillCurrent ==
    \A p \in Process : ~disturbed[p] =>
        /\ pc[p] \in {"archive", "archived", "remove"} => root["current"] = file[p]
        /\ pc[p] \in {"verify", "unlink"} => root[spare[p]] = file[p]

(***************************************************************************)
(* An archive that complete has reported is there for good, under its own  *)
(* name and with the journey that was current, whatever fails later.       *)
(***************************************************************************)
ReportedIsArchived ==
    \A r \in promised : \A h \in historyImages \cup {history} : h[r[1]] = r[2]

Holds(d, h, j) ==
    \/ \E n \in Name : d[n] # NoFile /\ d[n].data = j
    \/ \E s \in Stamp : h[s] = j

\* Somebody asked for j to go: a save over it, a clear that read it, a meddler,
\* be it one that displaced what a command had just restored.
AskedToGo(j) ==
    \/ Meddle \/ RecoverByHand
    \/ \E p \in Process :
          \/ Replace(p) /\ root["current"] # NoFile /\ root["current"].data = j
          \/ Unlink(p) /\ op[p] = "clear" /\ file[p].data = j
          \/ DropRecovery(p) /\ root["current"] # root[spare[p]]

(***************************************************************************)
(* No step of a command, failed, raced or killed, takes the last copy of a *)
(* content out of current.json, the recovery names and the history, except *)
(* a save over it and the clear that had read it.                          *)
(***************************************************************************)
NothingForgotten ==
    [][\A j \in Content :
          Holds(root, history, j) /\ ~Holds(root', history', j)
          => AskedToGo(j) \/ PowerFails]_vars

Lasting(j) == \A d \in rootImages, h \in historyImages : Holds(d, h, j)

(***************************************************************************)
(* The same for power failures: a content that would outlast one keeps     *)
(* doing so at every step of every command, so archives are synced before  *)
(* the original goes, and a restored name before its recovery name goes.   *)
(***************************************************************************)
NothingAtRisk ==
    [][\A j \in Content : Lasting(j) /\ ~Lasting(j)' => AskedToGo(j)]_vars
=============================================================================
