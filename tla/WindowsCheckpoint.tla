-------------------------- MODULE WindowsCheckpoint --------------------------
(***************************************************************************)
(* The onboarding checkpoint of onboarding_state_windows.py: the commands  *)
(* of Checkpoint on Windows, one process at a time under a lock on a file. *)
(*                                                                         *)
(* There, a file that is open cannot be renamed, replaced or removed by    *)
(* others unless every opener shares deletion.  The commands never share   *)
(* it, so current.json stays in its place while they hold it.  Another     *)
(* program may open it too, write into it, or, while nobody holds it,      *)
(* replace and remove it.  Any call may fail, a process may be killed, the *)
(* power may fail and take the volume back to an earlier moment.           *)
(***************************************************************************)
EXTENDS Naturals, FiniteSets

CONSTANTS
    Process,    \* processes that may run at the same time
    Valid,      \* journeys that pass the validator
    Broken,     \* contents that do not
    Inode,      \* bound: files under the root directory at one time
    Stamp,      \* completion times, to the second
    Unflushed,  \* bound: moments beyond which nothing new starts before a flush
    NoFile,     \* there is no such file
    NoJourney   \* a history entry that does not exist

ASSUME WindowsAssumption ==
    /\ Valid \cap Broken = {}
    /\ NoFile \notin [ino : Inode, data : Valid \cup Broken]
    /\ NoJourney \notin Valid \cup Broken
    /\ Stamp # {}
    /\ Unflushed \in Nat

Content == Valid \cup Broken
File == [ino : Inode, data : Content]
Moment == [current : File \cup {NoFile}, history : [Stamp -> Valid \cup {NoJourney}]]

VARIABLES
    current,    \* current.json
    history,    \* the entries of history/
    moments,    \* what a power failure may leave of both
    deleting,   \* current.json goes when its last handle is closed
    outside,    \* another program has it open: "none", "shares" or "keeps"
    pc,         \* where each process is
    op,         \* the command it executes
    stamp,      \* the completion time
    file,       \* the file it wrote, or the current.json it read
    temp,       \* its temporary file
    answer,     \* what it will say
    closing,    \* a close of its failed: it succeeded when retried, or the handle is stuck
    named,      \* whether it names a leftover temporary
    changed,    \* history: it changed current.json or history/
    disturbed,  \* history: current.json was written or replaced meanwhile
    promised    \* history: what complete has archived and was to report

disk == <<current, history, moments, deleting>>
local == <<op, stamp, file, temp, answer, closing, named, changed, disturbed>>
vars == <<disk, outside, pc, local, promised>>

\* "error": the error of a close, of the directories or of the lock, and no word
\* of what the command has done.
Answers == {"none", "done", "absent", "failed", "uncertain", "partial", "archived", "error"}
Labels == {"idle", "open", "write", "rename", "reopen", "settle", "remove", "close",
           "flush", "leave"}

TypeOK ==
    /\ current \in File \cup {NoFile}
    /\ history \in [Stamp -> Valid \cup {NoJourney}]
    /\ moments \subseteq Moment
    /\ deleting \in BOOLEAN
    /\ outside \in {"none", "shares", "keeps"}
    /\ pc \in [Process -> Labels]
    /\ op \in [Process -> {"show", "save", "complete", "clear"}]
    /\ stamp \in [Process -> Stamp]
    /\ file \in [Process -> File \cup {NoFile}]
    /\ temp \in [Process -> File \cup {NoFile}]
    /\ answer \in [Process -> Answers]
    /\ closing \in [Process -> {"fine", "retried", "stuck"}]
    /\ named \in [Process -> BOOLEAN]
    /\ changed \in [Process -> BOOLEAN] /\ disturbed \in [Process -> BOOLEAN]
    /\ promised \subseteq Stamp \X Valid

AnyStamp == CHOOSE s \in Stamp : TRUE
Now == [current |-> current, history |-> history]

Init ==
    /\ current = NoFile /\ deleting = FALSE
    /\ history = [s \in Stamp |-> NoJourney]
    /\ moments = {Now}
    /\ outside = "none"
    /\ pc = [p \in Process |-> "idle"]
    /\ op = [p \in Process |-> "show"]
    /\ stamp = [p \in Process |-> AnyStamp]
    /\ file = [p \in Process |-> NoFile] /\ temp = [p \in Process |-> NoFile]
    /\ answer = [p \in Process |-> "none"] /\ closing = [p \in Process |-> "fine"]
    /\ named = [p \in Process |-> FALSE]
    /\ changed = [p \in Process |-> FALSE] /\ disturbed = [p \in Process |-> FALSE]
    /\ promised = {}

-----------------------------------------------------------------------------
(* Files and handles.                                                      *)

Inside(p) == pc[p] # "idle"

\* The process has current.json open, and does not share its deletion.
Grips(p) ==
    \/ op[p] = "save" /\ pc[p] \in {"reopen", "settle"}
    \/ op[p] = "complete" /\ pc[p] \in {"write", "rename", "reopen", "settle"}
    \/ op[p] \in {"complete", "clear"} /\ pc[p] \in {"remove", "close"}
    \/ pc[p] = "leave" /\ closing[p] = "stuck" /\ file[p] # NoFile

Gripped == \E p \in Process : Grips(p)

\* Nobody has it open: it can be replaced or removed.
Loose == ~Gripped /\ outside = "none" /\ ~deleting

\* The volume logs its names in the order of the calls.
Log == moments' = moments \cup {[current |-> current', history |-> history']}

Flushed == moments' = {Now}

\* Not every directory can be flushed; what Windows says of it is passed over.
FlushDirectory == Flushed \/ UNCHANGED moments

\* The last handle closed takes the name away.
Vanish == current' = NoFile /\ deleting' = FALSE /\ UNCHANGED history /\ Log

\* The process closes what it has open.
LetGo(p) ==
    IF Grips(p) /\ deleting /\ outside = "none" THEN Vanish ELSE UNCHANGED disk

\* A new file takes a number that no file has, perhaps an old one.
NewFiles(contents) ==
    LET files == {current} \cup {file[p] : p \in Process} \cup {temp[p] : p \in Process}
    IN  [ino : Inode \ {f.ino : f \in files \ {NoFile}}, data : contents]

-----------------------------------------------------------------------------
(* Commands and the lock, which is the kernel's: it goes with the process. *)

Goto(p, label) == pc' = [pc EXCEPT ![p] = label]

\* The handles are closed, and the answer is decided.
Answer(p, what) ==
    /\ Goto(p, "leave")
    /\ answer' = [answer EXCEPT ![p] = what]
    /\ UNCHANGED closing

\* A close that fails is all the command then says, and whether the handle is
\* still open, until the process ends, is not known.
Breaks(p) ==
    /\ Goto(p, "leave")
    /\ answer' = [answer EXCEPT ![p] = "error"]
    /\ closing' \in {closing, [closing EXCEPT ![p] = "stuck"]}

Ends(p, what) == Answer(p, what) \/ Breaks(p)

Change(p) == changed' = [changed EXCEPT ![p] = TRUE]

Begin(p) ==
    /\ \E o \in {"show", "save", "complete", "clear"} :
          /\ op' = [op EXCEPT ![p] = o]
          /\ \E s \in (IF o = "complete" THEN Stamp ELSE {AnyStamp}) :
                stamp' = [stamp EXCEPT ![p] = s]
          /\ Goto(p, IF o = "save" THEN "write" ELSE "open")
    /\ UNCHANGED <<disk, outside, file, temp, answer, closing, named, changed,
                   disturbed, promised>>

\* The directories are opened, then the lock is tried for half a second; a
\* command that does not get it answers "busy", no step here.
Enter(p) ==
    /\ pc[p] = "idle" /\ Cardinality(moments) <= Unflushed
    /\ \A q \in Process : ~Inside(q)
    /\ Begin(p)

\* A directory, a handle or an access list is not as it should be, before
\* anything has changed.
GivesUp(p) ==
    /\ \/ pc[p] = "open" /\ Answer(p, "failed")
       \/ pc[p] = "remove" /\ op[p] = "clear" /\ Ends(p, "failed")
    /\ UNCHANGED <<disk, outside, op, stamp, file, temp, named, changed, disturbed, promised>>

\* What it has done, the directories are verified once more and the lock is
\* released; where that fails, it says so instead.
Unreleased(p) ==
    /\ pc[p] = "leave"
    /\ answer[p] = "done" \/ (answer[p] = "absent" /\ op[p] # "complete")
    /\ answer' = [answer EXCEPT ![p] = "error"]
    /\ UNCHANGED <<disk, outside, pc, op, stamp, file, temp, closing, named, changed,
                   disturbed, promised>>

\* The process ends, and with it what it could not close.
Reset(p) ==
    /\ Goto(p, "idle")
    /\ op' = [op EXCEPT ![p] = "show"]
    /\ stamp' = [stamp EXCEPT ![p] = AnyStamp]
    /\ file' = [file EXCEPT ![p] = NoFile] /\ temp' = [temp EXCEPT ![p] = NoFile]
    /\ answer' = [answer EXCEPT ![p] = "none"] /\ closing' = [closing EXCEPT ![p] = "fine"]
    /\ named' = [named EXCEPT ![p] = FALSE]
    /\ changed' = [changed EXCEPT ![p] = FALSE]
    /\ disturbed' = [disturbed EXCEPT ![p] = FALSE]

Leave(p) ==
    /\ pc[p] = "leave"
    /\ LetGo(p)
    /\ Reset(p)
    /\ UNCHANGED <<outside, promised>>

-----------------------------------------------------------------------------
(* Reading current.json.                                                   *)

\* It is opened only if it is a file of its own that is not about to go; for a
\* removal nobody may hold it without sharing deletion.
Opens(p) ==
    /\ current # NoFile /\ ~deleting
    /\ op[p] # "show" => outside # "keeps"

Absent(p) ==
    /\ pc[p] = "open"
    /\ current = NoFile
    /\ Answer(p, "absent")
    /\ UNCHANGED <<disk, outside, op, stamp, file, temp, named, changed, disturbed, promised>>

Show(p) ==
    /\ pc[p] = "open" /\ op[p] = "show"
    /\ Opens(p)
    /\ file' = [file EXCEPT ![p] = current]
    /\ Ends(p, "done")
    /\ UNCHANGED <<disk, outside, op, stamp, temp, named, changed, disturbed, promised>>

\* complete and clear go on with what can be read and the validator accepts.
Read(p) ==
    /\ pc[p] = "open" /\ op[p] \in {"complete", "clear"}
    /\ Opens(p)
    /\ file' = [file EXCEPT ![p] = current]
    /\ \/ /\ current.data \in Valid
          /\ Goto(p, IF op[p] = "complete" THEN "write" ELSE "remove")
          /\ UNCHANGED <<answer, closing>>
       \/ Ends(p, "failed")
    /\ UNCHANGED <<disk, outside, op, stamp, temp, named, changed, disturbed, promised>>

-----------------------------------------------------------------------------
(* A temporary file, renamed into its place.                               *)

\* What a save is to write, or what complete has read.
ToWrite(p) == IF op[p] = "save" THEN Valid ELSE {file[p].data}

WriteTemp(p) ==
    /\ pc[p] = "write"
    /\ \E f \in NewFiles(ToWrite(p)) : temp' = [temp EXCEPT ![p] = f]
    /\ Goto(p, "rename")
    /\ UNCHANGED <<disk, outside, op, stamp, file, answer, closing, named, changed,
                   disturbed, promised>>

\* It is removed, or named in the answer.
Discard(p) ==
    \/ temp' = [temp EXCEPT ![p] = NoFile] /\ UNCHANGED named
    \/ temp' = temp /\ named' = [named EXCEPT ![p] = TRUE]

WriteFails(p) ==
    /\ pc[p] = "write"
    /\ \/ UNCHANGED <<temp, named>>
       \/ \E f \in NewFiles(ToWrite(p)) :
             \/ UNCHANGED <<temp, named>>
             \/ temp' = [temp EXCEPT ![p] = f] /\ named' = [named EXCEPT ![p] = TRUE]
    /\ Answer(p, "failed") \/ (Grips(p) /\ Breaks(p))
    /\ UNCHANGED <<disk, outside, op, stamp, file, changed, disturbed, promised>>

MayArchive(p) == history[stamp[p]] = NoJourney

Renamed(p) ==
    /\ temp' = [temp EXCEPT ![p] = NoFile]
    /\ Change(p) /\ Log
    /\ Goto(p, "reopen")
    /\ UNCHANGED <<deleting, outside, op, stamp, answer, closing, named, disturbed, promised>>

Publish(p) ==
    /\ pc[p] = "rename" /\ op[p] = "save"
    /\ Loose
    /\ current' = temp[p] /\ file' = [file EXCEPT ![p] = temp[p]]
    /\ UNCHANGED history
    /\ Renamed(p)

Archive(p) ==
    /\ pc[p] = "rename" /\ op[p] = "complete"
    /\ MayArchive(p)
    /\ history' = [history EXCEPT ![stamp[p]] = temp[p].data]
    /\ UNCHANGED <<current, file>>
    /\ Renamed(p)

\* ... or the name is taken, or the call fails.  If then the temporary cannot be
\* closed, it is neither removed nor named.
RenameFails(p) ==
    /\ pc[p] = "rename"
    /\ \/ Discard(p) /\ (Answer(p, "failed") \/ (Grips(p) /\ Breaks(p)))
       \/ Breaks(p) /\ UNCHANGED <<temp, named>>
    /\ UNCHANGED <<disk, outside, op, stamp, file, changed, disturbed, promised>>

\* A slip: an error after the rename is answered like one before it.
UnsureIsFailed(p) == "failed"

\* What was renamed may have been, and the answer says so.
Unsure(p) == IF op[p] = "save" THEN "uncertain" ELSE "partial"

\* The file is opened once more under its new name, and flushed.  Windows may
\* refuse, for the command still holds it open for deletion.
Reopen(p) ==
    /\ pc[p] = "reopen"
    /\ \/ Flushed /\ Goto(p, "settle") /\ UNCHANGED <<answer, closing>>
       \/ Ends(p, Unsure(p)) /\ UNCHANGED moments
    /\ UNCHANGED <<current, history, deleting, outside, op, stamp, file, temp, named,
                   changed, disturbed, promised>>

\* The directory is flushed, as far as it can be.
Settle(p) ==
    /\ pc[p] = "settle"
    /\ \/ /\ FlushDirectory
          /\ \/ op[p] = "save" /\ Ends(p, "done")
             \/ op[p] = "complete" /\ Goto(p, "remove") /\ UNCHANGED <<answer, closing>>
             \/ op[p] = "complete" /\ Breaks(p)
       \/ Ends(p, Unsure(p)) /\ UNCHANGED moments
    /\ UNCHANGED <<current, history, deleting, outside, op, stamp, file, temp, named,
                   changed, disturbed, promised>>

-----------------------------------------------------------------------------
(* Removing current.json by the handle it was read with.                   *)

\* A slip: complete removes before it has archived.
RemovesFirst(p) == pc[p] = "remove" \/ (pc[p] = "write" /\ op[p] = "complete")

MayRemove(p) == pc[p] = "remove"

Remove(p) ==
    /\ MayRemove(p)
    /\ deleting' = TRUE
    /\ Goto(p, "close")
    /\ UNCHANGED <<current, history, moments, outside, local, promised>>

RemoveFails(p) ==
    /\ pc[p] = "remove" /\ op[p] = "complete"
    /\ Ends(p, "archived")
    /\ UNCHANGED <<disk, outside, op, stamp, file, temp, named, changed, disturbed, promised>>

Close(p) ==
    /\ pc[p] = "close"
    /\ LetGo(p)
    /\ Change(p)
    /\ Goto(p, "flush")
    /\ UNCHANGED <<outside, op, stamp, file, temp, answer, closing, named, disturbed, promised>>

\* A close that fails is tried once more on the way out.  It may succeed, and the
\* file goes, yet clear answers as if the call before had failed.
CloseFails(p) ==
    /\ pc[p] = "close"
    /\ Goto(p, "leave")
    /\ Change(p)
    /\ \/ /\ LetGo(p)
          /\ closing' = [closing EXCEPT ![p] = "retried"]
          /\ answer' = [answer EXCEPT ![p] = IF op[p] = "complete" THEN "archived" ELSE "failed"]
       \/ /\ UNCHANGED disk
          /\ closing' = [closing EXCEPT ![p] = "stuck"]
          /\ answer' = [answer EXCEPT ![p] = "error"]
    /\ UNCHANGED <<outside, op, stamp, file, temp, named, disturbed, promised>>

\* The removal may not last, and the answer says so.
Unsettled(p) == IF op[p] = "complete" THEN "archived" ELSE "uncertain"

FlushRemoval(p) ==
    /\ pc[p] = "flush"
    /\ \/ /\ FlushDirectory
          /\ Answer(p, "done")
          /\ promised' = IF op[p] = "complete"
                         THEN promised \cup {<<stamp[p], file[p].data>>} ELSE promised
       \/ /\ Answer(p, Unsettled(p))
          /\ UNCHANGED <<moments, promised>>
    /\ UNCHANGED <<current, history, deleting, outside, op, stamp, file, temp, named,
                   changed, disturbed>>

-----------------------------------------------------------------------------
(* The environment.                                                        *)

\* The handles of a killed process are closed for it.
Kill(p) ==
    /\ Inside(p)
    /\ LetGo(p)
    /\ Reset(p)
    /\ UNCHANGED <<outside, promised>>

Disturb == disturbed' = [p \in Process |-> Inside(p)]

\* A slip: the commands share deletion.
Unprotected == outside = "none" /\ ~deleting

Protected == Loose

\* Another program replaces or removes current.json.
Displace ==
    /\ Cardinality(moments) <= Unflushed
    /\ Protected
    /\ current' \in NewFiles(Content) \cup {NoFile}
    /\ current' # current
    /\ UNCHANGED history /\ Log /\ Disturb
    /\ UNCHANGED <<deleting, outside, pc, op, stamp, file, temp, answer, closing, named,
                   changed, promised>>

\* It opens current.json, and where a command holds it, has to share deletion.
OpenOutside ==
    /\ outside = "none" /\ current # NoFile /\ ~deleting
    /\ outside' \in IF Gripped THEN {"shares"} ELSE {"shares", "keeps"}
    /\ UNCHANGED <<disk, pc, local, promised>>

Edit ==
    /\ outside # "none" /\ Cardinality(moments) <= Unflushed
    /\ \E data \in Content \ {current.data} :
       LET Edited(f) == IF f # NoFile /\ f.ino = current.ino THEN [f EXCEPT !.data = data] ELSE f
       IN  /\ current' = Edited(current)
           /\ moments' = moments \cup {[m EXCEPT !.current = Edited(m.current)] : m \in moments}
    /\ Disturb
    /\ UNCHANGED <<history, deleting, outside, pc, op, stamp, file, temp, answer, closing,
                   named, changed, promised>>

CloseOutside ==
    /\ outside # "none"
    /\ outside' = "none"
    /\ IF deleting /\ ~Gripped THEN Vanish ELSE UNCHANGED disk
    /\ UNCHANGED <<pc, local, promised>>

WriteBack ==
    /\ Flushed
    /\ UNCHANGED <<current, history, deleting, outside, pc, local, promised>>

PowerFails ==
    /\ \E m \in moments : current' = m.current /\ history' = m.history /\ moments' = {m}
    /\ deleting' = FALSE /\ outside' = "none"
    /\ pc' = [p \in Process |-> "idle"]
    /\ op' = [p \in Process |-> "show"]
    /\ stamp' = [p \in Process |-> AnyStamp]
    /\ file' = [p \in Process |-> NoFile] /\ temp' = [p \in Process |-> NoFile]
    /\ answer' = [p \in Process |-> "none"] /\ closing' = [p \in Process |-> "fine"]
    /\ named' = [p \in Process |-> FALSE]
    /\ changed' = [p \in Process |-> FALSE] /\ disturbed' = [p \in Process |-> FALSE]
    /\ UNCHANGED promised

-----------------------------------------------------------------------------
Commands(p) ==
    \/ Enter(p) \/ GivesUp(p) \/ Unreleased(p) \/ Leave(p)
    \/ Absent(p) \/ Show(p) \/ Read(p)
    \/ WriteTemp(p) \/ WriteFails(p) \/ Publish(p) \/ Archive(p) \/ RenameFails(p)
    \/ Reopen(p) \/ Settle(p)
    \/ Remove(p) \/ RemoveFails(p) \/ Close(p) \/ CloseFails(p) \/ FlushRemoval(p)

Next ==
    \/ \E p \in Process : Commands(p) \/ Kill(p)
    \/ Displace \/ OpenOutside \/ Edit \/ CloseOutside \/ WriteBack \/ PowerFails

Spec == Init /\ [][Next]_vars

-----------------------------------------------------------------------------
(* Properties.                                                             *)

\* What a command holds stays current.json until it lets go, whatever other
\* programs do: it is the file that was read, or the one just put there.
HeldIsCurrent ==
    \A p \in Process : Grips(p) => current # NoFile /\ current.ino = file[p].ino

\* Answers are true.  One that says nothing was done has changed nothing, but for
\* a clear that closed current.json at the second attempt: that one has gone.  One
\* that calls an archive partial leaves the journey active.  A complete that has
\* changed anything has archived, whatever it answers; done, it has removed too, as
\* has a clear.  A temporary that outlives its command is named in the answer,
\* unless the answer is an error about a handle, which says nothing of the rest; and
\* an archive that was to be reported is there for good.
AnswerIsTrue ==
    /\ \A p \in Process : pc[p] = "leave" =>
           /\ temp[p] # NoFile => named[p] \/ answer[p] = "error"
           /\ answer[p] \in {"failed", "absent"} /\ changed[p] =>
                 op[p] = "clear" /\ closing[p] = "retried"
           /\ answer[p] = "partial" /\ ~disturbed[p] => current = file[p] /\ ~deleting
           /\ op[p] = "complete" /\ (changed[p] \/ answer[p] \in {"done", "archived"}) =>
                 history[stamp[p]] = file[p].data
           /\ answer[p] = "done" /\ op[p] = "save" /\ ~disturbed[p] => current = file[p]
           /\ (answer[p] = "done" /\ op[p] \in {"complete", "clear"}) \/ closing[p] = "retried" =>
                 disturbed[p] \/ current # file[p] \/ deleting
    /\ \A r \in promised : \A m \in moments \cup {Now} : m.history[r[1]] = r[2]

Holds(m, j) ==
    \/ m.current # NoFile /\ m.current.data = j
    \/ \E s \in Stamp : m.history[s] = j

Lasting(j) == \A m \in moments : Holds(m, j)

\* current.json goes, or has gone, by the command's own mark.
Removing(p) ==
    \/ pc[p] \in {"close", "flush"}
    \/ pc[p] = "leave" /\ closing[p] = "stuck" /\ deleting

\* Somebody wanted j gone: a save over it, a clear, another program; or that
\* program wrote it into a file that a command had already read.
AskedToGo(j) ==
    \/ Displace \/ Edit
    \/ \E p \in Process :
          \/ Publish(p)
          \/ op[p] = "clear" /\ Removing(p)
          \/ op[p] = "complete" /\ Removing(p) /\ disturbed[p]
    \/ deleting /\ CloseOutside

\* No command, failed, raced, killed or cut off by a power failure, takes away
\* a content that would have outlasted a power failure, unless it was asked to.
NothingAtRisk ==
    [][\A j \in Content : Lasting(j) /\ ~Lasting(j)' => AskedToGo(j)]_vars

=============================================================================
