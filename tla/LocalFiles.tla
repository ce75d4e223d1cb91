----------------------------- MODULE LocalFiles -----------------------------
(***************************************************************************)
(* The local files the programs read and write: bounded documents (the     *)
(* onboarding scripts), their checkpoint, sources of uploads (Artifactory, *)
(* SharePoint), the input of a command, the token cache of Teams, and      *)
(* downloads.  One call, system call by system call, with calls that fail, *)
(* in a directory where other programs replace, edit and remove the file.  *)
(*                                                                         *)
(* A file has a size in parts, and a revision that every edit changes.     *)
(* Directories and links stand still.                                      *)
(***************************************************************************)
EXTENDS BoundedDocument

CONSTANTS
    File, New,       \* files; New is the one a writer creates
    MaxBytes,        \* how much is read or written
    MaxChanges,      \* bound: what other programs do during the call
    Cases            \* the calls, and what they meet

Size == 0 .. MaxBytes + 1
Last == 2                    \* handles 0 and 1 are directories, the last is the file
None == "none"

-----------------------------------------------------------------------------
(* The readers.                                                            *)
(*                                                                         *)
(*  first      the first name that is opened on its own: all of them, the  *)
(*             directory of the file, or only the file                     *)
(*  windows    whether a handle is inspected before it is a descriptor     *)
(*  retried    whether an interrupted call is made again                   *)
(*  before     whether the file is looked at by name before, and compared  *)
(*  after      whether it is looked at by name afterwards, and compared    *)
(*  exact      whether as much must be read as there was at first          *)
(*  keeps      the first handle that stays open to the end                 *)
(*  creates    whether directories that are missing are made               *)
(*  use        what is done with it: "document", "state", "upload", "text" *)

PosixOpenRegular ==
    [first |-> Last, windows |-> FALSE, retried |-> TRUE, before |-> FALSE, after |-> FALSE,
     exact |-> FALSE, keeps |-> Last, creates |-> FALSE, use |-> "document"]
PosixOpenRelative == [PosixOpenRegular EXCEPT !.first = 0]
Win32OpenRegular == [PosixOpenRegular EXCEPT !.windows = TRUE, !.retried = FALSE]
Win32OpenRelative == [Win32OpenRegular EXCEPT !.first = 0]
ArmOpenSource ==
    [PosixOpenRelative EXCEPT !.retried = FALSE, !.before = TRUE, !.use = "upload"]
StagedUploadSource ==
    [PosixOpenRegular EXCEPT !.retried = FALSE, !.after = TRUE, !.exact = TRUE, !.use = "text"]
ReadText == [PosixOpenRegular EXCEPT !.retried = FALSE, !.before = TRUE, !.use = "text"]
ReadCache ==
    [PosixOpenRegular EXCEPT !.first = 1, !.retried = FALSE, !.keeps = 1, !.use = "text"]
LoadCurrent ==
    [PosixOpenRelative EXCEPT !.retried = FALSE, !.keeps = 1, !.creates = TRUE, !.use = "state"]

Readers ==
    {PosixOpenRegular, PosixOpenRelative, Win32OpenRegular, Win32OpenRelative,
     ArmOpenSource, StagedUploadSource, ReadText, ReadCache, LoadCurrent}

\* The writers: a download creates its file, the token cache is replaced.
DownloadTarget == [PosixOpenRegular EXCEPT !.retried = FALSE, !.use = "download"]
PersistCache == [PosixOpenRegular EXCEPT !.retried = FALSE, !.use = "persist"]
Writers == {DownloadTarget, PersistCache}

\* A name is taken by a file that was there before, or by no file; only a file
\* that nobody has looked at by name may be said not to be there.  A checkpoint
\* is JSON, and JSON writes trees.
ASSUME CasesAssumption ==
    /\ MaxBytes \in Nat
    /\ New \in File /\ {None, "no", "link", "other"} \cap File = {}
    /\ \A c \in Cases :
          /\ c.how \in Readers \cup Writers
          /\ c.parent \in {"dir", None, "link", "other"}
          /\ c.name \in (File \ {New}) \cup {None, "link", "other"}
          /\ c.size \in Size
          /\ c.optional => ~c.how.before /\ ~c.how.after
          /\ IsDocument(c.document)
          /\ c.document.json \/ c.how.use = "state" => IsTree(c.document)

VARIABLES
    case,       \* how: a reader or writer; optional; parent; name, size; document
    name,       \* what the name denotes: a file, or "none", "link", "other"
    size, rev,  \* of each file
    changes,
    gone,       \* whether the file was not there at some moment of the call
    pc, at,     \* where the call is, and the handle it is to open
    tries,      \* interruptions of the present call
    open,       \* handles that are open
    due,        \* handles the code is still to close
    spoilt,     \* whether a handle was closed that was not open
    unclosed,   \* whether a close has failed
    noted,      \* the file seen by name, before it is opened or after
    held,       \* what is open by that name
    announced,  \* its size by fstat
    got,        \* the revision of each part that was read
    again,      \* and of each part that was sent
    scan,       \* the document as far as it has been looked at
    fill,       \* the writer's own file: "none", "part", "whole"
    left,       \* whether it still has its own name
    put,        \* "no", or what the name denoted when that file was put there
    first,      \* the first failure
    told,       \* the failure that is under way
    outcome     \* "given", "nothing", or the failure

place == <<name, size, rev, changes, gone>>
handles == <<open, due, spoilt, unclosed>>
reading == <<noted, held, announced, got, again>>
writing == <<fill, left, put>>
failing == <<first, told>>
vars == <<case, place, pc, at, tries, handles, reading, scan, writing, failing, outcome>>

Codes ==
    {"missing", "unsafe", "io", "bytes", "changed", "invalid", "parser", "structure",
     "cycle", "keys", "exists", "refused", "durability"}

TypeOK ==
    /\ IsDocument(case.document)
    /\ name \in File \cup {None, "link", "other"}
    /\ size \in [File -> Size] /\ rev \in [File -> Nat] /\ changes \in 0 .. MaxChanges
    /\ at \in 0 .. Last /\ tries \in 0 .. 2
    /\ open \subseteq 0 .. Last /\ due \subseteq 0 .. Last
    /\ {gone, spoilt, unclosed, left} \subseteq BOOLEAN
    /\ {noted, held} \subseteq File \cup {None, "link", "other"}
    /\ announced \in Size /\ Len(got) \in Size /\ Len(again) \in Size
    /\ fill \in {"none", "part", "whole"}
    /\ put \in File \cup {"no", None, "link", "other"}
    /\ {first, told} \subseteq Codes \cup {None}
    /\ outcome \in Codes \cup {None, "given", "nothing", "killed"}

how == case.how
Writes == how \in Writers

\* Whether failures of a close have been thought of.
Careful == ~Writes /\ how.use = "document"

Init ==
    /\ case \in Cases
    /\ name = case.name /\ size = [f \in File |-> case.size] /\ rev = [f \in File |-> 0]
    /\ changes = 0 /\ gone = (None \in {case.name, case.parent})
    /\ at = IF Writes THEN 1 ELSE how.first
    /\ pc = CASE Writes -> "look"
              [] ~Writes /\ (how.before \/ how.after) -> "note"
              [] OTHER -> "open"
    /\ tries = 0
    /\ open = {} /\ due = {} /\ spoilt = FALSE /\ unclosed = FALSE
    /\ noted = None /\ held = None /\ announced = 0 /\ got = <<>> /\ again = <<>>
    /\ scan = ComposeAll
    /\ fill = "none" /\ left = FALSE /\ put = "no"
    /\ first = None /\ told = None /\ outcome = None

-----------------------------------------------------------------------------
(* Failing, and letting go.                                                *)

Fails(code) ==
    /\ pc' = "release" /\ told' = code
    /\ first' = IF first = None THEN code ELSE first

Goes(where) == pc' = where /\ UNCHANGED failing

\* A close may fail; the handle is gone all the same.
Close(h) == open' = open \ {h} /\ spoilt' = (spoilt \/ h \notin open)

Opened(h) == open' = open \cup {h} /\ due' = due \cup {h}

\* A slip: the failure of a close is told, whatever has failed before.
CloseIsTold == "io"

\* Where it has been thought of, the failure of a close is told only if nothing
\* has failed before.
Told == IF (Careful \/ how.use = "state") /\ told # None THEN told ELSE "io"

\* ... and what else is open is closed all the same.
ReleasesRest(h) == Careful \/ (how.use = "state" /\ h = Last)

Release ==
    /\ pc = "release" /\ due # {} /\ (left => Last \in due)
    /\ LET h == CHOOSE x \in due : \A y \in due : x >= y
       IN /\ Close(h)
          /\ \/ due' = due \ {h} /\ UNCHANGED <<unclosed, failing>>
             \/ /\ unclosed' = TRUE
                /\ told' = IF how.use = "state" /\ h = Last THEN "io" ELSE Told
                /\ first' = IF first = None THEN "io" ELSE first
                /\ due' = IF ReleasesRest(h) THEN due \ {h} ELSE {}
    /\ UNCHANGED <<case, place, pc, at, tries, reading, scan, writing, outcome>>

\* A writer that has not got the name removes its file, unless a close has failed:
\* a download when it has closed everything, the cache before its directory is
\* closed, which is forgotten if the file cannot be removed.
Tidy ==
    /\ pc = "release" /\ left /\ Last \notin due /\ ~unclosed
    /\ \/ left' = FALSE /\ UNCHANGED <<pc, due, failing>>
       \/ /\ told' = "io" /\ first' = IF first = None THEN "io" ELSE first
          /\ pc' = "tidied" /\ due' = {} /\ UNCHANGED left
    /\ UNCHANGED <<case, place, at, tries, open, spoilt, unclosed, reading, scan, fill, put,
                   outcome>>

Conclude ==
    /\ (pc = "release" /\ due = {} /\ (left => unclosed)) \/ pc = "tidied"
    /\ pc' = "done"
    /\ outcome' = CASE told = None -> "given"
                    [] told = "missing" /\ case.optional -> "nothing"
                    [] OTHER -> told
    /\ UNCHANGED <<case, place, at, tries, handles, reading, scan, writing, failing>>

-----------------------------------------------------------------------------
(* Opening.                                                                *)

Kind(i) == IF i = 0 THEN "dir" ELSE IF i < Last THEN case.parent ELSE name

\* The first of the names from the one opened last on that cannot be passed.
Hindered(i) == i = Last /\ how.first = Last /\ case.parent \in {None, "other"}

\* What the call that opens the i-th name says; on Windows it opens links too.
Refuses(i) ==
    CASE Hindered(i) -> IF case.parent = None THEN "missing" ELSE "unsafe"
      [] ~Hindered(i) /\ Kind(i) = None /\ ~(how.creates /\ i < Last) -> "missing"
      [] ~Hindered(i) /\ Kind(i) = "link" /\ ~how.windows -> "unsafe"
      [] ~Hindered(i) /\ Kind(i) = "other" /\ ~how.windows /\ i < Last -> "unsafe"
      [] OTHER -> None

\* By name, before the file is opened (or, for an upload, to refuse links).
Note ==
    /\ pc = "note"
    /\ IF case.parent \in {None, "other"} \/ name = None THEN Fails("missing") /\ UNCHANGED noted
       ELSE IF name \notin File \/ (how.after /\ case.parent = "link")
       THEN Fails("unsafe") /\ UNCHANGED noted
       ELSE /\ Goes("open")
            /\ noted' = IF how.before THEN name ELSE None
    /\ UNCHANGED <<case, place, at, tries, handles, held, announced, got, again, scan,
                   writing, outcome>>

\* What comes after the i-th name has been opened: the one before is closed.
After(i) ==
    IF i > how.first /\ i <= how.keeps THEN Goes("shed") /\ UNCHANGED at
    ELSE IF i = Last THEN Goes("stat") /\ UNCHANGED at
    ELSE Goes("open") /\ at' = i + 1

Open ==
    /\ pc = "open"
    /\ LET code == Refuses(at)
       IN IF code # None THEN Fails(code) /\ UNCHANGED <<at, open, due, held>>
          ELSE /\ Opened(at)
               /\ held' = IF at = Last THEN name ELSE held
               /\ IF how.windows THEN Goes("inspect") /\ UNCHANGED at ELSE After(at)
    /\ tries' = 0
    /\ UNCHANGED <<case, place, spoilt, unclosed, noted, announced, got, again, scan,
                   writing, outcome>>

\* A signal interrupts the call; the third time is a failure.
Interrupt ==
    /\ pc \in {"open", "stat", "read"} /\ ~Writes /\ how.retried
    /\ IF tries = 2 THEN Fails("io") /\ UNCHANGED tries
       ELSE tries' = tries + 1 /\ UNCHANGED <<pc, failing>>
    /\ UNCHANGED <<case, place, at, handles, reading, scan, writing, outcome>>

\* Windows: the handle, and whether it may become a descriptor.
Inspect ==
    /\ pc = "inspect"
    /\ \/ Fails("io") /\ UNCHANGED at
       \/ IF (at < Last /\ Kind(at) # "dir") \/ (at = Last /\ held \notin File)
          THEN Fails("unsafe") /\ UNCHANGED at
          ELSE After(at)
    /\ UNCHANGED <<case, place, tries, handles, reading, scan, writing, outcome>>

\* A slip: what could not be closed is closed once more.
StillDueTwice == {at - 1, at}

\* After a failed close only the new handle is to close.
StillDue == {at}

\* The directory before is closed.  If that fails in the opener of Artifactory or
\* on the way to a checkpoint, the new handle is forgotten and the old one is
\* closed twice.
Shed ==
    /\ pc = "shed"
    /\ \/ /\ Close(at - 1) /\ due' = due \ {at - 1}
          /\ IF at = Last THEN Goes("stat") /\ UNCHANGED at ELSE Goes("open") /\ at' = at + 1
          /\ UNCHANGED unclosed
       \/ /\ Close(at - 1) /\ due' = IF Careful THEN StillDue ELSE {at - 1}
          /\ unclosed' = TRUE
          /\ Fails("io")
          /\ UNCHANGED at
    /\ UNCHANGED <<case, place, tries, reading, scan, writing, outcome>>

\* Any call on the way to the content fails, or the directory of a checkpoint is
\* not found to be the same afterwards.
CallFails ==
    /\ pc \in {"note", "open", "stat", "verify", "read", "schema"}
    /\ Fails("io")
    /\ UNCHANGED <<case, place, at, tries, handles, reading, scan, writing, outcome>>

-----------------------------------------------------------------------------
(* Reading.                                                                *)

Limit == IF how \in {ReadCache, LoadCurrent} THEN MaxBytes + 1 ELSE MaxBytes

\* What is open: a regular file, small enough, and the one that was seen.
Stat ==
    /\ pc = "stat"
    /\ IF held \notin File THEN Fails("unsafe") /\ UNCHANGED announced
       ELSE IF how.before /\ noted # held THEN Fails("changed") /\ UNCHANGED announced
       ELSE /\ announced' = size[held]
            /\ IF how.after THEN Goes("verify")
               ELSE IF size[held] > Limit THEN Fails("bytes") ELSE Goes("read")
    /\ tries' = 0
    /\ UNCHANGED <<case, place, at, handles, noted, held, got, again, scan, writing, outcome>>

\* By name, after the file was opened.
Verify ==
    /\ pc = "verify" /\ noted' = name
    /\ IF name # held THEN Fails("changed")
       ELSE IF announced > MaxBytes THEN Fails("bytes")
       ELSE Goes("read")
    /\ UNCHANGED <<case, place, at, tries, handles, held, announced, got, again, scan, writing,
                   outcome>>

\* A slip: as much is read as is allowed, and no more.
ReadToTheLimit == MaxBytes

\* One part more than is allowed, to see whether there is more.
Capacity == MaxBytes + 1

Part ==
    /\ pc = "read" /\ Len(got) < size[held] /\ Len(got) < Capacity
    /\ got' = Append(got, rev[held])
    /\ tries' = 0
    /\ IF Len(got') > MaxBytes THEN Fails("bytes") ELSE UNCHANGED <<pc, failing>>
    /\ UNCHANGED <<case, place, at, handles, noted, held, announced, again, scan, writing,
                   outcome>>

\* Nothing comes any more, or enough is there.
EndOfFile ==
    /\ pc = "read" /\ (Len(got) >= size[held] \/ Len(got) = Capacity)
    /\ \/ how.exact /\ Len(got) # announced /\ Fails("changed")
       \/ ~(how.exact /\ Len(got) # announced) /\ how.use = "text" /\ Goes("release")
       \/ how.use = "upload" /\ Goes("probe")
       \/ how.use = "state" /\ Goes("shut")
       \/ how.use = "document" /\ (Goes("compose") \/ Fails("invalid"))
    /\ UNCHANGED <<case, place, at, tries, handles, reading, scan, writing, outcome>>

\* A checkpoint's file is closed before its content is judged.
Shut ==
    /\ pc = "shut"
    /\ Close(Last) /\ due' = due \ {Last}
    /\ \/ Goes("compose") /\ UNCHANGED unclosed
       \/ Fails("invalid") /\ UNCHANGED unclosed
       \/ Fails("io") /\ unclosed' = TRUE
    /\ UNCHANGED <<case, place, at, tries, reading, scan, writing, outcome>>

NextOfDocument ==
    CASE how.use = "state" -> StateNext(case.document, scan)
      [] how.use # "state" /\ case.document.json -> JsonNext(case.document, scan)
      [] OTHER -> ComposeNext(case.document, scan)

\* The document, entry by entry.
Compose ==
    /\ pc = "compose"
    /\ IF scan.verdict # "open" THEN Fails(scan.verdict) /\ UNCHANGED scan
       ELSE IF scan.todo # <<>>
       THEN scan' = NextOfDocument /\ UNCHANGED <<pc, failing>>
       ELSE IF ~case.document.mapping THEN Fails("structure") /\ UNCHANGED scan
       ELSE IF how.use = "state" THEN Goes("schema") /\ UNCHANGED scan
       ELSE scan' = ValidateAll /\ Goes("validate")
    /\ UNCHANGED <<case, place, at, tries, handles, reading, writing, outcome>>

Validate ==
    /\ pc = "validate"
    /\ IF scan.verdict # "open" THEN Fails(scan.verdict) /\ UNCHANGED scan
       ELSE IF scan.todo # <<>>
       THEN scan' = ValidateNext(case.document, scan) /\ UNCHANGED <<pc, failing>>
       ELSE Goes("release") /\ UNCHANGED scan
    /\ UNCHANGED <<case, place, at, tries, handles, reading, writing, outcome>>

\* The fields of a checkpoint are those of a journey, or not.
ValidateState ==
    /\ pc = "schema"
    /\ Goes("release") \/ Fails("invalid")
    /\ UNCHANGED <<case, place, at, tries, handles, reading, scan, writing, outcome>>

-----------------------------------------------------------------------------
(* Publishing on Artifactory what was read: by its checksums alone if the  *)
(* service has the content, else by reading it once more.                  *)

Probe ==
    /\ pc = "probe"
    /\ \/ Goes("verdict") /\ again' = got
       \/ Goes("send") /\ UNCHANGED again
       \/ Fails("refused") /\ UNCHANGED again
    /\ UNCHANGED <<case, place, at, tries, handles, noted, held, announced, got, scan,
                   writing, outcome>>

\* No more than was hashed, and no less.
SendPart ==
    /\ pc = "send" /\ Len(again) < Len(got)
    /\ IF Len(again) < size[held]
       THEN again' = Append(again, rev[held]) /\ UNCHANGED <<pc, failing>>
       ELSE Fails("refused") /\ UNCHANGED again
    /\ UNCHANGED <<case, place, at, tries, handles, noted, held, announced, got, scan,
                   writing, outcome>>

Sent ==
    /\ pc = "send" /\ Len(again) = Len(got)
    /\ Goes("verdict") \/ Fails("refused")
    /\ UNCHANGED <<case, place, at, tries, handles, reading, scan, writing, outcome>>

\* The service names the checksum of what it has.
VerifyDeploy ==
    /\ pc = "verdict"
    /\ IF again = got THEN Goes("release") ELSE Fails("refused")
    /\ UNCHANGED <<case, place, at, tries, handles, reading, scan, writing, outcome>>

-----------------------------------------------------------------------------
(* Writing: a file of one's own that gets the name when it is whole.       *)

\* A download finds the name free; the cache is a regular file or not there.
Look ==
    /\ pc = "look"
    /\ \/ Fails("io") /\ UNCHANGED <<open, due>>
       \/ /\ how = DownloadTarget /\ UNCHANGED <<open, due>>
          /\ IF name = None THEN Goes("create") ELSE Fails("exists")
       \/ /\ how = PersistCache /\ Opened(1)
          /\ IF name \in File \cup {None} THEN Goes("create") ELSE Fails("unsafe")
    /\ UNCHANGED <<case, place, at, tries, spoilt, unclosed, reading, scan, writing, outcome>>

Create ==
    /\ pc = "create"
    /\ \/ Fails("io") /\ UNCHANGED <<open, due, fill, left>>
       \/ Goes("fill") /\ Opened(Last) /\ fill' = "part" /\ left' = TRUE
    /\ UNCHANGED <<case, place, at, tries, spoilt, unclosed, reading, scan, put, outcome>>

Fill ==
    /\ pc = "fill"
    /\ \/ Goes("seal") /\ fill' = "whole"
       \/ Fails("io") /\ UNCHANGED fill
       \/ how = DownloadTarget /\ (Fails("refused") \/ Fails("bytes")) /\ UNCHANGED fill
    /\ UNCHANGED <<case, place, at, tries, handles, reading, scan, left, put, outcome>>

\* Flushed and closed.  A close that fails is tried once more.
Seal ==
    /\ pc = "seal"
    /\ \/ Fails("io") /\ UNCHANGED handles
       \/ /\ Close(Last) /\ due' = due \ {Last} /\ UNCHANGED unclosed
          /\ Goes("publish")
       \/ Close(Last) /\ unclosed' = TRUE /\ Fails("io") /\ UNCHANGED due
    /\ UNCHANGED <<case, place, at, tries, reading, scan, writing, outcome>>

\* A slip: the download is moved to the name.
TakesAlways == TRUE

\* A link is made only where there is nothing; the cache is replaced.
Takes == how = PersistCache \/ name = None

Publish ==
    /\ pc = "publish"
    /\ \/ Fails("io") /\ UNCHANGED <<name, left, put>>
       \/ ~Takes /\ Fails("exists") /\ UNCHANGED <<name, left, put>>
       \/ /\ Takes /\ name' = New /\ put' = name
          /\ left' = (how = DownloadTarget)
          /\ Goes("settle")
    /\ UNCHANGED <<case, size, rev, changes, gone, at, tries, handles, reading, scan, fill,
                   outcome>>

\* The directory of the cache is flushed.
Settle ==
    /\ pc = "settle"
    /\ Goes("release") \/ (how = PersistCache /\ Fails("durability"))
    /\ UNCHANGED <<case, place, at, tries, handles, reading, scan, writing, outcome>>

Kill ==
    /\ Writes /\ pc \notin {"done", "dead"}
    /\ pc' = "dead" /\ outcome' = "killed"
    /\ open' = {} /\ due' = {}
    /\ UNCHANGED <<case, place, at, tries, spoilt, unclosed, reading, scan, writing, failing>>

-----------------------------------------------------------------------------
(* Other programs.                                                         *)

Changes ==
    /\ changes < case.changes /\ pc \notin {"done", "dead"}
    /\ changes' = changes + 1
    /\ UNCHANGED <<case, pc, at, tries, handles, reading, scan, writing, failing, outcome>>

\* The name is given to another whole file, or taken away.
Replace ==
    /\ Changes
    /\ name \in File \cup {None}
    /\ name' \in (File \cup {None}) \ {name, New}
    /\ gone' = (gone \/ name' = None)
    /\ UNCHANGED <<size, rev>>

\* A file is edited where it is.
Edit ==
    /\ Changes
    /\ \E f \in File \ {New}, n \in Size :
          size' = [size EXCEPT ![f] = n] /\ rev' = [rev EXCEPT ![f] = @ + 1]
    /\ UNCHANGED <<name, gone>>

-----------------------------------------------------------------------------
Next ==
    \/ Note \/ Open \/ Inspect \/ Shed \/ CallFails \/ Interrupt
    \/ Stat \/ Verify \/ Part \/ EndOfFile \/ Shut \/ Compose \/ Validate
    \/ ValidateState
    \/ Probe \/ SendPart \/ Sent \/ VerifyDeploy
    \/ Look \/ Create \/ Fill \/ Seal \/ Publish \/ Settle
    \/ Release \/ Tidy \/ Conclude
    \/ Kill \/ Replace \/ Edit

Spec == Init /\ [][Next]_vars

-----------------------------------------------------------------------------
(* Properties.                                                             *)

(***************************************************************************)
(* Whatever fails, and wherever: every handle is closed, and none twice.   *)
(* Where the failure of a close has not been thought of (uploads, input,   *)
(* the checkpoint, the token cache), it must not be that.  A token cache   *)
(* whose temporary cannot be removed leaves its directory open, and only   *)
(* that.                                                                   *)
(***************************************************************************)
HandlesAreBalanced ==
    (unclosed => Careful) =>
        /\ ~spoilt
        /\ pc = "done" => open = IF how = PersistCache /\ left THEN {1} ELSE {}

(***************************************************************************)
(* A document's reader tells what has failed first, not what failed on the *)
(* way out, and answers "nothing" only if the file was not there.          *)
(***************************************************************************)
FirstFailureIsTold ==
    pc = "done" =>
        /\ Careful =>
              /\ outcome = "given" <=> first = None
              /\ outcome \notin {"given", "nothing"} => outcome = first
        /\ outcome = "nothing" => gone

(***************************************************************************)
(* What is given comes from one regular file within bounds, and is the     *)
(* whole of it if that was not edited meanwhile; it is the file that was   *)
(* seen by name; what is published is what was hashed.                     *)
(***************************************************************************)
GivenIsRight ==
    outcome = "given" /\ ~Writes =>
        /\ held \in File /\ Len(got) <= MaxBytes
        /\ (got # <<>> /\ Range(got) = {rev[held]}) => Len(got) = size[held]
        /\ how.before \/ how.after => held = noted
        /\ how.first = 0 => case.parent \in {"dir"} \cup (IF how.creates THEN {None} ELSE {})
        /\ how.exact => Len(got) = announced
        /\ how.use = "upload" => again = got

(***************************************************************************)
(* The documents that are accepted are those that have no cycle, no flaw,  *)
(* and as many entries, aliases and levels as allowed; a level too deep    *)
(* may hide behind an alias.  The second look finds only cycles.  Of       *)
(* checkpoints, those with a flaw or beyond a limit are refused, and only  *)
(* those, as far as their fields are not at fault.                         *)
(***************************************************************************)
StatesAreJudged ==
    /\ outcome = "given" => AcceptableState(case.document)
    /\ outcome \in {"keys", "structure"} => ~AcceptableState(case.document)

DocumentsAreJudged ==
    /\ pc = "done" /\ how.use = "state" => StatesAreJudged
    /\ pc = "done" /\ Careful =>
        /\ outcome = "given" => Acceptable(case.document)
        /\ outcome \in {"parser", "keys", "structure", "cycle"} =>
              ~Acceptable(case.document) \/ DeepSomewhere(case.document)
        /\ outcome = "cycle" => Cyclic(case.document)
        /\ outcome = "structure" => ~case.document.mapping

(***************************************************************************)
(* The name never denotes a file that is not whole, a download replaces    *)
(* nothing, and an answer tells whether the name was given: a failure, if  *)
(* it is not that of the last calls, changes nothing.                      *)
(***************************************************************************)
PublishedIsWhole ==
    /\ name = New => fill = "whole"
    /\ how = DownloadTarget => put \in {"no", None}
    /\ Writes /\ outcome = "given" => put # "no"
    /\ outcome \in {"exists", "refused", "bytes", "unsafe"} => put = "no"
=============================================================================
