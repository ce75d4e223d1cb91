--------------------------- MODULE WorkflowStore ---------------------------
(***************************************************************************)
(* How commands of workflow_ctl.py share one run directory.  A command is  *)
(* a process: it loads state.json, computes in memory, writes              *)
(* state.json.tmp, renames it over state.json and answers.  There is no    *)
(* lock, the temporary name is the same for every process, and a process   *)
(* may be killed between any two steps.                                    *)
(*                                                                         *)
(* The state is abstracted to the set of commands whose effect it holds.   *)
(* Files are inodes behind names, so that a process that still writes to   *)
(* an inode another process has renamed is seen for what it is.            *)
(***************************************************************************)
EXTENDS Naturals

CONSTANTS
    Session,    \* processes that may run at the same time
    Command,    \* the invocations, each issued at most once
    Starts,     \* those that are `start`
    Nexts,      \* those that are `next`, all with one pending node to hand out
    Inode,      \* bound: files ever created
    NoInode,    \* a name that refers to no file
    NotJson     \* marks bytes that are not the JSON of one save

ASSUME StoreAssumption ==
    /\ Starts \cup Nexts \subseteq Command /\ Starts \cap Nexts = {} /\ Command # {}
    /\ NoInode \notin Inode
    /\ NotJson \notin Command

Torn == {NotJson}

VARIABLES
    made,       \* the run directory exists
    live,       \* the inode named state.json
    past,       \* the inodes of that name a power failure may leave readable
    tmp,        \* the inode named state.json.tmp
    content,    \* what each inode holds
    used,       \* inodes already allocated
    quarantined,\* a state.json.corrupt-* exists
    issued,     \* commands issued so far
    pc,         \* where each process is
    cmd,        \* the command it executes
    memory,     \* the state it loaded, with its command's effect
    handle,     \* the inode it has open for writing
    answered,   \* commands that reported success since the machine last failed
    granted,    \* those that were next and answered "execute"
    damaged,    \* history: a failure of the machine has left no readable state
    overlapped  \* history: commands that ran while another one was under way

disk == <<made, live, past, tmp, content, used, quarantined>>
storeVars == <<disk, issued, pc, cmd, memory, handle, answered, granted,
          damaged, overlapped>>

StoreTypeOK ==
    /\ made \in BOOLEAN /\ quarantined \in BOOLEAN
    /\ live \in Inode \cup {NoInode} /\ tmp \in Inode \cup {NoInode}
    /\ content \in [Inode -> (SUBSET Command) \cup {Torn}]
    /\ past \subseteq used /\ used \subseteq Inode
    /\ issued \subseteq Command
    /\ pc \in [Session -> {"idle", "load", "quarantine", "open", "write",
                           "replace", "answer"}]
    /\ cmd \in [Session -> Command]
    /\ memory \in [Session -> SUBSET Command]
    /\ handle \in [Session -> Inode \cup {NoInode}]
    /\ damaged \in BOOLEAN /\ overlapped \subseteq Command
    /\ answered \subseteq issued /\ granted \subseteq answered \cap Nexts

StoreInit ==
    /\ made = FALSE /\ quarantined = FALSE
    /\ live = NoInode /\ tmp = NoInode
    /\ content = [i \in Inode |-> Torn]
    /\ past = {} /\ used = {} /\ issued = {}
    /\ pc = [s \in Session |-> "idle"]
    /\ cmd = [s \in Session |-> CHOOSE c \in Command : TRUE]
    /\ memory = [s \in Session |-> {}]
    /\ handle = [s \in Session |-> NoInode]
    /\ answered = {} /\ granted = {} /\ damaged = FALSE /\ overlapped = {}

Goto(s, label) == pc' = [pc EXCEPT ![s] = label]

\* The process fails or is killed; what it has written stays as it is.
Exit(s) ==
    /\ pc' = [pc EXCEPT ![s] = "idle"]
    /\ memory' = [memory EXCEPT ![s] = {}]
    /\ handle' = [handle EXCEPT ![s] = NoInode]

-----------------------------------------------------------------------------
Busy == {s \in Session : pc[s] # "idle"}

\* Nothing keeps a command from beginning while others are under way.
Begins(c) ==
    overlapped' = IF Busy = {} THEN overlapped
                  ELSE overlapped \cup {c} \cup {cmd[s] : s \in Busy}

\* start makes a directory of its own; its state is new, not loaded.
StartRun(s, c) ==
    /\ pc[s] = "idle" /\ c \in Starts \ issued
    /\ ~made
    /\ made' = TRUE
    /\ issued' = issued \cup {c}
    /\ cmd' = [cmd EXCEPT ![s] = c]
    /\ memory' = [memory EXCEPT ![s] = {c}]
    /\ Goto(s, "open")
    /\ Begins(c)
    /\ UNCHANGED <<live, past, tmp, content, used, quarantined, handle, answered,
                   granted, damaged>>

Call(s, c) ==
    /\ pc[s] = "idle" /\ c \in Command \ (Starts \cup issued)
    /\ made
    /\ issued' = issued \cup {c}
    /\ cmd' = [cmd EXCEPT ![s] = c]
    /\ Goto(s, "load")
    /\ Begins(c)
    /\ UNCHANGED <<disk, memory, handle, answered, granted, damaged>>

\* load_state: no file is an error, an unreadable one is quarantined.
Load(s) ==
    /\ pc[s] = "load"
    /\ IF live = NoInode THEN Exit(s)
       ELSE /\ IF content[live] = Torn
               THEN Goto(s, "quarantine") /\ UNCHANGED memory
               ELSE /\ memory' = [memory EXCEPT ![s] = content[live] \cup {cmd[s]}]
                    /\ Goto(s, "open")
            /\ UNCHANGED handle
    /\ UNCHANGED <<disk, issued, cmd, answered, granted, damaged, overlapped>>

\* os.replace takes whatever state.json is by now.
Quarantine(s) ==
    /\ pc[s] = "quarantine"
    /\ live' = NoInode
    /\ quarantined' = (quarantined \/ live # NoInode)
    /\ Exit(s)
    /\ UNCHANGED <<made, past, tmp, content, used, issued, cmd, answered, granted,
                   damaged, overlapped>>

\* The slip that the temporary file avoids: writing state.json in place.
OpenInPlace(s) ==
    /\ pc[s] = "open"
    /\ \E i \in (IF live = NoInode THEN Inode \ used ELSE {live}) :
          /\ tmp' = i /\ live' = i
          /\ used' = used \cup {i}
          /\ content' = [content EXCEPT ![i] = Torn]
          /\ handle' = [handle EXCEPT ![s] = i]
    /\ Goto(s, "write")
    /\ UNCHANGED <<made, past, quarantined, issued, cmd, memory, answered, granted,
                   damaged, overlapped>>

\* The open of write_text: it truncates the file of that name, or creates it.
Open(s) ==
    /\ pc[s] = "open"
    /\ \E i \in (IF tmp = NoInode THEN Inode \ used ELSE {tmp}) :
          /\ tmp' = i
          /\ used' = used \cup {i}
          /\ content' = [content EXCEPT ![i] = Torn]
          /\ handle' = [handle EXCEPT ![s] = i]
    /\ Goto(s, "write")
    /\ UNCHANGED <<made, live, past, quarantined, issued, cmd, memory, answered,
                   granted, damaged, overlapped>>

\* Over another process's bytes the result need not be one JSON document.
Write(s) ==
    /\ pc[s] = "write"
    /\ \E bytes \in (IF content[handle[s]] = Torn THEN {memory[s]}
                     ELSE {memory[s], Torn}) :
          content' = [content EXCEPT ![handle[s]] = bytes]
    /\ Goto(s, "replace")
    /\ UNCHANGED <<made, live, past, tmp, used, quarantined, issued, cmd, memory,
                   handle, answered, granted, damaged, overlapped>>

\* The rename moves the name, whoever wrote the file; a missing name is an error.
Replace(s) ==
    /\ pc[s] = "replace"
    /\ IF tmp = NoInode THEN Exit(s) /\ UNCHANGED <<live, past, tmp>>
       ELSE /\ live' = tmp /\ past' = past \cup {tmp}
            /\ tmp' = NoInode
            /\ Goto(s, "answer")
            /\ UNCHANGED <<memory, handle>>
    /\ UNCHANGED <<made, content, used, quarantined, issued, cmd, answered, granted,
                   damaged, overlapped>>

\* Slip: running is not looked at.
GrantsAlways(s) == cmd[s] \in Nexts

\* next hands the node out unless the state it loaded says that it runs.
Grants(s) == cmd[s] \in Nexts /\ memory[s] \cap Nexts = {cmd[s]}

Answer(s) ==
    /\ pc[s] = "answer"
    /\ answered' = answered \cup {cmd[s]}
    /\ granted' = IF Grants(s) THEN granted \cup {cmd[s]} ELSE granted
    /\ Exit(s)
    /\ UNCHANGED <<disk, issued, cmd, damaged, overlapped>>

Kill(s) ==
    /\ pc[s] # "idle"
    /\ Exit(s)
    /\ UNCHANGED <<disk, issued, cmd, answered, granted, damaged, overlapped>>

\* Nothing is flushed to the disk: every process dies, and state.json is one of
\* the files it has been, is left without its data, or is gone.
PowerFails ==
    /\ live # NoInode
    /\ \/ /\ \E i \in past : live' = i /\ past' = {i}
          /\ UNCHANGED <<content, damaged>>
       \/ /\ live' \in {live, NoInode} /\ past' = {}
          /\ content' = [content EXCEPT ![live] = Torn]
          /\ damaged' = TRUE
    /\ pc' = [s \in Session |-> "idle"]
    /\ memory' = [s \in Session |-> {}]
    /\ handle' = [s \in Session |-> NoInode]
    /\ answered' = {} /\ granted' = {}
    /\ UNCHANGED <<made, tmp, used, quarantined, issued, cmd, overlapped>>

StoreNext ==
    \/ \E s \in Session :
          \/ \E c \in Command : StartRun(s, c) \/ Call(s, c)
          \/ Load(s) \/ Quarantine(s) \/ Open(s) \/ Write(s) \/ Replace(s)
          \/ Answer(s) \/ Kill(s)
    \/ PowerFails

StoreSpec == StoreInit /\ [][StoreNext]_storeVars

-----------------------------------------------------------------------------
Readable == live # NoInode /\ content[live] # Torn

(***************************************************************************)
(* Until two commands overlap, and killed anywhere, state.json is the cell *)
(* of WorkflowCell.  A killed command has had its whole effect or none,    *)
(* the temporary file it leaves behind harms no later command, and an      *)
(* answered command's effect is in every later state.  When the power      *)
(* fails the state is one it has been, whole, or unreadable; it is then    *)
(* set aside, never taken for new.  There is no lock: of commands that     *)
(* overlap nothing is promised, and the cell counts as lost.               *)
(***************************************************************************)
Serial == overlapped = {}

Cell == INSTANCE WorkflowCell WITH
            applied <- IF Serial /\ Readable THEN content[live] ELSE {},
            past <- IF Serial THEN {content[i] : i \in past} ELSE {},
            answered <- IF Serial THEN answered ELSE {},
            lost <- IF Serial THEN damaged ELSE TRUE

ImplementsCell == Cell!Spec

(***************************************************************************)
(* The concurrency guard of next, and how far it reaches without a lock.   *)
(* Once a call of next that overlapped no other command has been told to   *)
(* execute the node, no other call is, until the machine fails: neither    *)
(* one of several that overlap, nor one after a command that was killed or *)
(* that wrote over another.  Two calls that overlap each other may both be *)
(* told to; so may a call after one whose record an overlapping command    *)
(* has written over.                                                       *)
(***************************************************************************)
GrantedOnce == [][granted \subseteq overlapped \/ granted' \subseteq granted]_storeVars
=============================================================================
