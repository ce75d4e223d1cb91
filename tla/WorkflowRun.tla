---------------------------- MODULE WorkflowRun ----------------------------
(***************************************************************************)
(* One workflow run as workflow_ctl.py keeps it in state.json, driven by   *)
(* agent sessions and by the humans who approve, resume, skip and cancel.  *)
(*                                                                         *)
(* Every command of the script that changes state.json is one action: it   *)
(* loads the state, decides, saves and answers.  That two commands do not  *)
(* overlap is an assumption of this module; WorkflowStore drops it.  A     *)
(* refused command (fail before save_state) changes nothing and is not an  *)
(* action, except where it ends an agent's work.                           *)
(***************************************************************************)
EXTENDS WorkflowDoc

CONSTANTS
    Agent,          \* sessions that follow the loop of SKILL.md
    NoFile,         \* the workflow file has been deleted
    Idle,           \* a session that is not in the loop
    Asking,         \* a session whose next step in the loop is to call next
    MaxAttempts     \* bound: resume resets a node only below it

ASSUME RunAssumption ==
    /\ NoFile \notin Doc
    /\ Idle \notin Node /\ Asking \notin Node /\ Idle # Asking
    /\ MaxAttempts \in Nat

VARIABLES
    yaml,           \* content of the workflow file, or NoFile
    status,         \* state["status"]; "absent" before start, "deleted" after clean
    adopted,        \* the content whose hash and node order the state holds
    inputs,         \* state["inputs"]
    nodeStatus,     \* state["nodes"][n]["status"]; "absent" when n is no key
    kind,           \* state["nodes"][n]["kind"]
    sideEffects,    \* state["nodes"][n]["side_effects"]
    attempts,       \* state["nodes"][n]["attempts"]
    startedAt,      \* started_at: None, or older than the stale limit or not
    summary,        \* state["nodes"][n]["summary"]
    kanban,         \* whether report.kanban_task_id is set
    reply,          \* the action of the last answer of next, "ok" for other commands
    at,             \* the node each session is executing, Asking or Idle
    forced,         \* history: resets of n's record although it has side effects
    tended          \* history: no human, edit or death since a node was handed out

nodeVars == <<nodeStatus, kind, sideEffects, attempts, startedAt, summary>>
headVars == <<yaml, adopted, inputs, kanban>>
vars == <<headVars, status, nodeVars, reply, at, forced, tended>>

Terminal == {"done", "failed", "cancelled", "rejected"}
RunStatus == {"running", "waiting_approval"} \cup Terminal
NodeState == {"pending", "running", "waiting_approval", "ok", "failed",
              "rejected", "skipped"}
Reply == {"none", "ok", "execute", "wait_approval", "in_progress",
          "interrupted", "stalled"} \cup Terminal

TypeOK ==
    /\ yaml \in Doc \cup {NoFile}
    /\ status \in RunStatus \cup {"absent", "deleted"}
    /\ adopted \in Doc \cup {NoFile}
    /\ inputs \in [Input -> Value \cup {None}]
    /\ nodeStatus \in [Node -> NodeState \cup {"absent"}]
    /\ kind \in [Node -> Kind]
    /\ sideEffects \in [Node -> BOOLEAN]
    /\ attempts \in [Node -> Nat]
    /\ startedAt \in [Node -> {"none", "fresh", "stale"}]
    /\ summary \in [Node -> Value \cup {None}]
    /\ kanban \in BOOLEAN
    /\ reply \in Reply
    /\ at \in [Agent -> Node \cup {Idle, Asking}]
    /\ forced \in [Node -> Nat]
    /\ tended \in BOOLEAN

\* A run directory with a state.json in it.
Exists == status \in RunStatus

Init ==
    /\ yaml \in Doc
    /\ status = "absent"
    /\ adopted = NoFile
    /\ inputs = [i \in Input |-> None]
    /\ nodeStatus = [n \in Node |-> "absent"]
    /\ kind = [n \in Node |-> "prompt"]
    /\ sideEffects = [n \in Node |-> FALSE]
    /\ attempts = [n \in Node |-> 0]
    /\ startedAt = [n \in Node |-> "none"]
    /\ summary = [n \in Node |-> None]
    /\ kanban = FALSE
    /\ reply = "none"
    /\ at = [a \in Agent |-> Idle]
    /\ forced = [n \in Node |-> 0]
    /\ tended = FALSE

\* What a session knows of the run is out of date after this.
Interferes == tended' = FALSE

-----------------------------------------------------------------------------
(* start, and what a node record of the file looks like when it is new.    *)

\* The ids that gain a record when the content d is taken over.
Added(d) == {n \in Ids(d) : nodeStatus[n] = "absent"}

Start ==
    /\ status = "absent"
    /\ yaml # NoFile /\ Valid(yaml)
    /\ inputs' \in [Input -> Value \cup {None}]
    /\ status' = "running"
    /\ adopted' = yaml
    /\ nodeStatus' = [n \in Node |-> IF n \in Ids(yaml) THEN "pending" ELSE "absent"]
    /\ kind' = [n \in Node |-> IF n \in Ids(yaml) THEN DocDef[yaml].kind[n] ELSE kind[n]]
    /\ sideEffects' = [n \in Node |-> n \in Ids(yaml) /\ DocDef[yaml].sideEffects[n]]
    /\ reply' = "ok"
    /\ Interferes
    /\ UNCHANGED <<yaml, attempts, startedAt, summary, kanban, at, forced>>

-----------------------------------------------------------------------------
(* next.  A terminal run answers its status without touching the file;     *)
(* otherwise the file must be the adopted one and the scan decides.        *)

Resolve ==
    [r \in Ref |->
        IF r \in Input THEN inputs[r]
        ELSE IF nodeStatus[r] = "ok" THEN summary[r] ELSE None]

Scans == /\ Exists /\ status \notin Terminal
         /\ yaml = adopted

StopsAt(h) == Scans /\ FirstStop(adopted, nodeStatus, Resolve, h)

SkippedTo(h) == Skipping(nodeStatus, PassSkips(adopted, nodeStatus, Resolve, h))

\* The loop of SKILL.md: a session starts it with next and calls next again
\* after a record; every answer but "execute", and an error, ends it.
MayAsk(a) == at[a] \in {Idle, Asking}

Stop(a) == at' = [at EXCEPT ![a] = Idle]

NextTerminal(a) ==
    /\ MayAsk(a) /\ Stop(a)
    /\ status \in Terminal
    /\ reply' = status
    /\ UNCHANGED <<headVars, status, nodeVars, forced, tended>>

\* The run is gone, or the file is not the adopted one: the session reports it.
NextRefused(a) ==
    /\ at[a] = Asking /\ Stop(a)
    /\ Exists => status \notin Terminal /\ yaml # adopted
    /\ UNCHANGED <<headVars, status, nodeVars, reply, forced, tended>>

IsStale(n) == startedAt[n] = "stale"

\* Some session already executes h, or h waits for a human.
NextActive(a, h) ==
    /\ MayAsk(a) /\ Stop(a)
    /\ StopsAt(h)
    /\ nodeStatus[h] \in Active
    /\ nodeStatus' = SkippedTo(h)
    /\ reply' = CASE nodeStatus[h] = "waiting_approval" -> "wait_approval"
                  [] IsStale(h) -> "interrupted"
                  [] OTHER -> "in_progress"
    /\ UNCHANGED <<headVars, status, kind, sideEffects, attempts, startedAt,
                   summary, forced, tended>>

NextPark(a, h) ==
    /\ MayAsk(a) /\ Stop(a)
    /\ StopsAt(h)
    /\ nodeStatus[h] = "pending" /\ kind[h] = "approval"
    /\ nodeStatus' = [SkippedTo(h) EXCEPT ![h] = "waiting_approval"]
    /\ status' = "waiting_approval"
    /\ reply' = "wait_approval"
    /\ UNCHANGED <<headVars, kind, sideEffects, attempts, startedAt, summary,
                   forced, tended>>

NextDispatch(a, h) ==
    /\ MayAsk(a)
    /\ StopsAt(h)
    /\ nodeStatus[h] = "pending" /\ kind[h] # "approval"
    /\ nodeStatus' = [SkippedTo(h) EXCEPT ![h] = "running"]
    /\ attempts' = [attempts EXCEPT ![h] = @ + 1]
    /\ startedAt' = [startedAt EXCEPT ![h] = "fresh"]
    /\ at' = [at EXCEPT ![a] = h]
    /\ reply' = "execute"
    /\ tended' = TRUE
    /\ UNCHANGED <<headVars, status, kind, sideEffects, summary, forced>>

\* What the script answers when the scan has returned nowhere.
OutcomeWithoutSkips(after) ==
    IF \A n \in Node : after[n] \in {"ok", "absent"} THEN "done" ELSE "stalled"

Outcome(after) ==
    IF \A n \in Node : after[n] \in {"ok", "skipped", "absent"} THEN "done"
    ELSE IF \E n \in Ids(adopted) : after[n] = "failed" THEN "failed"
    ELSE "stalled"

\* Nothing to run and nothing in progress: the scan has skipped all it can.
NextExhausted(a) ==
    LET after == Skipping(nodeStatus, AllSkips(adopted, nodeStatus, Resolve))
        outcome == Outcome(after)
    IN  /\ MayAsk(a) /\ Stop(a)
        /\ Scans
        /\ Stops(adopted, nodeStatus, Resolve) = {}
        /\ nodeStatus' = after
        /\ reply' = outcome
        /\ status' = IF outcome = "stalled" THEN status ELSE outcome
        /\ UNCHANGED <<headVars, kind, sideEffects, attempts, startedAt,
                       summary, forced, tended>>

-----------------------------------------------------------------------------
(* record.  Only the node must be running; the run's status is not asked.  *)

Record(a) ==
    /\ Exists
    /\ at[a] \in Node /\ nodeStatus[at[a]] = "running"
    /\ reply' = "ok"
    /\ UNCHANGED <<headVars, kind, sideEffects, attempts, startedAt, forced, tended>>

\* The loop goes on: the session will call next again.
GoesOn(a) == at' = [at EXCEPT ![a] = Asking]

RecordOk(a) ==
    /\ Record(a) /\ GoesOn(a)
    /\ nodeStatus' = [nodeStatus EXCEPT ![at[a]] = "ok"]
    /\ \E s \in Value \cup {None} : summary' = [summary EXCEPT ![at[a]] = s]
    /\ UNCHANGED status

RecordFailed(a) ==
    /\ Record(a) /\ Stop(a)
    /\ nodeStatus' = [nodeStatus EXCEPT ![at[a]] = "failed"]
    /\ status' = "failed"
    /\ UNCHANGED summary

\* The run is gone or the node is no longer running: the agent reports and stops.
RecordRefused(a) ==
    /\ at[a] \in Node /\ Stop(a)
    /\ Exists => nodeStatus[at[a]] # "running"
    /\ UNCHANGED <<headVars, status, nodeVars, reply, forced, tended>>

SetKanban ==
    /\ Exists
    /\ kanban' = TRUE
    /\ reply' = "ok"
    /\ UNCHANGED <<yaml, adopted, inputs, status, nodeVars, at, forced, tended>>

-----------------------------------------------------------------------------
(* The human's commands.                                                   *)

First(d, X, n) == n \in X /\ \A m \in X : Rank(d, n) <= Rank(d, m)

Waiting == {n \in Ids(adopted) : nodeStatus[n] = "waiting_approval"}

Decide(n, nodeOutcome, runOutcome) ==
    /\ Exists
    /\ First(adopted, Waiting, n)
    /\ nodeStatus' = [nodeStatus EXCEPT ![n] = nodeOutcome]
    /\ status' = runOutcome
    /\ reply' = "ok"
    /\ Interferes
    /\ UNCHANGED <<headVars, kind, sideEffects, attempts, startedAt, summary,
                   at, forced>>

Approve(n) == Decide(n, "ok", "running")

Reject(n) == Decide(n, "rejected", "rejected")

\* Only skipping what blocked the run revives it; reviving it whatever was
\* skipped is the slip the source warns of.
AnyBlocks(n) == TRUE

Blocks(n) ==
    \/ nodeStatus[n] \in {"failed", "waiting_approval"}
    \/ nodeStatus[n] = "running" /\ IsStale(n)

CanSkip(n) == nodeStatus[n] \notin {"absent", "ok", "skipped"}

Skip(n) ==
    /\ Exists
    /\ CanSkip(n)
    /\ nodeStatus' = [nodeStatus EXCEPT ![n] = "skipped"]
    /\ status' = IF Blocks(n) /\ status \in {"failed", "waiting_approval"}
                 THEN "running" ELSE status
    /\ reply' = "ok"
    /\ Interferes
    /\ UNCHANGED <<headVars, kind, sideEffects, attempts, startedAt, summary,
                   at, forced>>

CancelEnded ==
    /\ Exists
    /\ status' = "cancelled"
    /\ reply' = "ok"
    /\ Interferes
    /\ UNCHANGED <<headVars, nodeVars, at, forced>>

Cancel ==
    /\ Exists /\ status \notin Terminal
    /\ status' = "cancelled"
    /\ reply' = "ok"
    /\ Interferes
    /\ UNCHANGED <<headVars, nodeVars, at, forced>>

\* clean --run; every other form of clean removes under the same condition.
Clean(force) ==
    /\ Exists
    /\ status \in Terminal \/ force
    /\ status' = "deleted"
    /\ reply' = "ok"
    /\ Interferes
    /\ UNCHANGED <<headVars, nodeVars, at, forced>>

-----------------------------------------------------------------------------
(* resume.  With --accept-changes the file on disk replaces the adopted    *)
(* one: pending nodes it no longer has are dropped, nodes it adds get a    *)
(* record, and the records of all other nodes stay as they are.            *)

CanAdopt ==
    /\ yaml # NoFile /\ Valid(yaml)
    /\ \A n \in Node : nodeStatus[n] \notin {"absent", "pending"} => n \in Ids(yaml)

Dropped == {n \in Node : nodeStatus[n] = "pending" /\ n \notin Ids(yaml)}

AdoptedStatus ==
    [n \in Node |-> IF n \in Dropped THEN "absent"
                    ELSE IF n \in Added(yaml) THEN "pending" ELSE nodeStatus[n]]

AdoptNodes ==
    /\ kind' = [n \in Node |->
            IF n \in Added(yaml) THEN DocDef[yaml].kind[n] ELSE kind[n]]
    /\ sideEffects' = [n \in Node |->
            IF n \in Added(yaml) THEN DocDef[yaml].sideEffects[n]
            ELSE n \notin Dropped /\ sideEffects[n]]
    /\ attempts' = [n \in Node |-> IF n \in Dropped THEN 0 ELSE attempts[n]]

\* --accept-changes, or the check that the file is still the adopted one.
Adopts(accept) ==
    IF accept THEN CanAdopt /\ AdoptNodes
    ELSE yaml = adopted /\ UNCHANGED <<kind, sideEffects, attempts>>

ResumedStatus(accept) == IF accept THEN AdoptedStatus ELSE nodeStatus

\* The history of a record ends with the record.
ResumedForced(accept) ==
    [n \in Node |-> IF accept /\ n \in Dropped THEN 0 ELSE forced[n]]

Interrupted == {n \in Node : nodeStatus[n] \in {"failed", "running"}}

\* Only a run that is known to have died midway is asked about.
PermittedAfterFailure(t, force) ==
    sideEffects[t] /\ nodeStatus[t] = "running" => force

Permitted(t, force) == sideEffects[t] => force

\* The first failed or running node t is reset; its record of attempts stays.
ResumeNode(accept, force, t) ==
    /\ status \in {"running", "failed"}
    /\ Adopts(accept)
    /\ First(yaml, Interrupted, t)
    /\ Permitted(t, force)
    /\ attempts[t] < MaxAttempts
    /\ status' = "running"
    /\ adopted' = yaml
    /\ nodeStatus' = [ResumedStatus(accept) EXCEPT ![t] = "pending"]
    /\ startedAt' = [startedAt EXCEPT ![t] = "none"]
    /\ summary' = [summary EXCEPT ![t] = None]
    /\ forced' = [ResumedForced(accept) EXCEPT
                     ![t] = IF force /\ sideEffects[t] THEN @ + 1 ELSE @]
    /\ reply' = "ok"
    /\ Interferes
    /\ UNCHANGED <<yaml, inputs, kanban, at>>

ResumeNothing(accept) ==
    /\ status \in {"running", "failed"}
    /\ Adopts(accept)
    /\ Interrupted = {}
    /\ status' = "running"
    /\ adopted' = yaml
    /\ nodeStatus' = ResumedStatus(accept)
    /\ forced' = ResumedForced(accept)
    /\ reply' = "ok"
    /\ Interferes
    /\ UNCHANGED <<yaml, inputs, startedAt, summary, kanban, at>>

-----------------------------------------------------------------------------
(* The environment: the file is edited, agents die, time passes.           *)

EditYaml ==
    /\ yaml' \in (Doc \cup {NoFile}) \ {yaml}
    /\ Interferes
    /\ UNCHANGED <<status, adopted, inputs, kanban, nodeVars, reply, at, forced>>

AgentCrash(a) ==
    /\ at[a] # Idle /\ Stop(a)
    /\ Interferes
    /\ UNCHANGED <<headVars, status, nodeVars, reply, forced>>

\* A running node outlives the stale limit of two hours.
TimePasses(n) ==
    /\ nodeStatus[n] = "running" /\ startedAt[n] = "fresh"
    /\ startedAt' = [startedAt EXCEPT ![n] = "stale"]
    /\ UNCHANGED <<headVars, status, nodeStatus, kind, sideEffects, attempts,
                   summary, reply, at, forced, tended>>

-----------------------------------------------------------------------------
NextCommand(a) ==
    \/ NextTerminal(a) \/ NextRefused(a) \/ NextExhausted(a)
    \/ \E h \in Node : NextActive(a, h) \/ NextPark(a, h) \/ NextDispatch(a, h)

RecordCommand(a) == RecordOk(a) \/ RecordFailed(a) \/ RecordRefused(a)

HumanCommand ==
    \/ Start \/ SetKanban \/ Cancel
    \/ \E n \in Node : Approve(n) \/ Reject(n) \/ Skip(n)
    \/ \E force \in BOOLEAN : Clean(force)
    \/ \E accept, force \in BOOLEAN, t \in Node : ResumeNode(accept, force, t)
    \/ \E accept \in BOOLEAN : ResumeNothing(accept)

Environment ==
    \/ EditYaml
    \/ \E a \in Agent : AgentCrash(a)
    \/ \E n \in Node : TimePasses(n)

Next ==
    \/ \E a \in Agent : NextCommand(a) \/ RecordCommand(a)
    \/ HumanCommand
    \/ Environment

Spec == Init /\ [][Next]_vars
=============================================================================
