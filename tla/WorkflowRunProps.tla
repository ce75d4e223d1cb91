-------------------------- MODULE WorkflowRunProps --------------------------
(***************************************************************************)
(* What a workflow run promises: safety of the node statuses and of the    *)
(* run status, what a step may never do, and what must eventually happen.  *)
(***************************************************************************)
EXTENDS WorkflowRun

-----------------------------------------------------------------------------
(* Invariants.                                                             *)

Engaged == {"running", "waiting_approval", "failed"}

(***************************************************************************)
(* One node at a time: at most one node is running, waits for a human or   *)
(* has failed, whatever next, record, skip, resume and cancel are called   *)
(* in whatever order, and however the file is edited in between.           *)
(***************************************************************************)
AtMostOneEngaged ==
    \A m, n \in Node :
        nodeStatus[m] \in Engaged /\ nodeStatus[n] \in Engaged => m = n

(***************************************************************************)
(* The run's status and the node statuses are written by different         *)
(* commands but never drift apart: the run has failed exactly when a node  *)
(* has, waits exactly while a gate does (a cancelled run may keep the node *)
(* it was cancelled at), is rejected only with its gate, and is done only  *)
(* with every node settled.                                                *)
(***************************************************************************)
StatusAgrees ==
    /\ Exists => (status = "failed" <=> \E n \in Node : nodeStatus[n] = "failed")
    /\ status = "waiting_approval" => \E n \in Node : nodeStatus[n] = "waiting_approval"
    /\ \A n \in Node :
          Exists =>
          /\ nodeStatus[n] = "waiting_approval" => status \in {"waiting_approval", "cancelled"}
          /\ nodeStatus[n] = "running" => status \in {"running", "cancelled"}
          /\ nodeStatus[n] = "rejected" => status = "rejected"
          /\ status = "done" => nodeStatus[n] \in {"absent", "ok", "skipped"}

(***************************************************************************)
(* The node records are those of the adopted file, so next and resume      *)
(* never look up an id that has no record (a KeyError in the script).      *)
(***************************************************************************)
RecordsMatchFile ==
    Exists => {n \in Node : nodeStatus[n] # "absent"} = Ids(adopted)

(***************************************************************************)
(* A node that runs or waits at its gate has every dependency ok, in the   *)
(* file the run has adopted since, not only when it was handed out.        *)
(***************************************************************************)
EngagedDepsOk ==
    \A n \in Node :
        Exists /\ nodeStatus[n] \in Engaged => DepsOk(adopted, nodeStatus, n)

(***************************************************************************)
(* In file order among ready nodes, and it stays so: while a node runs or  *)
(* waits, no pending node before it in the adopted file could have gone    *)
(* first, although humans skip nodes meanwhile.                            *)
(***************************************************************************)
InFileOrder ==
    Exists =>
    \A m, n \in Node :
        /\ nodeStatus[n] \in Active
        /\ nodeStatus[m] = "pending" /\ Rank(adopted, m) < Rank(adopted, n)
        => ~DepsOk(adopted, nodeStatus, m)

(***************************************************************************)
(* Nobody leaves a run that still needs them.  A session stops when it is  *)
(* told "in_progress", when its record is refused or when the file has     *)
(* changed, so that a run could be left "running" with no session that     *)
(* would ever call next again.  Unless a human, an edit or a death has     *)
(* interfered since a node was handed out, that does not happen: some      *)
(* session executes the running node or is about to call next, and a node  *)
(* reported as in progress is being executed.                              *)
(***************************************************************************)
Attended ==
    status = "running" /\ tended =>
        /\ \E a \in Agent : \/ at[a] = Asking
                            \/ at[a] \in Node /\ nodeStatus[at[a]] = "running"
        /\ \A n \in Node : nodeStatus[n] = "running" => \E a \in Agent : at[a] = n

(***************************************************************************)
(* next never answers "stalled": when nothing runs, waits or has failed,   *)
(* the scan finds a node to hand out or finishes the run.                  *)
(***************************************************************************)
NeverStalled == reply # "stalled"

(***************************************************************************)
(* A node recorded with side_effects runs once, and once more only for     *)
(* each time a human forced it.                                            *)
(***************************************************************************)
SideEffectsNeedForce ==
    \A n \in Node : sideEffects[n] => attempts[n] <= 1 + forced[n]

(***************************************************************************)
(* The inductive invariant: the parts above that relate the statuses, with *)
(* two that only support them.  The adopted file is one that validation    *)
(* accepted, and a record that does not exist has no history.              *)
(***************************************************************************)
AdoptedIsValid == Exists => adopted \in Doc /\ Valid(adopted)

NoRecordNoHistory ==
    /\ status = "absent" => \A n \in Node : nodeStatus[n] = "absent"
    /\ \A n \in Node : nodeStatus[n] = "absent" => attempts[n] = 0

Consistent ==
    /\ AtMostOneEngaged
    /\ StatusAgrees
    /\ RecordsMatchFile
    /\ EngagedDepsOk
    /\ InFileOrder
    /\ AdoptedIsValid
    /\ NoRecordNoHistory

\* What makes SideEffectsNeedForce inductive: a pending node has an execution
\* to spare for every time it was forced.
ForcedAhead ==
    \A n \in Node : sideEffects[n] =>
        attempts[n] <= forced[n] + (IF nodeStatus[n] \in {"absent", "pending"} THEN 0 ELSE 1)

-----------------------------------------------------------------------------
(* Action properties.                                                      *)

(***************************************************************************)
(* A closed run is not reopened: next, skip, resume, a second cancel and   *)
(* the records of late sessions leave a done, rejected or cancelled run    *)
(* so until it is cleaned away.  Only a cancelled run can be left, and     *)
(* only by the late answer about the very node it was cancelled at: its    *)
(* gate is decided, or its failure is recorded.                            *)
(***************************************************************************)
ClosedStaysClosed ==
    [][(status \in {"done", "rejected", "cancelled"}) =>
         \/ status' \in {status, "deleted"}
         \/ /\ status = "cancelled"
            /\ \E n \in Node : /\ nodeStatus[n] \in Active
                               /\ nodeStatus'[n] \in {"ok", "failed", "rejected"}]_vars

\* What a node has achieved is never undone: no resume, skip, edit or late
\* record changes a node that is ok, nor its recorded summary.
OkIsPermanent ==
    [][\A n \in Node : nodeStatus[n] = "ok" =>
            nodeStatus'[n] = "ok" /\ summary'[n] = summary[n]]_vars

-----------------------------------------------------------------------------
(***************************************************************************)
(* Liveness.  All that is assumed is the loop of SKILL.md: a session that  *)
(* has recorded "ok" calls next again, and one that executes a node        *)
(* records, unless it dies.  No session is assumed to start, to poll, or   *)
(* to come back after an answer that ends its loop, no human is assumed to *)
(* do anything, and time need not pass.                                    *)
(***************************************************************************)
Continue(a) == at[a] = Asking /\ NextCommand(a)

Fairness ==
    \A a \in Agent : WF_vars(Continue(a)) /\ WF_vars(RecordCommand(a))

FairSpec == Spec /\ Fairness

(***************************************************************************)
(* A run that sessions are on is brought to an end, or to a gate: once a   *)
(* node has been handed out, the run stops being "running" unless a human  *)
(* or an edit interferes or a session dies first, although every session   *)
(* that is told "in_progress" leaves for good.                             *)
(***************************************************************************)
RunSettles == (status = "running" /\ tended) ~> (status # "running" \/ ~tended)
=============================================================================
