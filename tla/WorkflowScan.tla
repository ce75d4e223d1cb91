---------------------------- MODULE WorkflowScan ----------------------------
(***************************************************************************)
(* The two loops of workflow_ctl.py, step by step.  _detect_cycle decides  *)
(* at start whether a file is accepted, one popped node per step.  The     *)
(* scan of compute_next goes over the nodes in file order, one visited     *)
(* node per step: it returns at the first node that is active or ready,    *)
(* skips what it can, and is repeated while a pass changed something.      *)
(*                                                                         *)
(* WorkflowRun uses closed forms of both results (Acyclic; FirstStop,      *)
(* PassSkips and AllSkips of WorkflowDoc); here the loops are shown to     *)
(* compute them.                                                           *)
(***************************************************************************)
EXTENDS WorkflowDoc, FiniteSets

CONSTANT Repeats    \* per file, the <<n, m>> such that depends_on of n lists m twice

\* A file is finite, and only one without unknown dependencies is looked at.
ASSUME ScanAssumption ==
    /\ \A d \in Doc : IsFiniteSet(Ids(d)) /\ \A n \in Ids(d) : Deps(d, n) \subseteq Ids(d)
    /\ Node \cap {"none", "scanning", "exhausted"} = {}

VARIABLES
    doc,        \* the workflow file, unchanged
    indeg,      \* _detect_cycle: dependencies not yet consumed
    queue,      \* _detect_cycle: nodes to consume, in any order
    seen,       \* _detect_cycle: how many have been consumed
    verdict,    \* "checking", "cycle" or "accepted"
    inputValues, \* state["inputs"]
    recorded,    \* state["nodes"][n]["summary"]
    before,     \* the statuses when the scan begins
    scanned,     \* the statuses the scan mutates
    todo,       \* the nodes this pass has still to visit
    changed,    \* whether this pass has skipped a node
    result      \* "none", "scanning", "exhausted", or the node the scan returned at

kahn == <<indeg, queue, seen, verdict>>
given == <<doc, kahn, inputValues, recorded, before>>
scan == <<inputValues, recorded, before, scanned, todo, changed, result>>
loopVars == <<given, scanned, todo, changed, result>>

-----------------------------------------------------------------------------
\* Every entry of the list is counted, though a node is a dependent only once.
Listed(n) ==
    Cardinality(Deps(doc, n))
        + Cardinality({m \in Deps(doc, n) : <<n, m>> \in Repeats[doc]})

Dependents(n) == {m \in Ids(doc) : n \in Deps(doc, m)}

LoopInit ==
    /\ doc \in Doc
    /\ indeg = [n \in Ids(doc) |-> Listed(n)]
    /\ queue = {n \in Ids(doc) : Deps(doc, n) = {}}
    /\ seen = 0
    /\ verdict = "checking"
    /\ inputValues = [i \in Input |-> None]
    /\ recorded = [n \in Node |-> None]
    /\ before = [n \in Node |-> "absent"]
    /\ scanned = before
    /\ todo = {}
    /\ changed = FALSE
    /\ result = "none"

Consume(n) ==
    LET left == [m \in DOMAIN indeg |->
                    IF m \in Dependents(n) THEN indeg[m] - 1 ELSE indeg[m]]
    IN  /\ verdict = "checking"
        /\ n \in queue
        /\ seen' = seen + 1
        /\ indeg' = left
        /\ queue' = (queue \ {n}) \cup {m \in Dependents(n) : left[m] = 0}
        /\ UNCHANGED <<doc, verdict, scan>>

\* A slip: without the count every file would pass.
JudgeByQueue ==
    /\ verdict = "checking" /\ queue = {}
    /\ verdict' = "accepted"
    /\ UNCHANGED <<doc, indeg, queue, seen, scan>>

Judge ==
    /\ verdict = "checking" /\ queue = {}
    /\ verdict' = IF seen # Cardinality(Ids(doc)) THEN "cycle" ELSE "accepted"
    /\ UNCHANGED <<doc, indeg, queue, seen, scan>>

-----------------------------------------------------------------------------
\* state["nodes"] has a record for the ids of the file and no other.
Statuses ==
    [Node -> {"pending", "running", "waiting_approval", "ok", "skipped", "absent"}]

\* States a run can be in when next scans it: see AtMostOneEngaged,
\* EngagedDepsOk and StatusAgrees of WorkflowRunProps.
Possible(d, ns) ==
    /\ \A n \in Node : ns[n] = "absent" <=> n \notin Ids(d)
    /\ \A m, n \in Node : ns[m] \in Active /\ ns[n] \in Active => m = n
    /\ \A n \in Ids(d) : ns[n] \in Active => DepsOk(d, ns, n)

ResolveIn(ns) ==
    [r \in Ref |->
        IF r \in Input THEN inputValues[r] ELSE IF ns[r] = "ok" THEN recorded[r] ELSE None]

\* next is called on a run of an accepted file.
Begin ==
    /\ verdict = "accepted" /\ result = "none"
    /\ inputValues' \in [Input -> Value \cup {None}]
    /\ before' \in {ns \in Statuses : Possible(doc, ns)}
    /\ recorded' \in [Node -> Value \cup {None}]
    /\ \A n \in Node : before'[n] # "ok" => recorded'[n] = None
    /\ scanned' = before'
    /\ todo' = Ids(doc)
    /\ changed' = FALSE
    /\ result' = "scanning"
    /\ UNCHANGED <<doc, kahn>>

-----------------------------------------------------------------------------
Visits(n) ==
    /\ result = "scanning"
    /\ n \in todo /\ \A m \in todo : Rank(doc, n) <= Rank(doc, m)
    /\ todo' = todo \ {n}
    /\ UNCHANGED given

DepSkipped(n) == \E m \in Deps(doc, n) : scanned[m] = "skipped"

\* A running node or a gate that waits: in_progress, interrupted, wait_approval.
ReturnAtActive(n) ==
    /\ Visits(n)
    /\ scanned[n] \in Active
    /\ result' = n
    /\ UNCHANGED <<scanned, changed>>

\* A settled node, or one that is still blocked.
PassOver(n) ==
    /\ Visits(n)
    /\ scanned[n] \notin Active
    /\ scanned[n] = "pending" =>
          \/ DepBlocked(doc, scanned, n)
          \/ ~DepSkipped(n) /\ ~DepsOk(doc, scanned, n)
    /\ UNCHANGED <<scanned, changed, result>>

SkipNode(n) ==
    /\ Visits(n)
    /\ scanned[n] = "pending" /\ ~DepBlocked(doc, scanned, n)
    /\ \/ DepSkipped(n)
       \/ DepsOk(doc, scanned, n) /\ ~WhenHolds(doc, n, ResolveIn(scanned))
    /\ scanned' = [scanned EXCEPT ![n] = "skipped"]
    /\ changed' = TRUE
    /\ UNCHANGED result

\* Park a gate or hand the node out.
ReturnReady(n) ==
    /\ Visits(n)
    /\ scanned[n] = "pending"
    /\ DepsOk(doc, scanned, n)
    /\ WhenHolds(doc, n, ResolveIn(scanned))
    /\ result' = n
    /\ UNCHANGED <<scanned, changed>>

\* Slips: one pass only; or `changed` survives into the next pass.
EndAfterOnePass ==
    /\ result = "scanning" /\ todo = {}
    /\ result' = "exhausted"
    /\ UNCHANGED <<given, scanned, todo, changed>>

EndPass ==
    /\ result = "scanning" /\ todo = {}
    /\ IF changed THEN todo' = Ids(doc) /\ UNCHANGED result
                  ELSE result' = "exhausted" /\ UNCHANGED todo
    /\ changed' = FALSE
    /\ UNCHANGED <<given, scanned>>

LoopNext ==
    \/ \E n \in Node : Consume(n)
    \/ Judge
    \/ Begin
    \/ \E n \in Node : \/ ReturnAtActive(n) \/ PassOver(n)
                       \/ SkipNode(n) \/ ReturnReady(n)
    \/ EndPass

LoopSpec == LoopInit /\ [][LoopNext]_loopVars

-----------------------------------------------------------------------------
\* Some node's depends_on lists a node twice.
ListedTwice == \E n \in Ids(doc) : \E m \in Deps(doc, n) : <<n, m>> \in Repeats[doc]

(***************************************************************************)
(* What _detect_cycle decides, for every file and whatever order its queue *)
(* has: it accepts exactly the files on which every non-empty set of nodes *)
(* has one that depends on none of them and where no node lists a          *)
(* dependency twice.  A repeated entry is counted twice and consumed once, *)
(* so such a file is refused as cyclic although it may have no cycle.      *)
(***************************************************************************)
KahnFindsCycles ==
    /\ verdict = "accepted" => Acyclic(doc) /\ ~ListedTwice
    /\ verdict = "cycle" => ~Acyclic(doc) \/ ListedTwice

(***************************************************************************)
(* A loop that returns at a node does so at the first one that is active   *)
(* or ready, having skipped exactly the closed form's nodes before it; a   *)
(* loop that runs out found none and has skipped the least closed set,     *)
(* however the file is ordered.                                            *)
(***************************************************************************)
LoopComputesScan ==
    LET resolve == ResolveIn(before)
    IN  /\ result \in Node =>
             /\ FirstStop(doc, before, resolve, result)
             /\ scanned = Skipping(before, PassSkips(doc, before, resolve, result))
        /\ result = "exhausted" =>
             /\ Stops(doc, before, resolve) = {}
             /\ scanned = Skipping(before, AllSkips(doc, before, resolve))

=============================================================================
