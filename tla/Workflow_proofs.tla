--------------------------- MODULE Workflow_proofs ---------------------------
(***************************************************************************)
(* What is proved of workflow_ctl.py, for any number of nodes, files,      *)
(* sessions, processes and failures.                                       *)
(*                                                                         *)
(* The run (WorkflowRun): one inductive invariant, Consistent, in two      *)
(* layers: types, then what relates the node statuses, the run's status    *)
(* and the adopted file.  Before it, facts about one scan of compute_next: *)
(* what it may change, that the set it skips is closed under its own rule, *)
(* and that a scan that finds nothing to do on a valid file has settled    *)
(* everything a failure does not block.                                    *)
(*                                                                         *)
(* The scan (WorkflowScan): its two loops over the nodes compute what      *)
(* WorkflowDoc says they do: _detect_cycle accepts the acyclic files, and  *)
(* the scan of compute_next stops at the first node that is active or      *)
(* ready.                                                                  *)
(*                                                                         *)
(* The store (WorkflowStore): until two commands on one run directory      *)
(* overlap, state.json is the cell of WorkflowCell, for any number of      *)
(* processes, commands, kills and power failures.  There is no lock, so    *)
(* commands may overlap; a second invariant, Guarded, says what is left of *)
(* the guard of next when they do.                                         *)
(***************************************************************************)
EXTENDS WorkflowRunProps, WorkflowScan, WorkflowStore, FiniteSetTheorems, TLAPS

-----------------------------------------------------------------------------
(* One scan.                                                               *)

LEMMA DeclarationType ==
    ASSUME NEW d \in Doc
    PROVE  /\ Ids(d) \subseteq Node
           /\ \A n \in Node : /\ Rank(d, n) \in Nat
                              /\ Deps(d, n) \subseteq Node
                              /\ DocDef[d].kind[n] \in Kind
                              /\ DocDef[d].sideEffects[n] \in BOOLEAN
           /\ \A m, n \in Ids(d) : Rank(d, m) = Rank(d, n) => m = n
<1>1. DocDef[d] \in Declaration
  BY DocAssumption DEF DocAssumption
<1>2. \A m, n \in Ids(d) : Rank(d, m) = Rank(d, n) => m = n
  BY DocAssumption DEF DocAssumption, Ids, Rank
<1> QED
  BY <1>1, <1>2 DEF Declaration, Ids, Rank, Deps

\* new differs from old only in pending nodes that have been skipped.
SkipsOnly(old, new) ==
    \A n \in Node : \/ new[n] = old[n]
                    \/ old[n] = "pending" /\ new[n] = "skipped"

LEMMA ScanSkipsOnly ==
    ASSUME NEW d \in Doc, NEW T, NEW ns \in [Node -> T], NEW resolve, NEW h
    PROVE  /\ SkipsOnly(ns, Skipping(ns, PassSkips(d, ns, resolve, h)))
           /\ SkipsOnly(ns, Skipping(ns, AllSkips(d, ns, resolve)))
<1>1. \A n \in PassSkips(d, ns, resolve, h) : ns[n] = "pending"
  BY DEF PassSkips, VisitedBefore
<1>2. \A n \in AllSkips(d, ns, resolve) : ns[n] = "pending"
  BY DEF AllSkips, Pending
<1> QED
  BY <1>1, <1>2 DEF SkipsOnly, Skipping

\* Skipping makes no dependency ok and takes none away.
LEMMA SkippingKeepsDepsOk ==
    ASSUME NEW d \in Doc, NEW old, NEW new, SkipsOnly(old, new), NEW n \in Node
    PROVE  DepsOk(d, new, n) <=> DepsOk(d, old, n)
BY DeclarationType DEF SkipsOnly, DepsOk

(***************************************************************************)
(* A pending node before the one a scan stops at whose dependencies are    *)
(* all ok is skipped by that scan: it is not ready, or it would have       *)
(* stopped the scan.                                                       *)
(***************************************************************************)
LEMMA UnreadyIsSkipped ==
    ASSUME NEW d \in Doc, NEW ns, NEW resolve, NEW h \in Node,
           FirstStop(d, ns, resolve, h),
           NEW n \in Ids(d), ns[n] = "pending", Rank(d, n) < Rank(d, h),
           DepsOk(d, ns, n)
    PROVE  n \in PassSkips(d, ns, resolve, h)
<1> n \in Node
  BY DeclarationType
<1> Rank(d, n) \in Nat /\ Rank(d, h) \in Nat
  BY DeclarationType
<1>1. n \notin Stops(d, ns, resolve)
  BY DEF FirstStop
<1>2. ~WhenHolds(d, n, resolve)
  BY <1>1 DEF Stops, Ready
<1>3. ~DepBlocked(d, ns, n)
  BY DEF DepsOk, DepBlocked
<1>4. \A X : Skippable(d, ns, resolve, n, X)
  BY <1>2, <1>3 DEF Skippable
<1>5. n \in VisitedBefore(d, ns, h)
  BY DEF VisitedBefore
<1>6. ASSUME NEW X \in SUBSET VisitedBefore(d, ns, h),
             PassClosed(d, ns, resolve, VisitedBefore(d, ns, h), X)
      PROVE  n \in X
  BY <1>4, <1>5, <1>6 DEF PassClosed
<1> QED
  BY <1>5, <1>6 DEF PassSkips

LEMMA SkippableMonotone ==
    ASSUME NEW d, NEW ns, NEW resolve, NEW n, NEW X, NEW Y, X \subseteq Y,
           Skippable(d, ns, resolve, n, X)
    PROVE  Skippable(d, ns, resolve, n, Y)
BY DEF Skippable

(***************************************************************************)
(* The skips of a scan that runs out are closed: no further pass would     *)
(* skip anything, which is why the loop of compute_next may end.           *)
(***************************************************************************)
LEMMA AllSkipsClosed ==
    ASSUME NEW d \in Doc, NEW ns, NEW resolve
    PROVE  Closed(d, ns, resolve, AllSkips(d, ns, resolve))
<1> DEFINE S == AllSkips(d, ns, resolve)
<1> SUFFICES ASSUME NEW n \in Pending(d, ns), Skippable(d, ns, resolve, n, S)
             PROVE  n \in S
  BY DEF Closed
<1>1. ASSUME NEW X \in SUBSET Pending(d, ns), Closed(d, ns, resolve, X)
      PROVE  n \in X
  <2>1. S \subseteq X
    BY <1>1 DEF AllSkips
  <2>2. Skippable(d, ns, resolve, n, X)
    BY <2>1, SkippableMonotone
  <2> QED
    BY <1>1, <2>2 DEF Closed
<1> QED
  BY <1>1 DEF AllSkips

(***************************************************************************)
(* On a valid file a scan that finds no node to stop at leaves no node     *)
(* pending, unless some node has failed or was rejected.  Acyclicity gives *)
(* a pending node all of whose dependencies are settled; the scan would    *)
(* have stopped at it or skipped it.                                       *)
(***************************************************************************)
LEMMA NothingLeftPending ==
    ASSUME NEW d \in Doc, Valid(d), NEW resolve, NEW T, NEW ns \in [Node -> T],
           \A n \in Ids(d) : ns[n] \in {"pending", "running", "waiting_approval",
                                        "ok", "skipped"},
           Stops(d, ns, resolve) = {}
    PROVE  \A n \in Ids(d) :
              Skipping(ns, AllSkips(d, ns, resolve))[n] \in {"ok", "skipped"}
<1> DEFINE S == AllSkips(d, ns, resolve)
           after == Skipping(ns, S)
           X == {n \in Ids(d) : after[n] = "pending"}
<1>0. Ids(d) \subseteq Node /\ \A n \in Node : Deps(d, n) \subseteq Node
  BY DeclarationType
<1>1. \A n \in Ids(d) : ns[n] \notin Active
  BY DEF Stops
<1>2. \A n \in Node : after[n] = IF n \in S THEN "skipped" ELSE ns[n]
  BY DEF Skipping
<1>3. \A n \in Ids(d) : after[n] \in {"ok", "skipped", "pending"}
  BY <1>0, <1>1, <1>2 DEF Active
<1>4. \A n \in S : ns[n] = "pending" /\ n \in Ids(d)
  BY DEF AllSkips, Pending
<1>5. ASSUME X # {} PROVE FALSE
  <2>1. PICK n \in X : Deps(d, n) \cap X = {}
    BY <1>5 DEF Valid, Acyclic
  <2>2. /\ n \in Ids(d) /\ n \in Node
        /\ ns[n] = "pending" /\ n \notin S
    BY <1>0, <1>2, <2>1
  <2>3. Deps(d, n) \subseteq Ids(d)
    BY <2>2 DEF Valid
  <2>4. \A m \in Deps(d, n) : after[m] \in {"ok", "skipped"}
    BY <1>3, <2>1, <2>3
  <2>5. \A m \in Deps(d, n) : ns[m] \in {"ok", "skipped", "pending"}
    BY <1>0, <1>2, <1>4, <2>3, <2>4
  <2>6. ~DepBlocked(d, ns, n)
    BY <2>5 DEF DepBlocked
  <2>7. Skippable(d, ns, resolve, n, S)
    <3>1. CASE \E m \in Deps(d, n) : after[m] = "skipped"
      BY <1>0, <1>2, <2>3, <2>6, <3>1 DEF Skippable
    <3>2. CASE \A m \in Deps(d, n) : after[m] = "ok"
      <4>1. DepsOk(d, ns, n)
        BY <1>0, <1>2, <2>3, <3>2 DEF DepsOk
      <4>2. ~WhenHolds(d, n, resolve)
        BY <2>2, <4>1 DEF Stops, Ready
      <4> QED
        BY <2>6, <4>1, <4>2 DEF Skippable
    <3> QED
      BY <2>4, <3>1, <3>2
  <2>8. n \in S
    BY <2>2, <2>7, AllSkipsClosed DEF Closed, Pending
  <2> QED
    BY <2>2, <2>8
<1> QED
  BY <1>3, <1>5

-----------------------------------------------------------------------------
(* Types.                                                                  *)

LEMMA SkippingType ==
    ASSUME NEW ns \in [Node -> NodeState \cup {"absent"}], NEW S
    PROVE  Skipping(ns, S) \in [Node -> NodeState \cup {"absent"}]
  BY DEF Skipping, NodeState

LEMMA OutcomeType ==
    ASSUME NEW ns
    PROVE  Outcome(ns) \in {"done", "failed", "stalled"}
  BY DEF Outcome

LEMMA TypeInit == Init => TypeOK
<1> SUFFICES ASSUME Init PROVE TypeOK
  OBVIOUS
<1>1. kanban \in BOOLEAN /\ sideEffects \in [Node -> BOOLEAN]
  BY Zenon DEF Init
<1> QED
  BY <1>1 DEF Init, TypeOK, Kind, Reply

LEMMA TypeNextCommand ==
    ASSUME TypeOK, NEW a \in Agent, NextCommand(a)
    PROVE  TypeOK'
<1> USE DEF TypeOK, vars, headVars, nodeVars, Stop
<1>0. CASE NextRefused(a)
  BY <1>0 DEF NextRefused
<1>1. ASSUME NextTerminal(a) PROVE TypeOK'
  BY <1>1 DEF NextTerminal, Terminal, Reply
<1>2. ASSUME NEW h \in Node, NextActive(a, h) PROVE TypeOK'
  <2>1. nodeStatus' \in [Node -> NodeState \cup {"absent"}]
    BY <1>2, SkippingType DEF NextActive, SkippedTo
  <2>2. reply' \in Reply
    BY <1>2 DEF NextActive, Reply
  <2> QED
    BY <1>2, <2>1, <2>2 DEF NextActive
<1>3. ASSUME NEW h \in Node, NextPark(a, h) PROVE TypeOK'
  <2>1. SkippedTo(h) \in [Node -> NodeState \cup {"absent"}]
    BY SkippingType DEF SkippedTo
  <2> QED
    BY <1>3, <2>1 DEF NextPark, Reply, RunStatus, NodeState
<1>4. ASSUME NEW h \in Node, NextDispatch(a, h) PROVE TypeOK'
  <2>1. SkippedTo(h) \in [Node -> NodeState \cup {"absent"}]
    BY SkippingType DEF SkippedTo
  <2> QED
    BY <1>4, <2>1 DEF NextDispatch, Reply, NodeState
<1>5. ASSUME NextExhausted(a) PROVE TypeOK'
  <2> DEFINE after == Skipping(nodeStatus, AllSkips(adopted, nodeStatus, Resolve))
  <2>1. after \in [Node -> NodeState \cup {"absent"}]
    BY SkippingType
  <2>2. Outcome(after) \in {"done", "failed", "stalled"}
    BY OutcomeType
  <2> QED
    BY <1>5, <2>1, <2>2 DEF NextExhausted, Reply, RunStatus, Terminal
<1> QED
  BY <1>0, <1>1, <1>2, <1>3, <1>4, <1>5 DEF NextCommand

LEMMA TypeRecordCommand ==
    ASSUME TypeOK, NEW a \in Agent, RecordCommand(a)
    PROVE  TypeOK'
<1> USE DEF TypeOK, headVars, nodeVars, Stop
<1>1. ASSUME RecordOk(a) PROVE TypeOK'
  BY <1>1 DEF RecordOk, Record, GoesOn, NodeState, Reply
<1>2. ASSUME RecordFailed(a) PROVE TypeOK'
  BY <1>2 DEF RecordFailed, Record, NodeState, Reply, RunStatus, Terminal
<1>3. ASSUME RecordRefused(a) PROVE TypeOK'
  BY <1>3 DEF RecordRefused
<1> QED
  BY <1>1, <1>2, <1>3 DEF RecordCommand

LEMMA AdoptType ==
    ASSUME TypeOK, NEW accept \in BOOLEAN, Adopts(accept)
    PROVE  /\ yaml \in Doc \cup {NoFile}
           /\ ResumedStatus(accept) \in [Node -> NodeState \cup {"absent"}]
           /\ ResumedForced(accept) \in [Node -> Nat]
           /\ kind' \in [Node -> Kind]
           /\ sideEffects' \in [Node -> BOOLEAN]
           /\ attempts' \in [Node -> Nat]
<1> USE DEF TypeOK
<1>1. CASE accept
  <2>1. yaml \in Doc
    BY <1>1 DEF Adopts, CanAdopt
  <2>2. ResumedStatus(accept) \in [Node -> NodeState \cup {"absent"}]
    BY <1>1 DEF ResumedStatus, AdoptedStatus, NodeState
  <2>3. ResumedForced(accept) \in [Node -> Nat]
    BY DEF ResumedForced
  <2>4. AdoptNodes
    BY <1>1 DEF Adopts
  <2>5. kind' \in [Node -> Kind] /\ attempts' \in [Node -> Nat]
    BY <2>1, <2>4, DeclarationType DEF AdoptNodes
  <2>6. sideEffects' \in [Node -> BOOLEAN]
    <3>1. ASSUME NEW n \in Node
          PROVE  (IF n \in Added(yaml) THEN DocDef[yaml].sideEffects[n]
                  ELSE n \notin Dropped /\ sideEffects[n]) \in BOOLEAN
      BY <2>1, DeclarationType
    <3> QED
      BY <2>4, <3>1 DEF AdoptNodes
  <2> QED
    BY <2>1, <2>2, <2>3, <2>5, <2>6
<1>2. CASE ~accept
  BY <1>2 DEF Adopts, ResumedStatus, ResumedForced
<1> QED
  BY <1>1, <1>2

LEMMA TypeHumanCommand == TypeOK /\ HumanCommand => TypeOK'
<1> SUFFICES ASSUME TypeOK, HumanCommand PROVE TypeOK'
  OBVIOUS
<1> USE DEF TypeOK, headVars, nodeVars, Interferes
<1>1. ASSUME Start PROVE TypeOK'
  <2>1. yaml \in Doc
    BY <1>1 DEF Start
  <2> QED
    BY <1>1, <2>1, DeclarationType DEF Start, NodeState, Reply, RunStatus
<1>2. ASSUME SetKanban PROVE TypeOK'
  BY <1>2 DEF SetKanban, Reply
<1>3. ASSUME Cancel PROVE TypeOK'
  BY <1>3 DEF Cancel, Reply, RunStatus, Terminal
<1>4. ASSUME NEW n \in Node, Approve(n) PROVE TypeOK'
  BY <1>4 DEF Approve, Decide, NodeState, Reply, RunStatus
<1>5. ASSUME NEW n \in Node, Reject(n) PROVE TypeOK'
  BY <1>5 DEF Reject, Decide, NodeState, Reply, RunStatus, Terminal
<1>6. ASSUME NEW n \in Node, Skip(n) PROVE TypeOK'
  BY <1>6 DEF Skip, NodeState, Reply, RunStatus
<1>7. ASSUME NEW force \in BOOLEAN, Clean(force) PROVE TypeOK'
  BY <1>7 DEF Clean, Reply
<1>8. ASSUME NEW accept \in BOOLEAN, NEW force \in BOOLEAN, NEW t \in Node,
             ResumeNode(accept, force, t)
      PROVE  TypeOK'
  <2>1. Adopts(accept)
    BY <1>8 DEF ResumeNode
  <2>2. nodeStatus' \in [Node -> NodeState \cup {"absent"}]
    BY <1>8, <2>1, AdoptType DEF ResumeNode, NodeState
  <2>3. forced' \in [Node -> Nat]
    BY <1>8, <2>1, AdoptType DEF ResumeNode
  <2>4. /\ startedAt' \in [Node -> {"none", "fresh", "stale"}]
        /\ summary' \in [Node -> Value \cup {None}]
    BY <1>8 DEF ResumeNode
  <2> QED
    BY <1>8, <2>1, <2>2, <2>3, <2>4, AdoptType DEF ResumeNode, Reply, RunStatus
<1>9. ASSUME NEW accept \in BOOLEAN, ResumeNothing(accept) PROVE TypeOK'
  <2>1. Adopts(accept)
    BY <1>9 DEF ResumeNothing
  <2> QED
    BY <1>9, <2>1, AdoptType DEF ResumeNothing, Reply, RunStatus
<1> QED
  BY <1>1, <1>2, <1>3, <1>4, <1>5, <1>6, <1>7, <1>8, <1>9 DEF HumanCommand

LEMMA TypeEnvironment == TypeOK /\ Environment => TypeOK'
  BY DEF TypeOK, Environment, EditYaml, AgentCrash, TimePasses, headVars, nodeVars,
         Interferes, Stop

LEMMA TypeStep == TypeOK /\ [Next]_vars => TypeOK'
<1>1. TypeOK /\ UNCHANGED vars => TypeOK'
  BY DEF TypeOK, vars, headVars, nodeVars
<1> QED
  BY <1>1, TypeNextCommand, TypeRecordCommand, TypeHumanCommand,
     TypeEnvironment DEF Next

(***************************************************************************)
(* Every variable keeps its type: no command invents a status, and next    *)
(* and record never write an attempt count or an owner out of range.       *)
(***************************************************************************)
THEOREM TypeCorrect == Spec => []TypeOK
  BY TypeInit, TypeStep, PTL DEF Spec

-----------------------------------------------------------------------------
(* Consistency.  next first: it acts only on the adopted, valid file and   *)
(* only while no node has failed and none was rejected.                    *)

\* What every command keeps when it touches neither statuses nor the file.
LEMMA ConsistentDependsOn ==
    ASSUME Consistent, UNCHANGED <<status, adopted, nodeStatus, attempts>>
    PROVE  Consistent'
BY DEF Consistent, AtMostOneEngaged, StatusAgrees, RecordsMatchFile, EngagedDepsOk,
       InFileOrder, AdoptedIsValid, NoRecordNoHistory, Exists

LEMMA ScanContext ==
    ASSUME TypeOK, Consistent, Scans
    PROVE  /\ adopted \in Doc /\ Valid(adopted)
           /\ status \in {"running", "waiting_approval"}
           /\ \A n \in Node : nodeStatus[n] \notin {"failed", "rejected"}
           /\ \A n \in Node : nodeStatus[n] # "absent" <=> n \in Ids(adopted)
<1>1. Exists /\ status \in {"running", "waiting_approval"}
  BY DEF Scans, Exists, Terminal, RunStatus
<1>2. \A n \in Node : nodeStatus[n] \notin {"failed", "rejected"}
  BY <1>1 DEF Consistent, StatusAgrees
<1>3. adopted \in Doc /\ Valid(adopted)
  BY <1>1 DEF Consistent, AdoptedIsValid
<1>4. Ids(adopted) \subseteq Node
  BY <1>3, DeclarationType
<1>5. \A n \in Node : nodeStatus[n] # "absent" <=> n \in Ids(adopted)
  BY <1>1, <1>4 DEF Consistent, RecordsMatchFile
<1> QED
  BY <1>1, <1>2, <1>3, <1>5

\* A scan that stops at a pending node finds nothing else engaged.
LEMMA PendingStopIsAlone ==
    ASSUME TypeOK, Consistent, NEW h \in Node, StopsAt(h), nodeStatus[h] = "pending"
    PROVE  /\ \A n \in Node : nodeStatus[n] \notin Engaged
           /\ DepsOk(adopted, nodeStatus, h)
           /\ h \in Ids(adopted)
           /\ status = "running"
<1> USE DEF TypeOK
<1>1. Scans /\ FirstStop(adopted, nodeStatus, Resolve, h)
  BY DEF StopsAt
<1>2. /\ adopted \in Doc /\ status \in {"running", "waiting_approval"}
      /\ \A n \in Node : nodeStatus[n] \notin {"failed", "rejected"}
      /\ \A n \in Node : nodeStatus[n] # "absent" <=> n \in Ids(adopted)
  BY <1>1, ScanContext
<1>3. h \in Ids(adopted) /\ DepsOk(adopted, nodeStatus, h)
  BY <1>1 DEF FirstStop, Stops, Ready, Active
<1>4. ASSUME NEW n \in Node, nodeStatus[n] \in Active PROVE FALSE
  <2>1. n \in Ids(adopted) /\ n # h
    BY <1>2, <1>4 DEF Active
  <2>2. n \in Stops(adopted, nodeStatus, Resolve)
    BY <1>4, <2>1 DEF Stops
  <2>3. Rank(adopted, h) <= Rank(adopted, n) /\ Rank(adopted, h) # Rank(adopted, n)
    BY <1>1, <1>2, <1>3, <2>1, <2>2, DeclarationType DEF FirstStop
  <2>4. Rank(adopted, h) < Rank(adopted, n)
    BY <1>2, <2>3, DeclarationType
  <2> QED
    BY <1>1, <1>3, <1>4, <2>4 DEF Consistent, InFileOrder, Scans
<1>5. \A n \in Node : nodeStatus[n] \notin Engaged
  BY <1>2, <1>4 DEF Engaged, Active
<1>6. status = "running"
  BY <1>2, <1>4 DEF Consistent, StatusAgrees, Active
<1> QED
  BY <1>3, <1>5, <1>6

\* The statuses after a scan that stops at h, and what they still guarantee.
LEMMA AfterSkips ==
    ASSUME TypeOK, Consistent, NEW h \in Node, StopsAt(h)
    PROVE  /\ SkippedTo(h) \in [Node -> NodeState \cup {"absent"}]
           /\ SkipsOnly(nodeStatus, SkippedTo(h))
           /\ SkippedTo(h)[h] = nodeStatus[h]
           /\ \A n \in Node : DepsOk(adopted, SkippedTo(h), n)
                                <=> DepsOk(adopted, nodeStatus, n)
<1> USE DEF TypeOK
<1>1. adopted \in Doc
  BY ScanContext DEF StopsAt
<1>2. SkipsOnly(nodeStatus, SkippedTo(h))
  BY <1>1, ScanSkipsOnly DEF SkippedTo
<1>3. SkippedTo(h) \in [Node -> NodeState \cup {"absent"}]
  BY SkippingType DEF SkippedTo
<1>4. h \notin PassSkips(adopted, nodeStatus, Resolve, h)
  <2>1. ~(Rank(adopted, h) < Rank(adopted, h))
    BY <1>1, DeclarationType
  <2> QED
    BY <2>1 DEF PassSkips, VisitedBefore
<1>5. SkippedTo(h)[h] = nodeStatus[h]
  BY <1>4 DEF SkippedTo, Skipping
<1> QED
  BY <1>1, <1>2, <1>3, <1>5, SkippingKeepsDepsOk

LEMMA ConsistentNextActive ==
    ASSUME TypeOK, Consistent, NEW a \in Agent, NEW h \in Node, NextActive(a, h)
    PROVE  Consistent'
<1> USE DEF TypeOK
<1>1. /\ StopsAt(h) /\ nodeStatus[h] \in Active
      /\ nodeStatus' = SkippedTo(h)
      /\ UNCHANGED <<status, adopted, attempts>>
  BY DEF NextActive, headVars
<1>2. /\ Scans
      /\ adopted \in Doc /\ status \in {"running", "waiting_approval"}
      /\ \A n \in Node : nodeStatus[n] \notin {"failed", "rejected"}
  BY <1>1, ScanContext DEF StopsAt
<1>3. \A n \in Node : \/ nodeStatus'[n] = nodeStatus[n]
                      \/ nodeStatus[n] = "pending" /\ nodeStatus'[n] = "skipped"
  BY <1>1, AfterSkips DEF SkipsOnly
<1>4. \A n \in Node : DepsOk(adopted, nodeStatus', n) <=> DepsOk(adopted, nodeStatus, n)
  BY <1>1, AfterSkips
<1>5. nodeStatus'[h] = nodeStatus[h]
  BY <1>1, AfterSkips
<1>6. AtMostOneEngaged'
  BY <1>3 DEF Consistent, AtMostOneEngaged, Engaged
<1>7. StatusAgrees'
  BY <1>1, <1>2, <1>3, <1>5 DEF Consistent, StatusAgrees, Exists, Active, RunStatus, Terminal
<1>8. RecordsMatchFile'
  BY <1>1, <1>3 DEF Consistent, RecordsMatchFile, Exists
<1>9. EngagedDepsOk'
  BY <1>1, <1>3, <1>4 DEF Consistent, EngagedDepsOk, Exists, Engaged
<1>10. InFileOrder'
  BY <1>1, <1>3, <1>4 DEF Consistent, InFileOrder, Exists, Active
<1>11. AdoptedIsValid' /\ NoRecordNoHistory'
  BY <1>1, <1>2, <1>3 DEF Consistent, AdoptedIsValid, NoRecordNoHistory, Exists, RunStatus
<1> QED
  BY <1>6, <1>7, <1>8, <1>9, <1>10, <1>11 DEF Consistent

(***************************************************************************)
(* Handing out or parking h.  Nothing else is engaged, and the pending     *)
(* nodes before h that the scan leaves pending have a dependency that is   *)
(* not ok, because the scan skips the others.                              *)
(***************************************************************************)
LEMMA ConsistentEngage ==
    ASSUME TypeOK, Consistent, NEW h \in Node, StopsAt(h),
           nodeStatus[h] = "pending",
           NEW s \in Active,
           nodeStatus' = [SkippedTo(h) EXCEPT ![h] = s],
           s = "waiting_approval" => status' = "waiting_approval",
           s = "running" => status' = status,
           UNCHANGED adopted,
           \A n \in Node : n # h => attempts'[n] = attempts[n]
    PROVE  Consistent'
<1> USE DEF TypeOK
<1>1. /\ \A n \in Node : nodeStatus[n] \notin Engaged
      /\ DepsOk(adopted, nodeStatus, h)
      /\ h \in Ids(adopted)
      /\ status = "running"
  BY PendingStopIsAlone
<1>2. /\ adopted \in Doc /\ Valid(adopted)
      /\ \A n \in Node : nodeStatus[n] \notin {"failed", "rejected"}
      /\ \A n \in Node : nodeStatus[n] # "absent" <=> n \in Ids(adopted)
  BY ScanContext DEF StopsAt
<1>3. /\ SkippedTo(h) \in [Node -> NodeState \cup {"absent"}]
      /\ SkipsOnly(nodeStatus, SkippedTo(h))
      /\ \A n \in Node : DepsOk(adopted, SkippedTo(h), n)
                           <=> DepsOk(adopted, nodeStatus, n)
  BY AfterSkips
<1>4. /\ nodeStatus'[h] = s
      /\ \A n \in Node \ {h} : \/ nodeStatus'[n] = nodeStatus[n]
                               \/ nodeStatus[n] = "pending" /\ nodeStatus'[n] = "skipped"
  BY <1>3 DEF SkipsOnly
<1>5. \A n \in Node : DepsOk(adopted, nodeStatus', n) <=> DepsOk(adopted, nodeStatus, n)
  <2> SUFFICES ASSUME NEW n \in Node
               PROVE  DepsOk(adopted, nodeStatus', n) <=> DepsOk(adopted, SkippedTo(h), n)
    BY <1>3
  <2>1. Deps(adopted, n) \subseteq Node
    BY <1>2, DeclarationType
  <2>2. \A m \in Node : nodeStatus'[m] = "ok" <=> SkippedTo(h)[m] = "ok"
    BY <1>3, <1>4 DEF SkipsOnly, Active
  <2> QED
    BY <2>1, <2>2 DEF DepsOk
<1>6. s \in {"running", "waiting_approval"} /\ status' \in {"running", "waiting_approval"}
  BY <1>1 DEF Active
<1>7. AtMostOneEngaged'
  BY <1>1, <1>4 DEF AtMostOneEngaged, Engaged
<1>8. StatusAgrees'
  BY <1>1, <1>2, <1>4, <1>6 DEF StatusAgrees, Exists, Engaged, RunStatus, Terminal
<1>9. RecordsMatchFile'
  <2>1. \A n \in Node : nodeStatus'[n] # "absent" <=> n \in Ids(adopted)
    BY <1>1, <1>2, <1>4, <1>6
  <2> QED
    BY <1>2, <2>1, DeclarationType DEF RecordsMatchFile
<1>10. EngagedDepsOk'
  BY <1>1, <1>4, <1>5 DEF EngagedDepsOk, Engaged
<1>11. InFileOrder'
  <2> SUFFICES ASSUME NEW m \in Node, NEW n \in Node,
                      nodeStatus'[n] \in Active, nodeStatus'[m] = "pending",
                      Rank(adopted, m) < Rank(adopted, n),
                      DepsOk(adopted, nodeStatus', m)
               PROVE  FALSE
    BY DEF InFileOrder
  <2>1. n = h
    BY <1>1, <1>4 DEF Active, Engaged
  <2>2. m # h /\ nodeStatus[m] = "pending" /\ DepsOk(adopted, nodeStatus, m)
    BY <1>4, <1>5, <1>6
  <2>3. m \in PassSkips(adopted, nodeStatus, Resolve, h)
    BY <1>2, <2>1, <2>2, UnreadyIsSkipped DEF StopsAt
  <2> QED
    BY <1>4, <2>2, <2>3 DEF SkippedTo, Skipping
<1>12. AdoptedIsValid' /\ NoRecordNoHistory'
  BY <1>1, <1>2, <1>4, <1>6
     DEF Consistent, AdoptedIsValid, NoRecordNoHistory
<1> QED
  BY <1>7, <1>8, <1>9, <1>10, <1>11, <1>12 DEF Consistent

\* Running out: everything is settled, so the run is done and never stalled.
LEMMA ExhaustedIsDone ==
    ASSUME TypeOK, Consistent, NEW a \in Agent, NextExhausted(a)
    PROVE  /\ status = "running" /\ status' = "done" /\ reply' = "done"
           /\ \A n \in Node : nodeStatus'[n] \in {"ok", "skipped", "absent"}
           /\ SkipsOnly(nodeStatus, nodeStatus')
           /\ UNCHANGED <<adopted, attempts>>
<1> USE DEF TypeOK
<1> DEFINE after == Skipping(nodeStatus, AllSkips(adopted, nodeStatus, Resolve))
<1>1. /\ Scans /\ Stops(adopted, nodeStatus, Resolve) = {}
      /\ nodeStatus' = after
      /\ reply' = Outcome(after)
      /\ status' = IF Outcome(after) = "stalled" THEN status ELSE Outcome(after)
      /\ UNCHANGED <<adopted, attempts>>
  BY DEF NextExhausted, headVars
<1>2. /\ adopted \in Doc /\ Valid(adopted)
      /\ status \in {"running", "waiting_approval"}
      /\ \A n \in Node : nodeStatus[n] \notin {"failed", "rejected"}
      /\ \A n \in Node : nodeStatus[n] # "absent" <=> n \in Ids(adopted)
  BY <1>1, ScanContext
<1>3. Ids(adopted) \subseteq Node
  BY <1>2, DeclarationType
<1>4. \A n \in Ids(adopted) : nodeStatus[n] \in {"pending", "running",
                                "waiting_approval", "ok", "skipped"}
  BY <1>2, <1>3 DEF NodeState
<1>5. \A n \in Ids(adopted) : after[n] \in {"ok", "skipped"}
  BY <1>1, <1>2, <1>4, NothingLeftPending
<1>6. SkipsOnly(nodeStatus, after)
  BY <1>2, ScanSkipsOnly
<1>7. \A n \in Node : after[n] \in {"ok", "skipped", "absent"}
  BY <1>2, <1>5, <1>6 DEF SkipsOnly
<1>8. Outcome(after) = "done"
  BY <1>7 DEF Outcome
<1>9. status = "running"
  <2>1. ASSUME NEW n \in Node, nodeStatus[n] = "waiting_approval" PROVE FALSE
    BY <1>1, <1>2, <2>1 DEF Stops, Active
  <2> QED
    BY <1>2, <2>1 DEF Consistent, StatusAgrees
<1> QED
  BY <1>1, <1>6, <1>7, <1>8, <1>9

LEMMA ConsistentNextExhausted ==
    ASSUME TypeOK, Consistent, NEW a \in Agent, NextExhausted(a)
    PROVE  Consistent'
<1> USE DEF TypeOK
<1>1. /\ status = "running" /\ status' = "done"
      /\ \A n \in Node : nodeStatus'[n] \in {"ok", "skipped", "absent"}
      /\ \A n \in Node : \/ nodeStatus'[n] = nodeStatus[n]
                         \/ nodeStatus[n] = "pending" /\ nodeStatus'[n] = "skipped"
      /\ UNCHANGED <<adopted, attempts>>
  BY ExhaustedIsDone DEF SkipsOnly
<1>2. AtMostOneEngaged' /\ EngagedDepsOk' /\ InFileOrder'
  BY <1>1 DEF AtMostOneEngaged, EngagedDepsOk, InFileOrder, Engaged, Active
<1>3. StatusAgrees'
  BY <1>1 DEF StatusAgrees
<1>4. RecordsMatchFile'
  BY <1>1 DEF Consistent, RecordsMatchFile, Exists, RunStatus
<1>5. AdoptedIsValid' /\ NoRecordNoHistory'
  BY <1>1 DEF Consistent, AdoptedIsValid, NoRecordNoHistory, Exists, RunStatus
<1> QED
  BY <1>2, <1>3, <1>4, <1>5 DEF Consistent

LEMMA ConsistentNextCommand ==
    ASSUME TypeOK, Consistent, NEW a \in Agent, NextCommand(a)
    PROVE  Consistent'
<1>1. CASE NextTerminal(a) \/ NextRefused(a)
  BY <1>1, ConsistentDependsOn DEF NextTerminal, NextRefused, headVars, nodeVars
<1>2. ASSUME NEW h \in Node, NextPark(a, h) PROVE Consistent'
  <2>1. /\ StopsAt(h) /\ nodeStatus[h] = "pending"
        /\ nodeStatus' = [SkippedTo(h) EXCEPT ![h] = "waiting_approval"]
        /\ status' = "waiting_approval"
        /\ UNCHANGED <<adopted, attempts>>
    BY <1>2 DEF NextPark, headVars
  <2> QED
    BY <2>1, ConsistentEngage DEF Active
<1>3. ASSUME NEW h \in Node, NextDispatch(a, h) PROVE Consistent'
  <2>1. /\ StopsAt(h) /\ nodeStatus[h] = "pending"
        /\ nodeStatus' = [SkippedTo(h) EXCEPT ![h] = "running"]
        /\ UNCHANGED <<status, adopted>>
        /\ \A n \in Node : n # h => attempts'[n] = attempts[n]
    BY <1>3 DEF NextDispatch, headVars, TypeOK
  <2> QED
    BY <2>1, ConsistentEngage DEF Active
<1> QED
  BY <1>1, <1>2, <1>3, ConsistentNextActive, ConsistentNextExhausted DEF NextCommand

-----------------------------------------------------------------------------
(* Commands that move one engaged node to a status of its own.             *)

(***************************************************************************)
(* The engaged node n leaves for an outcome that is not pending.  It was   *)
(* the only engaged node, so the run's new status must only match that     *)
(* outcome: this is the argument for record, approve, reject and for       *)
(* skipping the blocker.                                                   *)
(***************************************************************************)
LEMMA ConsistentSettle ==
    ASSUME TypeOK, Consistent, Exists, NEW n \in Node,
           nodeStatus[n] \in {"running", "waiting_approval"},
           NEW s \in {"ok", "failed", "rejected"},
           nodeStatus' = [nodeStatus EXCEPT ![n] = s],
           s = "ok" => \/ status' = "running"
                       \/ status' = status /\ nodeStatus[n] = "running",
           s = "failed" => status' = "failed",
           s = "rejected" => status' = "rejected",
           UNCHANGED <<adopted, attempts>>
    PROVE  Consistent'
<1> USE DEF TypeOK
<1>1. \A m \in Node \ {n} : nodeStatus[m] \notin Engaged /\ nodeStatus'[m] = nodeStatus[m]
  BY DEF Consistent, AtMostOneEngaged, Engaged
<1>2. nodeStatus'[n] = s
  OBVIOUS
<1>3. status \in {"running", "waiting_approval", "cancelled"}
  BY DEF Consistent, StatusAgrees
<1>4. \A m \in Node : nodeStatus[m] # "rejected"
  BY <1>3 DEF Consistent, StatusAgrees
<1>5. status' \in {"running", "cancelled", "failed", "rejected"} /\ status' \in RunStatus
  <2>1. nodeStatus[n] = "running" => status \in {"running", "cancelled"}
    BY DEF Consistent, StatusAgrees
  <2> QED
    BY <2>1 DEF RunStatus, Terminal
<1>6. s = "failed" <=> status' = "failed"
  BY <1>3
<1>7. s = "rejected" <=> status' = "rejected"
  BY <1>3
<1>8. AtMostOneEngaged'
  BY <1>1 DEF AtMostOneEngaged
<1>9. StatusAgrees'
  BY <1>1, <1>2, <1>4, <1>5, <1>6, <1>7 DEF StatusAgrees, Engaged
<1>10. RecordsMatchFile'
  BY <1>1, <1>2 DEF Consistent, RecordsMatchFile
<1>11. EngagedDepsOk'
  <2>1. DepsOk(adopted, nodeStatus, n)
    BY DEF Consistent, EngagedDepsOk, Engaged
  <2>2. adopted \in Doc /\ \A m \in Deps(adopted, n) : m \in Node
    BY DeclarationType DEF Consistent, AdoptedIsValid
  <2>3. DepsOk(adopted, nodeStatus', n)
    BY <1>1, <2>1, <2>2 DEF DepsOk
  <2> QED
    BY <1>1, <2>3 DEF EngagedDepsOk
<1>12. InFileOrder'
  BY <1>1, <1>2 DEF InFileOrder, Active, Engaged
<1>13. AdoptedIsValid' /\ NoRecordNoHistory'
  BY <1>1, <1>2, <1>5 DEF Consistent, AdoptedIsValid, NoRecordNoHistory, Exists
<1> QED
  BY <1>8, <1>9, <1>10, <1>11, <1>12, <1>13 DEF Consistent

LEMMA ConsistentRecordCommand ==
    ASSUME TypeOK, Consistent, NEW a \in Agent, RecordCommand(a)
    PROVE  Consistent'
<1>1. CASE Record(a)
  <2>1. at[a] \in Node /\ nodeStatus[at[a]] = "running" /\ Exists
        /\ UNCHANGED <<adopted, attempts>>
    BY <1>1 DEF Record, headVars, TypeOK
  <2>2. CASE RecordOk(a)
    BY <2>1, <2>2, ConsistentSettle DEF RecordOk
  <2>3. CASE RecordFailed(a)
    BY <2>1, <2>3, ConsistentSettle DEF RecordFailed
  <2> QED
    BY <1>1, <2>2, <2>3, ConsistentDependsOn
       DEF RecordCommand, RecordRefused, headVars, nodeVars
<1>2. CASE RecordRefused(a)
  BY <1>2, ConsistentDependsOn DEF RecordRefused, headVars, nodeVars
<1> QED
  BY <1>1, <1>2 DEF RecordCommand, RecordOk, RecordFailed

-----------------------------------------------------------------------------
(* The human's commands.                                                   *)

LEMMA ConsistentStart ==
    ASSUME TypeOK, Consistent, Start
    PROVE  Consistent'
<1> USE DEF TypeOK
<1>1. /\ status = "absent" /\ status' = "running"
      /\ yaml \in Doc /\ Valid(yaml) /\ adopted' = yaml
      /\ \A n \in Node : nodeStatus'[n] = IF n \in Ids(yaml) THEN "pending" ELSE "absent"
      /\ attempts' = attempts
  BY DEF Start
<1>2. AtMostOneEngaged' /\ EngagedDepsOk' /\ InFileOrder'
  BY <1>1 DEF AtMostOneEngaged, EngagedDepsOk, InFileOrder, Engaged, Active
<1>3. StatusAgrees'
  BY <1>1 DEF StatusAgrees
<1>4. RecordsMatchFile'
  BY <1>1, DeclarationType DEF RecordsMatchFile
<1>5. AdoptedIsValid' /\ NoRecordNoHistory'
  BY <1>1 DEF Consistent, AdoptedIsValid, NoRecordNoHistory
<1> QED
  BY <1>2, <1>3, <1>4, <1>5 DEF Consistent

\* The run's status changes to one that no node contradicts.
LEMMA ConsistentClose ==
    ASSUME TypeOK, Consistent, Cancel \/ \E force \in BOOLEAN : Clean(force)
    PROVE  Consistent'
<1> USE DEF TypeOK
<1>1. /\ UNCHANGED <<adopted, nodeStatus, attempts>> /\ Exists
      /\ \/ status' = "deleted"
         \/ status' = "cancelled" /\ status \in {"running", "waiting_approval"}
  BY DEF Cancel, Clean, headVars, nodeVars, Exists, RunStatus
<1>2. AtMostOneEngaged' /\ EngagedDepsOk' /\ InFileOrder' /\ RecordsMatchFile'
  BY <1>1 DEF Consistent, AtMostOneEngaged, EngagedDepsOk, InFileOrder,
              RecordsMatchFile, Exists
<1>3. StatusAgrees'
  BY <1>1 DEF Consistent, StatusAgrees, Exists, RunStatus, Terminal
<1>4. AdoptedIsValid' /\ NoRecordNoHistory'
  BY <1>1 DEF Consistent, AdoptedIsValid, NoRecordNoHistory, Exists
<1> QED
  BY <1>2, <1>3, <1>4 DEF Consistent

LEMMA ConsistentSkip ==
    ASSUME TypeOK, Consistent, NEW n \in Node, Skip(n)
    PROVE  Consistent'
<1> USE DEF TypeOK
<1>1. /\ Exists /\ nodeStatus[n] \notin {"absent", "ok", "skipped"}
      /\ nodeStatus' = [nodeStatus EXCEPT ![n] = "skipped"]
      /\ status' = IF Blocks(n) /\ status \in {"failed", "waiting_approval"}
                   THEN "running" ELSE status
      /\ UNCHANGED <<adopted, attempts>>
  BY DEF Skip, CanSkip, headVars
<1>2. /\ nodeStatus'[n] = "skipped"
      /\ \A m \in Node \ {n} : nodeStatus'[m] = nodeStatus[m]
  BY <1>1
<1>3. adopted \in Doc
  BY <1>1 DEF Consistent, AdoptedIsValid
<1>4. \A m \in Node : DepsOk(adopted, nodeStatus', m) <=> DepsOk(adopted, nodeStatus, m)
  BY <1>1, <1>2, <1>3, DeclarationType DEF DepsOk
<1>5. AtMostOneEngaged'
  BY <1>2 DEF Consistent, AtMostOneEngaged, Engaged
<1>6. StatusAgrees'
  <2>1. CASE nodeStatus[n] = "failed"
    <3>1. status = "failed" /\ status' = "running"
      BY <1>1, <2>1 DEF Consistent, StatusAgrees, Blocks
    <3>2. \A m \in Node : nodeStatus'[m] \notin Engaged /\ nodeStatus'[m] # "rejected"
      BY <1>1, <1>2, <2>1, <3>1
         DEF Consistent, AtMostOneEngaged, StatusAgrees, Engaged
    <3> QED
      BY <3>1, <3>2 DEF StatusAgrees, Engaged
  <2>2. CASE nodeStatus[n] = "waiting_approval"
    <3>1. status' \in {"running", "cancelled"}
      BY <1>1, <2>2 DEF Consistent, StatusAgrees, Blocks
    <3>2. \A m \in Node : nodeStatus'[m] \notin Engaged /\ nodeStatus'[m] # "rejected"
      BY <1>1, <1>2, <2>2
         DEF Consistent, AtMostOneEngaged, StatusAgrees, Engaged
    <3> QED
      BY <3>1, <3>2 DEF StatusAgrees, Engaged
  <2>3. CASE nodeStatus[n] = "running"
    <3>1. status' = status /\ status \in {"running", "cancelled"}
      BY <1>1, <2>3 DEF Consistent, StatusAgrees
    <3> QED
      BY <1>1, <1>2, <2>3, <3>1 DEF Consistent, StatusAgrees
  <2>4. CASE nodeStatus[n] \in {"pending", "rejected"}
    <3>1. status' = status
      BY <1>1, <2>4 DEF Blocks
    <3> QED
      BY <1>1, <1>2, <2>4, <3>1 DEF Consistent, StatusAgrees, Exists
  <2> QED
    BY <1>1, <2>1, <2>2, <2>3, <2>4 DEF NodeState
<1>7. RecordsMatchFile'
  BY <1>1, <1>2 DEF Consistent, RecordsMatchFile
<1>8. EngagedDepsOk'
  BY <1>1, <1>2, <1>4 DEF Consistent, EngagedDepsOk, Engaged
<1>9. InFileOrder'
  BY <1>1, <1>2, <1>4 DEF Consistent, InFileOrder, Active
<1>10. AdoptedIsValid' /\ NoRecordNoHistory'
  <2>1. status' # "absent"
    BY <1>1 DEF Exists, RunStatus, Terminal
  <2> QED
    BY <1>1, <1>2, <2>1 DEF Consistent, AdoptedIsValid, NoRecordNoHistory
<1> QED
  BY <1>5, <1>6, <1>7, <1>8, <1>9, <1>10 DEF Consistent

(***************************************************************************)
(* Taking over an edited file: the records become those of its ids, and    *)
(* no status changes except that unknown pending nodes go and new ones     *)
(* come.                                                                   *)
(***************************************************************************)
LEMMA AdoptedRecords ==
    ASSUME TypeOK, Consistent, NEW accept \in BOOLEAN, Adopts(accept),
           status \in {"running", "failed"}
    PROVE  /\ yaml \in Doc /\ Valid(yaml)
           /\ ResumedStatus(accept) \in [Node -> NodeState \cup {"absent"}]
           /\ \A n \in Node : ResumedStatus(accept)[n] # "absent" <=> n \in Ids(yaml)
           /\ \A n \in Node : \/ ResumedStatus(accept)[n] = nodeStatus[n]
                              \/ /\ ResumedStatus(accept)[n] = "pending"
                                 /\ nodeStatus[n] = "absent"
                              \/ /\ ResumedStatus(accept)[n] = "absent"
                                 /\ nodeStatus[n] = "pending"
           /\ \A n \in Node : ResumedStatus(accept)[n] = "absent" => attempts'[n] = 0
           /\ \A n \in Node : attempts'[n] = attempts[n] \/ attempts'[n] = 0
<1> USE DEF TypeOK
<1>1. /\ adopted \in Doc /\ Valid(adopted)
      /\ \A n \in Node : nodeStatus[n] # "absent" <=> n \in Ids(adopted)
      /\ \A n \in Node : nodeStatus[n] = "absent" => attempts[n] = 0
  BY DeclarationType DEF Consistent, AdoptedIsValid, RecordsMatchFile,
                         NoRecordNoHistory, Exists, RunStatus, Terminal
<1>2. CASE accept
  <2>1. /\ yaml \in Doc /\ Valid(yaml)
        /\ \A n \in Node : nodeStatus[n] \notin {"absent", "pending"} => n \in Ids(yaml)
        /\ \A n \in Node : attempts'[n] = IF n \in Dropped THEN 0 ELSE attempts[n]
    BY <1>2 DEF Adopts, CanAdopt, AdoptNodes
  <2>2. \A n \in Node : ResumedStatus(accept)[n] =
                          IF n \in Dropped THEN "absent"
                          ELSE IF n \in Added(yaml) THEN "pending" ELSE nodeStatus[n]
    BY <1>2 DEF ResumedStatus, AdoptedStatus
  <2>3. ResumedStatus(accept) \in [Node -> NodeState \cup {"absent"}]
    BY <1>2 DEF ResumedStatus, AdoptedStatus, NodeState
  <2>4. \A n \in Node : ResumedStatus(accept)[n] # "absent" <=> n \in Ids(yaml)
    BY <2>1, <2>2 DEF Dropped, Added
  <2> QED
    BY <1>1, <2>1, <2>2, <2>3, <2>4 DEF Dropped, Added
<1>3. CASE ~accept
  BY <1>1, <1>3 DEF Adopts, ResumedStatus
<1> QED
  BY <1>2, <1>3

\* After resume nothing is engaged, rejected or failed, and the run is running.
LEMMA ConsistentIdle ==
    ASSUME TypeOK, Consistent, TypeOK',
           status' = "running", adopted' \in Doc, Valid(adopted'),
           \A n \in Node : nodeStatus'[n] \in {"absent", "pending", "ok", "skipped"},
           \A n \in Node : nodeStatus'[n] # "absent" <=> n \in Ids(adopted'),
           \A n \in Node : nodeStatus'[n] = "absent" => attempts'[n] = 0
    PROVE  Consistent'
<1>1. AtMostOneEngaged' /\ EngagedDepsOk' /\ InFileOrder'
  BY DEF AtMostOneEngaged, EngagedDepsOk, InFileOrder, Engaged, Active
<1>2. StatusAgrees'
  BY DEF StatusAgrees
<1>3. RecordsMatchFile'
  BY DeclarationType DEF RecordsMatchFile
<1>4. AdoptedIsValid' /\ NoRecordNoHistory'
  BY DEF AdoptedIsValid, NoRecordNoHistory
<1> QED
  BY <1>1, <1>2, <1>3, <1>4 DEF Consistent

LEMMA ConsistentResumeNode ==
    ASSUME TypeOK, Consistent, TypeOK', NEW accept \in BOOLEAN, NEW force \in BOOLEAN,
           NEW t \in Node, ResumeNode(accept, force, t)
    PROVE  Consistent'
<1> USE DEF TypeOK
<1> DEFINE ns == ResumedStatus(accept)
<1>1. /\ status \in {"running", "failed"} /\ Adopts(accept)
      /\ t \in Interrupted
      /\ status' = "running" /\ adopted' = yaml
      /\ nodeStatus' = [ns EXCEPT ![t] = "pending"]
  BY DEF ResumeNode, First
<1>2. /\ yaml \in Doc /\ Valid(yaml)
      /\ ns \in [Node -> NodeState \cup {"absent"}]
      /\ \A n \in Node : ns[n] # "absent" <=> n \in Ids(yaml)
      /\ \A n \in Node : \/ ns[n] = nodeStatus[n]
                         \/ ns[n] = "pending" /\ nodeStatus[n] = "absent"
                         \/ ns[n] = "absent" /\ nodeStatus[n] = "pending"
      /\ \A n \in Node : ns[n] = "absent" => attempts'[n] = 0
  BY <1>1, AdoptedRecords
<1>3. nodeStatus[t] \in {"failed", "running"}
  BY <1>1 DEF Interrupted
<1>4. \A n \in Node \ {t} : nodeStatus[n] \notin Engaged
  BY <1>3 DEF Consistent, AtMostOneEngaged, Engaged
<1>5. \A n \in Node : nodeStatus[n] # "rejected"
  BY <1>1 DEF Consistent, StatusAgrees, Exists, RunStatus, Terminal
<1>6. \A n \in Node \ {t} : nodeStatus[n] \in {"absent", "pending", "ok", "skipped"}
  BY <1>4, <1>5 DEF Engaged, NodeState
<1>7. nodeStatus'[t] = "pending" /\ \A n \in Node \ {t} : nodeStatus'[n] = ns[n]
  BY <1>1, <1>2
<1>8. \A n \in Node : nodeStatus'[n] \in {"absent", "pending", "ok", "skipped"}
  BY <1>2, <1>6, <1>7
<1>9. \A n \in Node : nodeStatus'[n] # "absent" <=> n \in Ids(yaml)
  BY <1>2, <1>3, <1>7
<1>10. \A n \in Node : nodeStatus'[n] = "absent" => attempts'[n] = 0
  BY <1>2, <1>7
<1> QED
  BY <1>1, <1>2, <1>8, <1>9, <1>10, ConsistentIdle

LEMMA ConsistentResumeNothing ==
    ASSUME TypeOK, Consistent, TypeOK', NEW accept \in BOOLEAN, ResumeNothing(accept)
    PROVE  Consistent'
<1> USE DEF TypeOK
<1> DEFINE ns == ResumedStatus(accept)
<1>1. /\ status \in {"running", "failed"} /\ Adopts(accept)
      /\ Interrupted = {}
      /\ status' = "running" /\ adopted' = yaml
      /\ nodeStatus' = ns
  BY DEF ResumeNothing
<1>2. /\ yaml \in Doc /\ Valid(yaml)
      /\ \A n \in Node : ns[n] # "absent" <=> n \in Ids(yaml)
      /\ \A n \in Node : \/ ns[n] = nodeStatus[n]
                         \/ ns[n] = "pending" /\ nodeStatus[n] = "absent"
                         \/ ns[n] = "absent" /\ nodeStatus[n] = "pending"
      /\ \A n \in Node : ns[n] = "absent" => attempts'[n] = 0
  BY <1>1, AdoptedRecords
<1>3. \A n \in Node : nodeStatus[n] \in {"absent", "pending", "ok", "skipped"}
  BY <1>1 DEF Interrupted, Consistent, StatusAgrees, Exists, RunStatus, Terminal, NodeState
<1> QED
  BY <1>1, <1>2, <1>3, ConsistentIdle

LEMMA ConsistentHumanCommand ==
    ASSUME TypeOK, Consistent, TypeOK', HumanCommand
    PROVE  Consistent'
<1>1. ASSUME NEW n \in Node, Approve(n) \/ Reject(n) PROVE Consistent'
  <2>1. /\ nodeStatus[n] = "waiting_approval" /\ Exists
        /\ UNCHANGED <<adopted, attempts>>
    BY <1>1 DEF Approve, Reject, Decide, First, Waiting, headVars
  <2>2. CASE Approve(n)
    <3>1. nodeStatus' = [nodeStatus EXCEPT ![n] = "ok"] /\ status' = "running"
      BY <2>2 DEF Approve, Decide
    <3> QED
      BY <2>1, <3>1, ConsistentSettle
  <2>3. CASE Reject(n)
    BY <2>1, <2>3, ConsistentSettle DEF Reject, Decide
  <2> QED
    BY <1>1, <2>2, <2>3
<1>2. CASE SetKanban
  BY <1>2, ConsistentDependsOn DEF SetKanban, headVars, nodeVars
<1>3. CASE Start
  BY <1>3, ConsistentStart
<1>4. ASSUME NEW force \in BOOLEAN, Cancel \/ Clean(force) PROVE Consistent'
  BY <1>4, ConsistentClose
<1>5. ASSUME NEW n \in Node, Skip(n) PROVE Consistent'
  BY <1>5, ConsistentSkip
<1>6. ASSUME NEW accept \in BOOLEAN, NEW force \in BOOLEAN, NEW t \in Node,
             ResumeNode(accept, force, t)
      PROVE  Consistent'
  BY <1>6, ConsistentResumeNode
<1>7. ASSUME NEW accept \in BOOLEAN, ResumeNothing(accept) PROVE Consistent'
  BY <1>7, ConsistentResumeNothing
<1> QED
  BY <1>1, <1>2, <1>3, <1>4, <1>5, <1>6, <1>7 DEF HumanCommand

LEMMA ConsistentEnvironment ==
    ASSUME TypeOK, Consistent, Environment
    PROVE  Consistent'
BY ConsistentDependsOn DEF Environment, EditYaml, AgentCrash, TimePasses, headVars, nodeVars

LEMMA ConsistentInit == Init => Consistent
BY DEF Init, Consistent, AtMostOneEngaged, StatusAgrees, RecordsMatchFile, EngagedDepsOk,
       InFileOrder, AdoptedIsValid, NoRecordNoHistory, Engaged, Active, Exists,
       RunStatus, Terminal

LEMMA ConsistentStep == TypeOK /\ TypeOK' /\ Consistent /\ [Next]_vars => Consistent'
<1>1. Consistent /\ UNCHANGED vars => Consistent'
  BY ConsistentDependsOn DEF vars, headVars, nodeVars
<1> QED
  BY <1>1, ConsistentNextCommand, ConsistentRecordCommand, ConsistentHumanCommand,
     ConsistentEnvironment DEF Next

\* The inductive invariant, of which each theorem below is a part.
LEMMA ConsistentAlways == Spec => []Consistent
  BY ConsistentInit, ConsistentStep, TypeCorrect, PTL DEF Spec

(***************************************************************************)
(* One node at a time: the guarantee behind "in_progress", kept without a  *)
(* lock by the scan's order and by who may write which status.             *)
(***************************************************************************)
THEOREM OneEngagedAlways == Spec => []AtMostOneEngaged
<1>1. Consistent => AtMostOneEngaged
  BY DEF Consistent
<1> QED
  BY <1>1, ConsistentAlways, PTL

\* The run's status never drifts from the node statuses, whichever command
\* wrote last.
THEOREM StatusAgreesAlways == Spec => []StatusAgrees
<1>1. Consistent => StatusAgrees
  BY DEF Consistent
<1> QED
  BY <1>1, ConsistentAlways, PTL

\* The node records are exactly those of the adopted file, after every
\* resume --accept-changes.
THEOREM RecordsMatchFileAlways == Spec => []RecordsMatchFile
<1>1. Consistent => RecordsMatchFile
  BY DEF Consistent
<1> QED
  BY <1>1, ConsistentAlways, PTL

\* Whatever runs, waits or has failed has its dependencies ok, and while it
\* runs or waits no node before it in the file could have gone first.
THEOREM ScheduleAlways == Spec => [](EngagedDepsOk /\ InFileOrder)
<1>1. Consistent => EngagedDepsOk /\ InFileOrder
  BY DEF Consistent
<1> QED
  BY <1>1, ConsistentAlways, PTL

-----------------------------------------------------------------------------
(* next is never stalled.                                                  *)

LEMMA ReplyStep ==
    ASSUME TypeOK, Consistent, NeverStalled, [Next]_vars
    PROVE  NeverStalled'
<1> USE DEF NeverStalled
<1>1. ASSUME NEW a \in Agent, NextCommand(a) PROVE NeverStalled'
  <2>1. CASE NextTerminal(a) \/ NextRefused(a)
    BY <2>1 DEF NextTerminal, NextRefused, Terminal
  <2>2. ASSUME NEW h \in Node, NextActive(a, h) PROVE NeverStalled'
    BY <2>2 DEF NextActive
  <2>3. ASSUME NEW h \in Node, NextPark(a, h) PROVE NeverStalled'
    BY <2>3 DEF NextPark
  <2>4. ASSUME NEW h \in Node, NextDispatch(a, h) PROVE NeverStalled'
    BY <2>4 DEF NextDispatch
  <2>5. CASE NextExhausted(a)
    BY <2>5, ExhaustedIsDone
  <2> QED
    BY <1>1, <2>1, <2>2, <2>3, <2>4, <2>5 DEF NextCommand
<1>2. ASSUME NEW a \in Agent, RecordCommand(a) PROVE NeverStalled'
  BY <1>2 DEF RecordCommand, RecordOk, RecordFailed, RecordRefused, Record
<1>3. CASE HumanCommand
  BY <1>3 DEF HumanCommand, Start, SetKanban, Cancel, Approve, Reject, Decide,
              Skip, Clean, ResumeNode, ResumeNothing
<1>4. CASE Environment
  BY <1>4 DEF Environment, EditYaml, AgentCrash, TimePasses
<1>5. CASE UNCHANGED vars
  BY <1>5 DEF vars
<1> QED
  BY <1>1, <1>2, <1>3, <1>4, <1>5 DEF Next

(***************************************************************************)
(* next never answers "stalled": on a valid file, when nothing is engaged, *)
(* the scan finds a node to hand out or settles the last one.              *)
(***************************************************************************)
THEOREM NeverStalledAlways == Spec => []NeverStalled
<1>1. Init => NeverStalled
  BY DEF Init, NeverStalled
<1>2. TypeOK /\ Consistent /\ NeverStalled /\ [Next]_vars => NeverStalled'
  BY ReplyStep
<1> QED
  BY <1>1, <1>2, TypeCorrect, ConsistentAlways, PTL DEF Spec

-----------------------------------------------------------------------------
(* Nobody leaves a run that needs them.                                    *)

\* While nothing has interfered the file is the one the run was given.
OnTheFile == status = "running" /\ tended => yaml = adopted

Engages(a) == at[a] = Asking \/ (at[a] \in Node /\ nodeStatus[at[a]] = "running")

\* next: who leaves the loop is told of another session that executes the node.
LEMMA AttendedNext ==
    ASSUME TypeOK, Consistent, Attended, OnTheFile, NEW a \in Agent, NextCommand(a)
    PROVE  Attended' /\ OnTheFile'
<1> USE DEF TypeOK
<1>1. Idle \notin Node /\ Asking \notin Node /\ Idle # Asking
  BY RunAssumption
<1>2. CASE NextTerminal(a)
  BY <1>2 DEF NextTerminal, Attended, OnTheFile, Terminal, headVars
<1>3. CASE NextRefused(a)
  <2>1. UNCHANGED <<yaml, adopted, status, tended>>
    BY <1>3 DEF NextRefused, headVars
  <2>2. status = "running" => ~tended
    BY <1>3 DEF NextRefused, OnTheFile, Exists, RunStatus
  <2> QED
    BY <2>1, <2>2 DEF Attended, OnTheFile
<1>4. ASSUME NEW h \in Node, NextActive(a, h) PROVE Attended' /\ OnTheFile'
  <2>1. /\ UNCHANGED <<yaml, adopted, status, tended>>
        /\ at[a] \in {Idle, Asking} /\ at' = [at EXCEPT ![a] = Idle]
        /\ nodeStatus[h] \in Active
        /\ SkipsOnly(nodeStatus, nodeStatus')
    BY <1>4, AfterSkips DEF NextActive, MayAsk, Stop, headVars
  <2> SUFFICES ASSUME status = "running", tended PROVE Attended'
    BY <2>1 DEF Attended, OnTheFile
  <2>2. nodeStatus[h] = "running"
    BY <2>1 DEF Consistent, StatusAgrees, Exists, RunStatus, Active
  <2>3. PICK b \in Agent : at[b] = h
    BY <2>2 DEF Attended
  <2>4. at'[b] = h /\ nodeStatus'[h] = "running"
    BY <1>1, <2>1, <2>2, <2>3 DEF SkipsOnly
  <2>5. ASSUME NEW n \in Node, nodeStatus'[n] = "running" PROVE n = h
    BY <2>1, <2>2, <2>5 DEF SkipsOnly, Consistent, AtMostOneEngaged, Engaged
  <2> QED
    BY <2>4, <2>5 DEF Attended
<1>5. ASSUME NEW h \in Node, NextPark(a, h) PROVE Attended' /\ OnTheFile'
  BY <1>5 DEF NextPark, Attended, OnTheFile
<1>6. ASSUME NEW h \in Node, NextDispatch(a, h) PROVE Attended' /\ OnTheFile'
  <2>1. /\ StopsAt(h) /\ nodeStatus[h] = "pending"
        /\ at' = [at EXCEPT ![a] = h]
        /\ nodeStatus' = [SkippedTo(h) EXCEPT ![h] = "running"]
        /\ UNCHANGED <<yaml, adopted>>
    BY <1>6 DEF NextDispatch, headVars
  <2>2. /\ \A n \in Node : nodeStatus[n] \notin Engaged
        /\ SkippedTo(h) \in [Node -> NodeState \cup {"absent"}]
        /\ SkipsOnly(nodeStatus, SkippedTo(h))
    BY <2>1, PendingStopIsAlone, AfterSkips
  <2>3. at'[a] = h /\ nodeStatus'[h] = "running"
    BY <2>1, <2>2
  <2>4. ASSUME NEW n \in Node, nodeStatus'[n] = "running" PROVE n = h
    BY <2>1, <2>2, <2>4 DEF SkipsOnly, Engaged
  <2> QED
    BY <2>1, <2>3, <2>4 DEF Attended, OnTheFile, StopsAt, Scans
<1>7. CASE NextExhausted(a)
  BY <1>7, ExhaustedIsDone DEF Attended, OnTheFile
<1> QED
  BY <1>2, <1>3, <1>4, <1>5, <1>6, <1>7 DEF NextCommand

\* record: a session goes on to ask, or closes the run, or was not the one.
LEMMA AttendedRecord ==
    ASSUME TypeOK, Consistent, Attended, OnTheFile, NEW a \in Agent, RecordCommand(a)
    PROVE  Attended' /\ OnTheFile'
<1> USE DEF TypeOK
<1>1. Idle \notin Node /\ Asking \notin Node /\ Idle # Asking
  BY RunAssumption
<1>2. CASE RecordOk(a)
  <2>1. /\ at[a] \in Node /\ nodeStatus[at[a]] = "running"
        /\ at' = [at EXCEPT ![a] = Asking]
        /\ nodeStatus' = [nodeStatus EXCEPT ![at[a]] = "ok"]
        /\ UNCHANGED <<yaml, adopted, status, tended>>
    BY <1>2 DEF RecordOk, Record, GoesOn, headVars
  <2>2. \A n \in Node : nodeStatus'[n] # "running"
    BY <2>1 DEF Consistent, AtMostOneEngaged, Engaged
  <2> QED
    BY <2>1, <2>2 DEF Attended, OnTheFile
<1>3. CASE RecordFailed(a)
  BY <1>3 DEF RecordFailed, Attended, OnTheFile
<1>4. CASE RecordRefused(a)
  <2>1. /\ Exists => nodeStatus[at[a]] # "running"
        /\ at[a] \in Node /\ at' = [at EXCEPT ![a] = Idle]
        /\ UNCHANGED <<yaml, adopted, status, tended, nodeStatus>>
    BY <1>4 DEF RecordRefused, Stop, headVars, nodeVars
  <2> SUFFICES ASSUME status = "running", tended PROVE Attended'
    BY <2>1 DEF Attended, OnTheFile
  <2>2. nodeStatus[at[a]] # "running"
    BY <2>1 DEF Exists, RunStatus
  <2>3. \A b \in Agent \ {a} : at'[b] = at[b]
    BY <2>1
  <2>4. PICK b \in Agent : Engages(b)
    BY DEF Attended, Engages
  <2>5. b # a
    BY <1>1, <2>1, <2>2, <2>4 DEF Engages
  <2>6. at'[b] = Asking \/ (at'[b] \in Node /\ nodeStatus'[at'[b]] = "running")
    BY <2>1, <2>3, <2>4, <2>5 DEF Engages
  <2>7. ASSUME NEW n \in Node, nodeStatus'[n] = "running"
        PROVE  \E c \in Agent : at'[c] = n
    <3>1. PICK c \in Agent : at[c] = n
      BY <2>1, <2>7 DEF Attended
    <3>2. c # a
      BY <2>1, <2>2, <2>7, <3>1
    <3> QED
      BY <2>3, <3>1, <3>2
  <2> QED
    BY <2>6, <2>7 DEF Attended
<1> QED
  BY <1>2, <1>3, <1>4 DEF RecordCommand

LEMMA AttendedStep ==
    ASSUME TypeOK, Consistent, Attended, OnTheFile, [Next]_vars
    PROVE  Attended' /\ OnTheFile'
<1>1. CASE SetKanban
  BY <1>1 DEF SetKanban, Attended, OnTheFile, nodeVars
<1>2. CASE HumanCommand
  <2>1. CASE tended' = FALSE
    BY <2>1 DEF Attended, OnTheFile
  <2> QED
    BY <1>1, <1>2, <2>1 DEF HumanCommand, Start, Cancel, Approve, Reject, Decide, Skip,
                            Clean, ResumeNode, ResumeNothing, Interferes
<1>3. ASSUME NEW n \in Node, TimePasses(n) PROVE Attended' /\ OnTheFile'
  BY <1>3 DEF TimePasses, Attended, OnTheFile, headVars
<1>4. CASE Environment
  <2>1. CASE tended' = FALSE
    BY <2>1 DEF Attended, OnTheFile
  <2> QED
    BY <1>3, <1>4, <2>1 DEF Environment, EditYaml, AgentCrash, Interferes
<1>5. CASE UNCHANGED vars
  BY <1>5 DEF vars, headVars, nodeVars, Attended, OnTheFile
<1> QED
  BY <1>2, <1>4, <1>5, AttendedNext, AttendedRecord DEF Next

(***************************************************************************)
(* Nobody leaves a run that needs them: as long as no human, edit or death *)
(* interferes, a run that is "running" has a session that executes its     *)
(* node or will call next, although every session that meets another one,  *)
(* or an error, stops for good.  There is no lock and no poll; it holds    *)
(* because one node runs at a time and only its session is told to go on.  *)
(***************************************************************************)
THEOREM AttendedAlways == Spec => []Attended
<1>1. Init => Attended /\ OnTheFile
  BY DEF Init, Attended, OnTheFile
<1>2. TypeOK /\ Consistent /\ (Attended /\ OnTheFile) /\ [Next]_vars
        => (Attended /\ OnTheFile)'
  BY AttendedStep
<1> QED
  BY <1>1, <1>2, TypeCorrect, ConsistentAlways, PTL DEF Spec

-----------------------------------------------------------------------------
(* What no step does.                                                      *)

\* The late answer that a cancelled run still takes.
LateAnswer ==
    \E n \in Node : /\ nodeStatus[n] \in Active
                    /\ nodeStatus'[n] \in {"ok", "failed", "rejected"}

LEMMA ClosedStep ==
    ASSUME TypeOK, Consistent, [Next]_vars,
           status \in {"done", "rejected", "cancelled"}
    PROVE  \/ status' \in {status, "deleted"}
           \/ status = "cancelled" /\ LateAnswer
<1> DEFINE Stays == \/ status' \in {status, "deleted"}
                    \/ status = "cancelled" /\ LateAnswer
<1>1. /\ status # "cancelled" => \A n \in Node : nodeStatus[n] \notin Active
      /\ Exists
  BY DEF Consistent, StatusAgrees, Exists, RunStatus, Terminal, Active
<1>2. ASSUME NEW a \in Agent, NextCommand(a) PROVE Stays
  <2>1. ~Scans
    BY DEF Scans, Terminal
  <2>2. \A h \in Node : ~StopsAt(h)
    BY <2>1 DEF StopsAt
  <2>3. NextTerminal(a) \/ NextRefused(a)
    BY <1>2, <2>1, <2>2 DEF NextCommand, NextActive, NextPark, NextDispatch, NextExhausted
  <2> QED
    BY <2>3 DEF NextTerminal, NextRefused
<1>3. ASSUME NEW a \in Agent, RecordCommand(a) PROVE Stays
  <2>1. CASE RecordFailed(a)
    <3>1. /\ at[a] \in Node /\ nodeStatus[at[a]] = "running"
          /\ nodeStatus' = [nodeStatus EXCEPT ![at[a]] = "failed"]
      BY <2>1 DEF RecordFailed, Record
    <3>2. nodeStatus[at[a]] \in Active /\ nodeStatus'[at[a]] = "failed"
      BY <3>1 DEF TypeOK, Active
    <3> QED
      BY <1>1, <3>1, <3>2 DEF LateAnswer
  <2> QED
    BY <1>3, <2>1 DEF RecordCommand, RecordOk, RecordRefused
<1>4. CASE HumanCommand
  <2>1. ASSUME NEW n \in Node, Approve(n) \/ Reject(n) PROVE Stays
    <3>1. n \in Waiting /\ nodeStatus'[n] \in {"ok", "rejected"}
      BY <2>1 DEF Approve, Reject, Decide, First, TypeOK
    <3>2. nodeStatus[n] \in Active
      BY <3>1 DEF Waiting, Active
    <3> QED
      BY <1>1, <3>1, <3>2 DEF LateAnswer
  <2>2. ~Start /\ ~Cancel
    BY DEF Start, Cancel, Terminal
  <2>3. \A n \in Node : Skip(n) => status' = status
    BY DEF Skip
  <2>4. SetKanban => status' = status
    BY DEF SetKanban
  <2>5. \A force \in BOOLEAN : Clean(force) => status' = "deleted"
    BY DEF Clean
  <2>6. ASSUME NEW n \in Node, Approve(n) \/ Reject(n) \/ Skip(n)
        PROVE  Stays
    BY <2>1, <2>3, <2>6
  <2>7. ASSUME NEW accept \in BOOLEAN, ResumeNothing(accept)
        PROVE  Stays
    BY <2>7 DEF ResumeNothing
  <2>8. ASSUME NEW accept \in BOOLEAN, NEW force \in BOOLEAN, NEW t \in Node,
               ResumeNode(accept, force, t)
        PROVE  Stays
    BY <2>8 DEF ResumeNode
  <2> QED
    BY <1>4, <2>2, <2>4, <2>5, <2>6, <2>7, <2>8 DEF HumanCommand
<1>5. CASE Environment
  BY <1>5 DEF Environment, EditYaml, AgentCrash, TimePasses
<1>6. CASE UNCHANGED vars
  BY <1>6 DEF vars
<1> QED
  BY <1>2, <1>3, <1>4, <1>5, <1>6 DEF Next

(***************************************************************************)
(* A closed run is not reopened.  Nothing in record or approve asks for    *)
(* the run's status: a done or rejected run is safe because none of its    *)
(* nodes is running or waiting; a cancelled run may keep one such node,    *)
(* and the answer about that node is the only thing that leads out of it.  *)
(***************************************************************************)
THEOREM ClosedStaysClosedAlways == Spec => ClosedStaysClosed
<1>1. TypeOK /\ Consistent /\ [Next]_vars =>
         [(status \in {"done", "rejected", "cancelled"}) =>
            \/ status' \in {status, "deleted"}
            \/ /\ status = "cancelled"
               /\ \E n \in Node : /\ nodeStatus[n] \in Active
                                  /\ nodeStatus'[n] \in {"ok", "failed", "rejected"}]_vars
  BY ClosedStep DEF LateAnswer
<1> QED
  BY <1>1, TypeCorrect, ConsistentAlways, PTL DEF Spec, ClosedStaysClosed

LEMMA OkStep ==
    ASSUME TypeOK, Consistent, [Next]_vars, NEW n \in Node, nodeStatus[n] = "ok"
    PROVE  nodeStatus'[n] = "ok" /\ summary'[n] = summary[n]
<1> USE DEF TypeOK
<1>1. ASSUME NEW a \in Agent, NextCommand(a) PROVE nodeStatus'[n] = "ok" /\ summary'[n] = summary[n]
  <2>1. summary' = summary
    BY <1>1 DEF NextCommand, NextTerminal, NextRefused, NextActive, NextPark, NextDispatch,
                NextExhausted, nodeVars
  <2>2. CASE NextTerminal(a) \/ NextRefused(a)
    BY <2>1, <2>2 DEF NextTerminal, NextRefused, nodeVars
  <2>3. ASSUME NEW h \in Node, NextActive(a, h) \/ NextPark(a, h)
                                 \/ NextDispatch(a, h)
        PROVE  nodeStatus'[n] = "ok"
    <3>1. StopsAt(h) /\ nodeStatus[h] # "ok"
      BY <2>3 DEF NextActive, NextPark, NextDispatch, Active
    <3>2. SkippedTo(h)[n] = "ok" /\ SkippedTo(h) \in [Node -> NodeState \cup {"absent"}]
      BY <3>1, AfterSkips DEF SkipsOnly
    <3> QED
      BY <2>3, <3>1, <3>2 DEF NextActive, NextPark, NextDispatch
  <2>4. CASE NextExhausted(a)
    BY <2>1, <2>4, ExhaustedIsDone DEF SkipsOnly
  <2> QED
    BY <1>1, <2>1, <2>2, <2>3, <2>4 DEF NextCommand
<1>2. ASSUME NEW a \in Agent, RecordCommand(a)
      PROVE  nodeStatus'[n] = "ok" /\ summary'[n] = summary[n]
  <2>1. Record(a) => at[a] # n
    BY DEF Record
  <2> QED
    BY <1>2, <2>1 DEF RecordCommand, RecordOk, RecordFailed, RecordRefused, nodeVars
<1>3. CASE HumanCommand
  <2>1. ~Start
    BY DEF Start, Consistent, NoRecordNoHistory
  <2>2. \A m \in Node : Approve(m) \/ Reject(m) \/ Skip(m) =>
           nodeStatus'[n] = "ok" /\ summary'[n] = summary[n]
    BY DEF Approve, Reject, Decide, First, Waiting, Skip, CanSkip
  <2>3. SetKanban \/ Cancel \/ (\E force \in BOOLEAN : Clean(force)) =>
           nodeStatus'[n] = "ok" /\ summary'[n] = summary[n]
    BY DEF SetKanban, Cancel, Clean, nodeVars
  <2>4. ASSUME NEW accept \in BOOLEAN, Adopts(accept), status \in {"running", "failed"}
        PROVE  /\ ResumedStatus(accept)[n] = "ok"
               /\ ResumedStatus(accept) \in [Node -> NodeState \cup {"absent"}]
    BY <2>4, AdoptedRecords
  <2>5. \A accept, force \in BOOLEAN, t \in Node : ResumeNode(accept, force, t) =>
           nodeStatus'[n] = "ok" /\ summary'[n] = summary[n]
    BY <2>4 DEF ResumeNode, First, Interrupted
  <2>6. \A accept \in BOOLEAN : ResumeNothing(accept) =>
           nodeStatus'[n] = "ok" /\ summary'[n] = summary[n]
    BY <2>4 DEF ResumeNothing
  <2> QED
    BY <1>3, <2>1, <2>2, <2>3, <2>5, <2>6 DEF HumanCommand
<1>4. CASE Environment
  BY <1>4 DEF Environment, EditYaml, AgentCrash, TimePasses, nodeVars
<1>5. CASE UNCHANGED vars
  BY <1>5 DEF vars, nodeVars
<1> QED
  BY <1>1, <1>2, <1>3, <1>4, <1>5 DEF Next

(***************************************************************************)
(* What a node has achieved is never undone, nor is its summary, on which  *)
(* later conditions are decided, ever rewritten.                           *)
(***************************************************************************)
THEOREM OkPermanent == Spec => OkIsPermanent
<1>1. TypeOK /\ Consistent /\ [Next]_vars =>
         [\A n \in Node : nodeStatus[n] = "ok" =>
              nodeStatus'[n] = "ok" /\ summary'[n] = summary[n]]_vars
  BY OkStep
<1> QED
  BY <1>1, TypeCorrect, ConsistentAlways, PTL DEF Spec, OkIsPermanent

-----------------------------------------------------------------------------
(* Side effects.                                                           *)

LEMMA ForcedStep ==
    ASSUME TypeOK, Consistent, ForcedAhead, [Next]_vars
    PROVE  ForcedAhead'
<1> USE DEF TypeOK
<1> DEFINE Unstarted == {"absent", "pending"}
<1>1. ASSUME NEW a \in Agent, NextCommand(a) PROVE ForcedAhead'
  <2>1. UNCHANGED <<sideEffects, forced>>
    BY <1>1 DEF NextCommand, NextTerminal, NextRefused, NextActive, NextPark, NextDispatch,
                NextExhausted, nodeVars
  <2>2. CASE NextTerminal(a) \/ NextRefused(a)
    BY <2>1, <2>2 DEF NextTerminal, NextRefused, nodeVars, ForcedAhead
  <2>3. ASSUME NEW h \in Node, NextActive(a, h) PROVE ForcedAhead'
    <3>1. SkipsOnly(nodeStatus, nodeStatus') /\ UNCHANGED attempts
      BY <2>3, AfterSkips DEF NextActive
    <3> QED
      BY <2>1, <3>1 DEF ForcedAhead, SkipsOnly
  <2>4. ASSUME NEW h \in Node, NextPark(a, h) PROVE ForcedAhead'
    <3>1. /\ \A n \in Node : n # h => \/ nodeStatus'[n] = nodeStatus[n]
                                      \/ nodeStatus'[n] = "skipped"
          /\ nodeStatus'[h] = "waiting_approval" /\ UNCHANGED attempts
      BY <2>4, AfterSkips DEF NextPark, SkipsOnly
    <3> QED
      BY <2>1, <3>1 DEF ForcedAhead
  <2>5. ASSUME NEW h \in Node, NextDispatch(a, h) PROVE ForcedAhead'
    <3>1. /\ \A n \in Node : n # h => \/ nodeStatus'[n] = nodeStatus[n]
                                      \/ nodeStatus'[n] = "skipped"
          /\ nodeStatus[h] = "pending" /\ nodeStatus'[h] = "running"
          /\ attempts' = [attempts EXCEPT ![h] = @ + 1]
      BY <2>5, AfterSkips DEF NextDispatch, SkipsOnly
    <3> QED
      BY <2>1, <3>1 DEF ForcedAhead
  <2>6. CASE NextExhausted(a)
    BY <2>1, <2>6, ExhaustedIsDone DEF ForcedAhead, SkipsOnly
  <2> QED
    BY <1>1, <2>2, <2>3, <2>4, <2>5, <2>6 DEF NextCommand
<1>2. ASSUME NEW a \in Agent, RecordCommand(a) PROVE ForcedAhead'
  <2>1. UNCHANGED <<sideEffects, forced, attempts>>
    BY <1>2 DEF RecordCommand, RecordOk, RecordFailed, RecordRefused, Record, nodeVars
  <2>2. \A n \in Node : nodeStatus'[n] \in Unstarted => nodeStatus'[n] = nodeStatus[n]
    BY <1>2 DEF RecordCommand, RecordOk, RecordFailed, RecordRefused, Record, nodeVars
  <2> QED
    BY <2>1, <2>2 DEF ForcedAhead
<1>3. CASE HumanCommand
  <2>1. CASE Start
    <3>1. /\ \A n \in Node : attempts'[n] = 0
          /\ forced' = forced
      BY <2>1 DEF Start, Consistent, NoRecordNoHistory
    <3> QED
      BY <3>1 DEF ForcedAhead
  <2>2. ASSUME NEW n \in Node, Approve(n) \/ Reject(n) \/ Skip(n) PROVE ForcedAhead'
    <3>1. UNCHANGED <<sideEffects, forced, attempts>>
      BY <2>2 DEF Approve, Reject, Decide, Skip
    <3>2. \A m \in Node : nodeStatus'[m] \in Unstarted => nodeStatus'[m] = nodeStatus[m]
      BY <2>2 DEF Approve, Reject, Decide, Skip
    <3> QED
      BY <3>1, <3>2 DEF ForcedAhead
  <2>3. ASSUME SetKanban \/ Cancel \/ \E force \in BOOLEAN : Clean(force)
        PROVE  ForcedAhead'
    BY <2>3 DEF SetKanban, Cancel, Clean, nodeVars, ForcedAhead
  <2>4. ASSUME NEW accept \in BOOLEAN, Adopts(accept), status \in {"running", "failed"}
        PROVE  \A n \in Node :
                  \/ /\ nodeStatus[n] # "absent"
                     /\ ResumedStatus(accept)[n] = nodeStatus[n]
                     /\ sideEffects'[n] = sideEffects[n]
                     /\ attempts'[n] = attempts[n]
                     /\ ResumedForced(accept)[n] = forced[n]
                  \/ /\ ~(nodeStatus[n] \in {"failed", "running"})
                     /\ attempts'[n] = 0 /\ ResumedForced(accept)[n] \in Nat
    <3>0. \A n \in Node : nodeStatus[n] = "absent" => attempts[n] = 0
      BY DEF Consistent, NoRecordNoHistory
    <3>1. CASE accept
      BY <2>4, <3>0, <3>1 DEF Adopts, AdoptNodes, ResumedStatus, AdoptedStatus,
                              ResumedForced, Dropped, Added
    <3>2. CASE ~accept
      BY <2>4, <3>0, <3>2 DEF Adopts, ResumedStatus, ResumedForced
    <3> QED
      BY <3>1, <3>2
  <2>5. ASSUME NEW accept \in BOOLEAN, NEW force \in BOOLEAN, NEW t \in Node,
               ResumeNode(accept, force, t)
        PROVE  ForcedAhead'
    <3>1. /\ Adopts(accept) /\ status \in {"running", "failed"}
          /\ nodeStatus[t] \in {"failed", "running"}
          /\ nodeStatus' = [ResumedStatus(accept) EXCEPT ![t] = "pending"]
          /\ sideEffects[t] => force
          /\ forced' = [ResumedForced(accept) EXCEPT
                          ![t] = IF force /\ sideEffects[t] THEN @ + 1 ELSE @]
      BY <2>5 DEF ResumeNode, First, Interrupted, Permitted
    <3>2. /\ ResumedStatus(accept) \in [Node -> NodeState \cup {"absent"}]
          /\ ResumedForced(accept) \in [Node -> Nat]
          /\ attempts' \in [Node -> Nat]
      BY <3>1, AdoptType
    <3>3. ASSUME NEW n \in Node, n # t, sideEffects'[n]
          PROVE  attempts'[n] <= forced'[n] + (IF nodeStatus'[n] \in Unstarted THEN 0 ELSE 1)
      <4>1. nodeStatus'[n] = ResumedStatus(accept)[n] /\ forced'[n] = ResumedForced(accept)[n]
        BY <3>1, <3>2, <3>3
      <4> QED
        BY <2>4, <3>1, <3>2, <3>3, <4>1 DEF ForcedAhead
    <3>4. ASSUME sideEffects'[t] PROVE attempts'[t] <= forced'[t]
      <4>1. /\ sideEffects'[t] = sideEffects[t] /\ attempts'[t] = attempts[t]
            /\ ResumedForced(accept)[t] = forced[t]
        BY <2>4, <3>1
      <4>2. attempts[t] <= forced[t] + 1
        BY <3>1, <3>4, <4>1 DEF ForcedAhead
      <4>3. forced'[t] = forced[t] + 1
        BY <3>1, <3>2, <3>4, <4>1
      <4> QED
        BY <4>1, <4>2, <4>3
    <3>5. nodeStatus'[t] = "pending"
      BY <3>1, <3>2
    <3>6. ASSUME sideEffects'[t]
          PROVE  attempts'[t] <= forced'[t] + (IF nodeStatus'[t] \in Unstarted THEN 0 ELSE 1)
      <4>1. forced'[t] \in Nat /\ attempts'[t] \in Nat
        BY <3>1, <3>2
      <4> QED
        BY <3>4, <3>5, <3>6, <4>1
    <3> QED
      BY <3>3, <3>6 DEF ForcedAhead
  <2>6. ASSUME NEW accept \in BOOLEAN, ResumeNothing(accept) PROVE ForcedAhead'
    <3>1. /\ Adopts(accept) /\ status \in {"running", "failed"}
          /\ nodeStatus' = ResumedStatus(accept)
          /\ forced' = ResumedForced(accept)
      BY <2>6 DEF ResumeNothing
    <3>2. forced' \in [Node -> Nat] /\ attempts' \in [Node -> Nat]
      BY <3>1, AdoptType
    <3> QED
      BY <2>4, <3>1, <3>2 DEF ForcedAhead
  <2> QED
    BY <1>3, <2>1, <2>2, <2>3, <2>5, <2>6 DEF HumanCommand
<1>4. CASE Environment
  BY <1>4 DEF Environment, EditYaml, AgentCrash, TimePasses, nodeVars, ForcedAhead
<1>5. CASE UNCHANGED vars
  BY <1>5 DEF vars, nodeVars, ForcedAhead
<1> QED
  BY <1>1, <1>2, <1>3, <1>4, <1>5 DEF Next

(***************************************************************************)
(* A node recorded with side effects has run at most once more than it was *)
(* forced: no crash, failure, resume or edit re-runs it silently.          *)
(***************************************************************************)
THEOREM SideEffectsNeedForceAlways == Spec => []SideEffectsNeedForce
<1>1. Init => ForcedAhead
  BY DEF Init, ForcedAhead
<1>2. TypeOK /\ Consistent /\ ForcedAhead /\ [Next]_vars => ForcedAhead'
  BY ForcedStep
<1>3. TypeOK /\ ForcedAhead => SideEffectsNeedForce
  BY DEF TypeOK, ForcedAhead, SideEffectsNeedForce
<1> QED
  BY <1>1, <1>2, <1>3, TypeCorrect, ConsistentAlways, PTL DEF Spec

-----------------------------------------------------------------------------
(***************************************************************************)
(* Kahn's algorithm.  What has been consumed can be read off the state: it *)
(* has no dependency left and is not in the queue.  The count in indeg is  *)
(* what is left of the entries of depends_on, and every set of consumed    *)
(* nodes has a member that depends on none of them: the one consumed first.*)
(***************************************************************************)
Consumed == {n \in Ids(doc) : indeg[n] = 0} \ queue

Grounded(X) == \A S \in SUBSET X : S # {} => \E n \in S : Deps(doc, n) \cap S = {}

Counting ==
    /\ doc \in Doc
    /\ DOMAIN indeg = Ids(doc)
    /\ \A n \in Ids(doc) :
          /\ indeg[n] \in Nat
          /\ indeg[n] = Listed(n) - Cardinality(Deps(doc, n) \cap Consumed)
    /\ queue \subseteq Ids(doc) /\ \A n \in queue : indeg[n] = 0
    /\ seen = Cardinality(Consumed)
    /\ Grounded(Consumed)
    /\ verdict = "accepted" => Consumed = Ids(doc)
    /\ verdict = "cycle" => queue = {} /\ Consumed # Ids(doc)

LEMMA FiniteDeps ==
    ASSUME NEW d \in Doc, NEW n \in Ids(d), NEW X
    PROVE  /\ IsFiniteSet(Ids(d)) /\ IsFiniteSet(Deps(d, n)) /\ IsFiniteSet(Deps(d, n) \cap X)
           /\ Cardinality(Deps(d, n)) \in Nat /\ Cardinality(Deps(d, n) \cap X) \in Nat
           /\ Cardinality(Deps(d, n) \cap X) <= Cardinality(Deps(d, n))
           /\ Cardinality(Deps(d, n) \cap X) = Cardinality(Deps(d, n)) => Deps(d, n) \subseteq X
<1>1. IsFiniteSet(Ids(d)) /\ Deps(d, n) \subseteq Ids(d)
  BY ScanAssumption DEF ScanAssumption
<1>2. IsFiniteSet(Deps(d, n))
  BY <1>1, FS_Subset
<1>3. /\ IsFiniteSet(Deps(d, n) \cap X)
      /\ Cardinality(Deps(d, n) \cap X) <= Cardinality(Deps(d, n))
      /\ Cardinality(Deps(d, n) \cap X) = Cardinality(Deps(d, n)) => Deps(d, n) \cap X = Deps(d, n)
  <2> Deps(d, n) \cap X \in SUBSET Deps(d, n)
    OBVIOUS
  <2> QED
    BY <1>2, FS_Subset
<1> QED
  BY <1>1, <1>2, <1>3, FS_CardinalityType

\* Every entry is counted, the repeated ones twice.
LEMMA ListedCount ==
    ASSUME doc \in Doc, NEW n \in Ids(doc)
    PROVE  /\ Listed(n) \in Nat /\ Listed(n) >= Cardinality(Deps(doc, n))
           /\ Listed(n) = Cardinality(Deps(doc, n))
                <=> \A m \in Deps(doc, n) : <<n, m>> \notin Repeats[doc]
<1> DEFINE R == {m \in Deps(doc, n) : <<n, m>> \in Repeats[doc]}
<1>1. IsFiniteSet(Deps(doc, n)) /\ Cardinality(Deps(doc, n)) \in Nat
  BY FiniteDeps
<1>2. IsFiniteSet(R) /\ Cardinality(R) \in Nat
  BY <1>1, FS_Subset, FS_CardinalityType
<1>3. R = {} <=> \A m \in Deps(doc, n) : <<n, m>> \notin Repeats[doc]
  OBVIOUS
<1>5. R = {} <=> Cardinality(R) = 0
  BY <1>2, FS_EmptySet
<1>4. Listed(n) = Cardinality(Deps(doc, n)) + Cardinality(R)
  BY DEF Listed
<1> HIDE DEF R
<1> QED
  BY <1>1, <1>2, <1>3, <1>4, <1>5

\* A node that is consumed, or may be, has all its dependencies consumed.
LEMMA ReadyIsFree ==
    ASSUME Counting, NEW n \in Ids(doc), indeg[n] = 0
    PROVE  Deps(doc, n) \subseteq Consumed
<1> DEFINE done == Cardinality(Deps(doc, n) \cap Consumed)
<1>1. doc \in Doc /\ indeg[n] = Listed(n) - done
  BY DEF Counting
<1>2. /\ done \in Nat /\ done <= Cardinality(Deps(doc, n)) /\ Cardinality(Deps(doc, n)) \in Nat
      /\ done = Cardinality(Deps(doc, n)) => Deps(doc, n) \subseteq Consumed
  BY <1>1, FiniteDeps
<1>3. Listed(n) \in Nat /\ Listed(n) >= Cardinality(Deps(doc, n))
  BY <1>1, ListedCount
<1> HIDE DEF done
<1> QED
  BY <1>1, <1>2, <1>3

LEMMA CountingInit == LoopInit => Counting
<1> SUFFICES ASSUME LoopInit PROVE Counting
  OBVIOUS
<1>1. doc \in Doc /\ DOMAIN indeg = Ids(doc) /\ queue \subseteq Ids(doc)
  BY DEF LoopInit
<1>2. \A n \in Ids(doc) : indeg[n] = Listed(n) /\ indeg[n] \in Nat
  BY <1>1, ListedCount DEF LoopInit
<1>3. \A n \in queue : indeg[n] = 0
  <2> TAKE n \in queue
  <2>1. n \in Ids(doc) /\ Deps(doc, n) = {}
    BY DEF LoopInit
  <2>2. {m \in Deps(doc, n) : <<n, m>> \in Repeats[doc]} = {}
    BY <2>1
  <2>3. Listed(n) = Cardinality({}) + Cardinality({})
    BY <2>1, <2>2, Zenon DEF Listed
  <2>4. Cardinality({}) = 0
    BY FS_EmptySet
  <2> QED
    BY <1>2, <2>1, <2>3, <2>4
<1>4. Consumed = {}
  <2> SUFFICES ASSUME NEW n \in Ids(doc), indeg[n] = 0
               PROVE  n \in queue
    BY DEF Consumed
  <2>1. Cardinality(Deps(doc, n)) = 0 /\ IsFiniteSet(Deps(doc, n))
    BY <1>1, <1>2, ListedCount, FiniteDeps
  <2> QED
    BY <2>1, FS_EmptySet DEF LoopInit
<1>5. \A n \in Ids(doc) : Cardinality(Deps(doc, n) \cap Consumed) = 0
  BY <1>4, FS_EmptySet
<1>6. Grounded(Consumed)
  BY <1>4 DEF Grounded
<1> QED
  BY <1>1, <1>2, <1>3, <1>4, <1>5, <1>6, FS_EmptySet DEF Counting, LoopInit

LEMMA ConsumeCounts ==
    ASSUME Counting, NEW n \in Node, Consume(n)
    PROVE  Counting'
<1>1. n \in queue /\ n \in Ids(doc) /\ indeg[n] = 0 /\ doc' = doc
  BY DEF Consume, Counting, loopVars
<1>2. Deps(doc, n) \subseteq Consumed /\ n \notin Consumed
  BY <1>1, ReadyIsFree DEF Consumed
<1>3. \A m \in Ids(doc) :
          /\ m \in Dependents(n) <=> n \in Deps(doc, m)
          /\ indeg'[m] = IF m \in Dependents(n) THEN indeg[m] - 1 ELSE indeg[m]
          /\ indeg[m] \in Nat
  BY DEF Consume, Dependents, Counting
<1>4. DOMAIN indeg' = Ids(doc)
  BY DEF Consume, Counting
<1>5. queue' = (queue \ {n}) \cup {m \in Dependents(n) : indeg'[m] = 0}
  BY <1>3 DEF Consume, Dependents, Counting
<1>6. \A m \in Ids(doc) : indeg[m] = 0 => m \notin Dependents(n)
  BY <1>2, <1>3, ReadyIsFree
<1>7. Consumed' = Consumed \cup {n}
  <2>1. Consumed' = {m \in Ids(doc) : indeg'[m] = 0} \ queue'
    BY <1>1 DEF Consumed
  <2>2. ASSUME NEW m \in Ids(doc)
        PROVE  m \in Consumed' <=> m \in Consumed \cup {n}
    <3>1. CASE m = n
      BY <3>1, <1>1, <1>3, <1>5, <1>6, <2>1
    <3>2. CASE m # n /\ indeg[m] = 0
      BY <3>2, <1>3, <1>5, <1>6, <2>1 DEF Consumed
    <3>3. CASE m # n /\ indeg[m] # 0
      BY <3>3, <1>3, <1>5, <2>1 DEF Consumed
    <3> QED
      BY <3>1, <3>2, <3>3
  <2> QED
    BY <1>1, <2>1, <2>2 DEF Consumed
<1>8. Consumed \subseteq Ids(doc) /\ IsFiniteSet(Consumed)
  BY <1>1, FiniteDeps, FS_Subset DEF Consumed, Counting
<1>9. seen' = Cardinality(Consumed')
  <2>1. Cardinality(Consumed \cup {n}) = Cardinality(Consumed) + 1
    BY <1>2, <1>8, FS_AddElement
  <2> QED
    BY <1>7, <2>1 DEF Consume, Counting
<1>10. ASSUME NEW m \in Ids(doc)
       PROVE  /\ indeg'[m] \in Nat
              /\ indeg'[m] = Listed(m)' - Cardinality(Deps(doc, m) \cap Consumed')
  <2>1. Listed(m)' = Listed(m) /\ Listed(m) \in Nat /\ Listed(m) >= Cardinality(Deps(doc, m))
    BY <1>1, ListedCount DEF Listed, Counting
  <2>2. indeg[m] = Listed(m) - Cardinality(Deps(doc, m) \cap Consumed)
    BY DEF Counting
  <2>3. /\ IsFiniteSet(Deps(doc, m) \cap Consumed)
        /\ Cardinality(Deps(doc, m) \cap Consumed) \in Nat
        /\ Cardinality(Deps(doc, m) \cap Consumed') \in Nat
        /\ Cardinality(Deps(doc, m) \cap Consumed') <= Cardinality(Deps(doc, m))
        /\ Cardinality(Deps(doc, m)) \in Nat
    BY FiniteDeps DEF Counting
  <2>4. CASE m \in Dependents(n)
    <3>1. Deps(doc, m) \cap Consumed' = (Deps(doc, m) \cap Consumed) \cup {n}
      BY <1>3, <1>7, <2>4
    <3>2. n \notin Deps(doc, m) \cap Consumed
      BY <1>2
    <3>3. Cardinality(Deps(doc, m) \cap Consumed') = Cardinality(Deps(doc, m) \cap Consumed) + 1
      BY <2>3, <3>1, <3>2, FS_AddElement
    <3> QED
      BY <1>3, <2>1, <2>2, <2>3, <2>4, <3>3
  <2>5. CASE m \notin Dependents(n)
    <3>1. Deps(doc, m) \cap Consumed' = Deps(doc, m) \cap Consumed
      BY <1>3, <1>7, <2>5
    <3> QED
      BY <1>3, <2>1, <2>2, <2>5, <3>1
  <2> QED
    BY <2>4, <2>5
<1>11. Grounded(Consumed)'
  <2> SUFFICES ASSUME NEW S \in SUBSET (Consumed \cup {n}), S # {}
               PROVE  \E m \in S : Deps(doc, m) \cap S = {}
    BY <1>1, <1>7 DEF Grounded
  <2>1. CASE S \subseteq {n}
    BY <2>1, <1>2
  <2>2. CASE ~(S \subseteq {n})
    <3>1. S \ {n} \in SUBSET Consumed /\ S \ {n} # {}
      BY <2>2
    <3>2. PICK m \in S \ {n} : Deps(doc, m) \cap (S \ {n}) = {}
      BY <3>1 DEF Counting, Grounded
    <3>3. Deps(doc, m) \subseteq Consumed
      BY <3>1, <3>2, ReadyIsFree DEF Consumed
    <3> QED
      BY <1>2, <3>2, <3>3
  <2> QED
    BY <2>1, <2>2
<1>12. verdict' = verdict /\ verdict = "checking"
  BY DEF Consume
<1>13. queue' \subseteq Ids(doc) /\ \A m \in queue' : indeg'[m] = 0
  BY <1>3, <1>5, <1>6 DEF Counting, Dependents
<1> QED
  BY <1>1, <1>4, <1>9, <1>10, <1>11, <1>12, <1>13 DEF Counting

LEMMA CountingStep == Counting /\ [LoopNext]_loopVars => Counting'
<1> SUFFICES ASSUME Counting, [LoopNext]_loopVars PROVE Counting'
  OBVIOUS
<1>1. ASSUME NEW n \in Node, Consume(n) PROVE Counting'
  BY <1>1, ConsumeCounts
<1>2. CASE Judge
  <2>1. Consumed \in SUBSET Ids(doc) /\ IsFiniteSet(Ids(doc))
    BY ScanAssumption DEF ScanAssumption, Consumed, Counting
  <2>2. Cardinality(Consumed) = Cardinality(Ids(doc)) => Consumed = Ids(doc)
    BY <2>1, FS_Subset
  <2>3. Consumed' = Consumed /\ \A n : Listed(n)' = Listed(n)
    BY <1>2 DEF Judge, Consumed, Listed
  <2>4. Grounded(Consumed)'
    BY <1>2, <2>3 DEF Counting, Grounded, Judge
  <2> QED
    BY <1>2, <2>2, <2>3, <2>4 DEF Judge, Counting
<1>3. CASE UNCHANGED <<doc, kahn>>
  <2>1. Consumed' = Consumed /\ \A n : Listed(n)' = Listed(n)
    BY <1>3 DEF kahn, Consumed, Listed
  <2>2. Grounded(Consumed)'
    BY <1>3, <2>1 DEF Counting, Grounded
  <2> QED
    BY <1>3, <2>1, <2>2 DEF Counting, kahn
<1>4. [LoopNext]_loopVars => \/ \E n \in Node : Consume(n)
                     \/ Judge
                     \/ UNCHANGED <<doc, kahn>>
  BY DEF LoopNext, loopVars, Begin, given, ReturnAtActive, PassOver, SkipNode, ReturnReady, EndPass, Visits
<1> QED
  BY <1>1, <1>2, <1>3, <1>4

(***************************************************************************)
(* What _detect_cycle decides, whatever order its queue has: it accepts    *)
(* exactly the files whose dependencies form no cycle and in which no node *)
(* lists a dependency twice.                                               *)
(***************************************************************************)
THEOREM KahnFindsCyclesAlways == LoopSpec => []KahnFindsCycles
<1>1. Counting => KahnFindsCycles
  <2> SUFFICES ASSUME Counting PROVE KahnFindsCycles
    OBVIOUS
  <2>1. verdict = "accepted" => Acyclic(doc)
    BY DEF Counting, Grounded, Acyclic
  <2>2. ASSUME verdict = "accepted", NEW n \in Ids(doc)
        PROVE  \A m \in Deps(doc, n) : <<n, m>> \notin Repeats[doc]
    <3>1. doc \in Doc /\ Consumed = Ids(doc)
      BY <2>2 DEF Counting
    <3>2. Deps(doc, n) \cap Consumed = Deps(doc, n)
      BY <3>1, ScanAssumption DEF ScanAssumption
    <3>3. indeg[n] = 0 /\ indeg[n] = Listed(n) - Cardinality(Deps(doc, n))
      BY <3>1, <3>2 DEF Counting, Consumed
    <3>4. Listed(n) \in Nat /\ Cardinality(Deps(doc, n)) \in Nat
      BY <3>1, ListedCount, FiniteDeps
    <3>5. Listed(n) = Cardinality(Deps(doc, n))
      BY <3>3, <3>4
    <3> QED
      BY <3>1, <3>5, ListedCount
  <2>3. ASSUME verdict = "cycle", ~ListedTwice PROVE ~Acyclic(doc)
    <3> DEFINE U == Ids(doc) \ Consumed
    <3>1. U \in SUBSET Ids(doc) /\ U # {} /\ queue = {}
      BY <2>3 DEF Counting, Consumed
    <3>2. ASSUME NEW n \in U PROVE Deps(doc, n) \cap U # {}
      <4>1. indeg[n] # 0 /\ n \in Ids(doc) /\ doc \in Doc
        BY <3>1 DEF Consumed, Counting
      <4>2. Listed(n) = Cardinality(Deps(doc, n))
        BY <2>3, <4>1, ListedCount DEF ListedTwice
      <4>3. Cardinality(Deps(doc, n)) \in Nat
        BY <4>1, FiniteDeps
      <4>4. indeg[n] = Listed(n) - Cardinality(Deps(doc, n) \cap Consumed)
        BY <4>1 DEF Counting
      <4>5. Cardinality(Deps(doc, n)) # Cardinality(Deps(doc, n) \cap Consumed)
        BY <4>1, <4>2, <4>3, <4>4
      <4>6. Deps(doc, n) \subseteq Ids(doc)
        BY <4>1, ScanAssumption DEF ScanAssumption
      <4>7. Deps(doc, n) \cap Consumed # Deps(doc, n)
        BY <4>5
      <4> QED
        BY <4>6, <4>7
    <3> QED
      BY <3>1, <3>2 DEF Acyclic
  <2> QED
    BY <2>1, <2>2, <2>3 DEF KahnFindsCycles, ListedTwice
<1> QED
  BY <1>1, CountingInit, CountingStep, PTL DEF LoopSpec

-----------------------------------------------------------------------------
(***************************************************************************)
(* The scan.  Skipping changes no node that the scan may stop at, so that  *)
(* a pass that did not stop shows that there is none.  In the first pass   *)
(* the skipped nodes are the least set that is closed up to the node just  *)
(* visited; in all passes they are within the least closed set, and equal  *)
(* it when a pass changes nothing.                                         *)
(***************************************************************************)
Resolved == ResolveIn(before)
Skips == {n \in Node : scanned[n] # before[n]}
Visited == Ids(doc) \ todo
Passed == Visited \cap Pending(doc, before)

LeastOfPass ==
    /\ Skips \subseteq Passed
    /\ PassClosed(doc, before, Resolved, Passed, Skips)
    /\ \A X \in SUBSET Passed : PassClosed(doc, before, Resolved, Passed, X) => Skips \subseteq X

InLeast ==
    \A X \in SUBSET Pending(doc, before) : Closed(doc, before, Resolved, X) => Skips \subseteq X

Unchanging == \A n \in Passed : Skippable(doc, before, Resolved, n, Skips) => n \in Skips

InPass ==
    /\ \A m \in Visited, n \in todo : Rank(doc, m) < Rank(doc, n)
    /\ Visited \cap Stops(doc, before, Resolved) = {}
    /\ Stops(doc, before, Resolved) = {} \/ LeastOfPass
    /\ InLeast
    /\ ~changed => Unchanging

Sight ==
    /\ doc \in Doc
    /\ todo \subseteq Ids(doc)
    /\ before \in Statuses
    /\ Skips \subseteq Pending(doc, before)
    /\ scanned = Skipping(before, Skips)
    /\ changed \in BOOLEAN

Scanning ==
    /\ Sight
    /\ result = "scanning" => InPass
    /\ LoopComputesScan

LEMMA ScanningInit == LoopInit => Scanning
<1> SUFFICES ASSUME LoopInit PROVE Scanning
  OBVIOUS
<1>1. Skips = {} /\ before \in Statuses
  BY DEF LoopInit, Skips, Statuses
<1>2. scanned = Skipping(before, Skips)
  BY <1>1 DEF LoopInit, Skipping
<1>3. result = "none" /\ result \notin Node
  BY ScanAssumption DEF LoopInit, ScanAssumption
<1> QED
  BY <1>1, <1>2, <1>3 DEF Scanning, Sight, LoopInit, LoopComputesScan

\* What the loop sees of a node is what the state before the scan says, but for
\* the nodes that the scan has skipped.
LEMMA WhatIsSeen ==
    ASSUME Sight
    PROVE  /\ \A n \in Node : scanned[n] = IF n \in Skips THEN "skipped" ELSE before[n]
           /\ \A n \in Skips : n \in Node /\ before[n] = "pending"
           /\ ResolveIn(scanned) = Resolved
           /\ \A n \in Node :
                 /\ DepsOk(doc, scanned, n) <=> DepsOk(doc, before, n)
                 /\ DepBlocked(doc, scanned, n) <=> DepBlocked(doc, before, n)
                 /\ DepSkipped(n) <=> \E m \in Deps(doc, n) : before[m] = "skipped" \/ m \in Skips
<1>1. DOMAIN before = Node
  BY DEF Sight, Statuses
<1>2. \A n \in Node : scanned[n] = IF n \in Skips THEN "skipped" ELSE before[n]
  BY <1>1 DEF Sight, Skipping
<1>3. \A n \in Skips : n \in Node /\ before[n] = "pending"
  BY DEF Sight, Pending, Skips
<1>4. \A r \in Node : scanned[r] = "ok" <=> before[r] = "ok"
  BY <1>2, <1>3
<1>5. ResolveIn(scanned) = Resolved
  BY <1>4 DEF ResolveIn, Resolved, Ref
<1>6. \A n \in Node : Deps(doc, n) \subseteq Node
  BY DeclarationType DEF Sight
<1> QED
  BY <1>2, <1>3, <1>5, <1>6 DEF DepsOk, DepBlocked, DepSkipped

\* The node that is visited is the next one in file order.
LEMMA NextInOrder ==
    ASSUME Sight, InPass, NEW n \in Node, Visits(n)
    PROVE  /\ n \in Ids(doc) /\ n \in todo
           /\ Visited' = Visited \cup {n} /\ n \notin Visited
           /\ \A m \in Visited : Rank(doc, m) < Rank(doc, n)
           /\ \A m \in todo' : Rank(doc, n) < Rank(doc, m)
           /\ \A m \in Node : Rank(doc, m) \in Nat
<1>1. doc \in Doc /\ doc' = doc /\ todo \subseteq Ids(doc) /\ todo' = todo \ {n} /\ n \in todo
  BY DEF Sight, Visits, given
<1>2. \A m \in todo : Rank(doc, n) <= Rank(doc, m)
  BY DEF Visits
<1>3. \A m \in todo : m # n => Rank(doc, n) < Rank(doc, m)
  BY <1>1, <1>2, DeclarationType
<1>4. Visited' = Visited \cup {n} /\ n \notin Visited
  BY <1>1 DEF Visited
<1> QED
  BY <1>1, <1>3, <1>4, DeclarationType DEF InPass

\* Before a node is visited in the first pass, it has not been skipped.
LEMMA NotYetSkipped ==
    ASSUME Sight, InPass, NEW n \in todo
    PROVE  n \notin Skips \/ Stops(doc, before, Resolved) = {}
BY DEF InPass, LeastOfPass, Passed, Visited

\* A node is passed over only if the scan may neither stop at it nor skip it.
LEMMA PassedOver ==
    ASSUME Sight, InPass, NEW n \in Node, n \in Ids(doc), n \in todo, PassOver(n)
    PROVE  /\ n \notin Stops(doc, before, Resolved)
           /\ n \in Pending(doc, before) =>
                 (Skippable(doc, before, Resolved, n, Skips) => n \in Skips)
<1>1. /\ scanned[n] \notin Active
      /\ scanned[n] = "pending" =>
            DepBlocked(doc, before, n) \/ (~DepSkipped(n) /\ ~DepsOk(doc, before, n))
  BY WhatIsSeen DEF PassOver
<1>2. CASE n \in Skips
  BY <1>2, NotYetSkipped
<1>3. CASE n \notin Skips
  <2>1. scanned[n] = before[n]
    BY <1>3, WhatIsSeen
  <2>2. DepBlocked(doc, before, n) => ~DepsOk(doc, before, n)
    BY DEF DepBlocked, DepsOk
  <2>3. n \notin Stops(doc, before, Resolved)
    BY <1>1, <2>1, <2>2 DEF Stops, Ready
  <2>4. before[n] = "pending" => ~Skippable(doc, before, Resolved, n, Skips)
    BY <1>1, <2>1, WhatIsSeen DEF Skippable
  <2> QED
    BY <2>3, <2>4 DEF Pending
<1> QED
  BY <1>2, <1>3

\* What is skipped may be skipped, and is nothing the scan would have stopped at.
LEMMA SkippedRightly ==
    ASSUME Sight, NEW n \in Node, n \in Ids(doc), SkipNode(n)
    PROVE  /\ n \notin Stops(doc, before, Resolved)
           /\ n \in Pending(doc, before)
           /\ Skippable(doc, before, Resolved, n, Skips)
<1>1. scanned[n] = "pending" /\ before[n] = "pending"
  BY WhatIsSeen DEF SkipNode
<1>2. ~DepBlocked(doc, before, n)
  BY WhatIsSeen DEF SkipNode
<1>3. DepSkipped(n) \/ (DepsOk(doc, before, n) /\ ~WhenHolds(doc, n, Resolved))
  BY WhatIsSeen DEF SkipNode
<1>4. Skippable(doc, before, Resolved, n, Skips)
  BY <1>2, <1>3, WhatIsSeen DEF Skippable
<1>5. DepSkipped(n) => ~DepsOk(doc, before, n)
  BY WhatIsSeen DEF DepsOk
<1> QED
  BY <1>1, <1>3, <1>4, <1>5 DEF Pending, Stops, Ready, Active

\* It is returned at a node only if the scan is to stop there.
LEMMA ReturnedRightly ==
    ASSUME Sight, NEW n \in Node, n \in Ids(doc), ReturnAtActive(n) \/ ReturnReady(n)
    PROVE  n \in Stops(doc, before, Resolved)
BY WhatIsSeen DEF ReturnAtActive, ReturnReady, Stops, Ready, Active

(***************************************************************************)
(* One more node has been visited, and skipped or not.  As all nodes       *)
(* before it in the file have been visited, what the first pass has skipped*)
(* stays the least closed set.                                             *)
(***************************************************************************)
LEMMA LeastStaysLeast ==
    ASSUME Sight, InPass, LeastOfPass, NEW n \in Node, Visits(n),
           NEW new, new = IF n \in Pending(doc, before) /\ Skippable(doc, before, Resolved, n, Skips)
                          THEN Skips \cup {n} ELSE Skips,
           NEW more, more = (Visited \cup {n}) \cap Pending(doc, before)
    PROVE  /\ new \subseteq more
           /\ PassClosed(doc, before, Resolved, more, new)
           /\ \A X \in SUBSET more : PassClosed(doc, before, Resolved, more, X) => new \subseteq X
<1>1. /\ n \in Ids(doc) /\ n \notin Visited
      /\ \A m \in Visited : Rank(doc, m) < Rank(doc, n)
      /\ \A m \in Node : Rank(doc, m) \in Nat
  BY NextInOrder
<1>2. Skips \subseteq Passed /\ Passed \subseteq Visited /\ Visited \subseteq Node
  BY DeclarationType DEF LeastOfPass, Passed, Visited, Sight
<1>3. new \subseteq more
  BY <1>2 DEF Passed
<1>4. \A X \in SUBSET more : /\ \A m \in Passed : Earlier(doc, X, m) = Earlier(doc, X \ {n}, m)
                             /\ Earlier(doc, X, n) = X \ {n}
  <2> TAKE X \in SUBSET more
  <2>1. \A m \in X : m = n \/ m \in Visited
    OBVIOUS
  <2>2. ASSUME NEW m \in Passed PROVE ~(Rank(doc, n) < Rank(doc, m))
    BY <1>1, <1>2
  <2>3. ~(Rank(doc, n) < Rank(doc, n))
    BY <1>1
  <2> QED
    BY <1>1, <2>1, <2>2, <2>3 DEF Earlier
<1>5. n \notin Passed /\ n \notin Skips
  BY <1>1, <1>2
<1>6. new \ {n} = Skips
  BY <1>5
<1>7. PassClosed(doc, before, Resolved, more, new)
  <2> SUFFICES ASSUME NEW m \in more, Skippable(doc, before, Resolved, m, Earlier(doc, new, m))
               PROVE  m \in new
    BY DEF PassClosed
  <2>1. CASE m = n
    <3>1. Earlier(doc, new, n) = Skips
      BY <1>3, <1>4, <1>6
    <3> QED
      BY <2>1, <3>1
  <2>2. CASE m # n
    <3>1. m \in Passed
      BY <2>2 DEF Passed
    <3>2. Earlier(doc, new, m) = Earlier(doc, Skips, m)
      BY <1>3, <1>4, <1>6, <3>1
    <3>3. m \in Skips
      BY <3>1, <3>2 DEF LeastOfPass, PassClosed
    <3> QED
      BY <3>3
  <2> QED
    BY <2>1, <2>2
<1>8. ASSUME NEW X \in SUBSET more, PassClosed(doc, before, Resolved, more, X)
      PROVE  new \subseteq X
  <2>1. X \ {n} \in SUBSET Passed
    BY DEF Passed
  <2>2. PassClosed(doc, before, Resolved, Passed, X \ {n})
    <3> SUFFICES ASSUME NEW m \in Passed,
                        Skippable(doc, before, Resolved, m, Earlier(doc, X \ {n}, m))
                 PROVE  m \in X \ {n}
      BY DEF PassClosed
    <3>1. m \in more /\ m # n
      BY <1>5 DEF Passed
    <3>2. Skippable(doc, before, Resolved, m, Earlier(doc, X, m))
      BY <1>4
    <3> QED
      BY <1>8, <3>1, <3>2 DEF PassClosed
  <2>3. Skips \subseteq X \ {n}
    BY <2>1, <2>2 DEF LeastOfPass
  <2>4. ASSUME n \in new PROVE n \in X
    <3>1. n \in Pending(doc, before) /\ Skippable(doc, before, Resolved, n, Skips)
      BY <1>5, <2>4
    <3>2. Skippable(doc, before, Resolved, n, Earlier(doc, X, n))
      BY <1>4, <2>3, <3>1, SkippableMonotone
    <3> QED
      BY <1>8, <3>1, <3>2 DEF PassClosed
  <2> QED
    BY <2>3, <2>4
<1> QED
  BY <1>3, <1>7, <1>8

LEMMA VisitKeepsPass ==
    ASSUME Sight, InPass, NEW n \in Node, Visits(n),
           n \notin Stops(doc, before, Resolved),
           \/ /\ UNCHANGED <<scanned, changed>>
              /\ n \in Pending(doc, before) =>
                    (Skippable(doc, before, Resolved, n, Skips) => n \in Skips)
           \/ /\ n \in Pending(doc, before) /\ Skippable(doc, before, Resolved, n, Skips)
              /\ scanned' = [scanned EXCEPT ![n] = "skipped"]
              /\ changed' = TRUE
    PROVE  Sight' /\ InPass'
<1>1. UNCHANGED <<doc, before, inputValues, recorded>> /\ todo' = todo \ {n}
  BY DEF Visits, given
<1>2. /\ Resolved' = Resolved
      /\ Pending(doc, before)' = Pending(doc, before)
      /\ Stops(doc, before, Resolved)' = Stops(doc, before, Resolved)
  BY <1>1 DEF Resolved, ResolveIn, Pending, Stops, Ready, Rank, Ids, DepsOk, Deps, WhenHolds, EvalWhen
<1>3. /\ n \in Ids(doc) /\ n \in todo
      /\ Visited' = Visited \cup {n} /\ n \notin Visited
      /\ \A m \in Visited : Rank(doc, m) < Rank(doc, n)
      /\ \A m \in todo' : Rank(doc, n) < Rank(doc, m)
  BY NextInOrder
<1>4. Skips' = IF n \in Pending(doc, before) /\ Skippable(doc, before, Resolved, n, Skips)
               THEN Skips \cup {n} ELSE Skips
  <2>1. CASE /\ UNCHANGED <<scanned, changed>>
             /\ n \in Pending(doc, before) =>
                   (Skippable(doc, before, Resolved, n, Skips) => n \in Skips)
    BY <1>1, <2>1 DEF Skips
  <2>2. CASE /\ n \in Pending(doc, before) /\ Skippable(doc, before, Resolved, n, Skips)
             /\ scanned' = [scanned EXCEPT ![n] = "skipped"]
             /\ changed' = TRUE
    <3>1. DOMAIN scanned = Node
      BY DEF Sight, Skipping, Statuses
    <3>2. before[n] # "skipped"
      BY <2>2 DEF Pending
    <3> QED
      BY <1>1, <2>2, <3>1, <3>2 DEF Skips
  <2> QED
    BY <2>1, <2>2
<1>5. Sight'
  <2>1. scanned' = Skipping(before, Skips')
    <3>1. DOMAIN scanned = Node /\ DOMAIN before = Node
      BY DEF Sight, Skipping, Statuses
    <3>2. \A m \in Node : scanned[m] = IF m \in Skips THEN "skipped" ELSE before[m]
      BY WhatIsSeen
    <3>3. \A m \in Node : scanned'[m] = IF m \in Skips' THEN "skipped" ELSE before[m]
      BY <1>4, <3>1, <3>2
    <3>4. DOMAIN scanned' = Node /\ scanned' = [m \in Node |-> scanned'[m]]
      BY <3>1 DEF Sight, Skipping
    <3> QED
      BY <3>1, <3>3, <3>4 DEF Skipping
  <2> QED
    BY <1>1, <1>2, <1>4, <2>1 DEF Sight
<1>6. InLeast'
  <2> SUFFICES ASSUME NEW X \in SUBSET Pending(doc, before), Closed(doc, before, Resolved, X)
               PROVE  Skips' \subseteq X
    BY <1>1, <1>2 DEF InLeast
  <2>1. Skips \subseteq X
    BY DEF InPass, InLeast
  <2>2. n \in Pending(doc, before) /\ Skippable(doc, before, Resolved, n, Skips) => n \in X
    BY <2>1, SkippableMonotone DEF Closed
  <2> QED
    BY <1>4, <2>1, <2>2
<1>7. Stops(doc, before, Resolved) = {} \/ LeastOfPass'
  <2> SUFFICES ASSUME LeastOfPass PROVE LeastOfPass'
    BY DEF InPass
  <2>1. Passed' = (Visited \cup {n}) \cap Pending(doc, before)
    BY <1>2, <1>3 DEF Passed
  <2>2. /\ Skips' \subseteq Passed'
        /\ PassClosed(doc, before, Resolved, Passed', Skips')
        /\ \A X \in SUBSET Passed' :
              PassClosed(doc, before, Resolved, Passed', X) => Skips' \subseteq X
    BY <1>4, <2>1, LeastStaysLeast
  <2> QED
    BY <1>1, <1>2, <2>2 DEF LeastOfPass
<1>8. ~changed' => Unchanging'
  <2> SUFFICES ASSUME ~changed' PROVE Unchanging'
    OBVIOUS
  <2>1. /\ UNCHANGED <<scanned, changed>>
        /\ n \in Pending(doc, before) =>
              (Skippable(doc, before, Resolved, n, Skips) => n \in Skips)
    OBVIOUS
  <2>2. Skips' = Skips /\ Unchanging
    BY <1>1, <2>1 DEF Skips, InPass
  <2> QED
    BY <1>1, <1>2, <1>3, <2>1, <2>2 DEF Unchanging, Passed
<1>9. /\ \A m \in Visited', k \in todo' : Rank(doc, m) < Rank(doc, k)
      /\ Visited' \cap Stops(doc, before, Resolved) = {}
  BY <1>1, <1>3 DEF InPass
<1> QED
  BY <1>1, <1>2, <1>5, <1>6, <1>7, <1>8, <1>9 DEF InPass

\* A loop that returns has skipped what the closed form says, and no more.
LEMMA ReturnComputes ==
    ASSUME Sight, InPass, NEW n \in Node, Visits(n), n \in Stops(doc, before, Resolved)
    PROVE  /\ FirstStop(doc, before, Resolved, n)
           /\ Skips = PassSkips(doc, before, Resolved, n)
<1>1. /\ n \in Ids(doc) /\ n \in todo
      /\ \A m \in Visited : Rank(doc, m) < Rank(doc, n)
      /\ \A m \in todo : Rank(doc, n) <= Rank(doc, m)
      /\ \A m \in Node : Rank(doc, m) \in Nat
      /\ Ids(doc) \subseteq Node
  BY NextInOrder, DeclarationType DEF Visits, Sight
<1>2. \A m \in Ids(doc) : m \in Visited \/ m \in todo
  BY DEF Visited
<1>3. FirstStop(doc, before, Resolved, n)
  BY <1>1, <1>2 DEF InPass, FirstStop, Stops
<1>4. VisitedBefore(doc, before, n) = Passed
  <2>1. ASSUME NEW m \in Ids(doc)
        PROVE  (Rank(doc, m) < Rank(doc, n)) <=> (m \in Visited)
    <3>1. Rank(doc, m) \in Nat /\ Rank(doc, n) \in Nat
      BY <1>1
    <3>2. CASE m \in Visited
      BY <1>1, <3>2
    <3>3. CASE m \in todo
      <4>1. Rank(doc, n) <= Rank(doc, m) /\ m \notin Visited
        BY <1>1, <3>3 DEF Visited
      <4>2. ~(Rank(doc, m) < Rank(doc, n))
        BY <3>1, <4>1
      <4> QED
        BY <4>1, <4>2
    <3> QED
      BY <1>2, <3>2, <3>3
  <2> QED
    <3>1. VisitedBefore(doc, before, n)
            = {m \in Ids(doc) : before[m] = "pending" /\ Rank(doc, m) < Rank(doc, n)}
      BY DEF VisitedBefore
    <3>2. Passed = {m \in Ids(doc) : before[m] = "pending" /\ m \in Visited}
      BY DEF Passed, Pending, Visited
    <3> QED
      BY <2>1, <3>1, <3>2
<1>5. LeastOfPass
  BY DEF InPass
<1>6. \A m : m \in PassSkips(doc, before, Resolved, n) <=>
             m \in Passed /\ \A X \in SUBSET Passed : PassClosed(doc, before, Resolved, Passed, X) => m \in X
  BY <1>4 DEF PassSkips
<1>7. Skips \in SUBSET Passed
  BY <1>5 DEF LeastOfPass
<1> QED
  BY <1>3, <1>5, <1>6, <1>7 DEF LeastOfPass

LEMMA ExhaustedComputes ==
    ASSUME Sight, InPass, todo = {}
    PROVE  /\ Stops(doc, before, Resolved) = {}
           /\ ~changed => Skips = AllSkips(doc, before, Resolved)
<1>1. Visited = Ids(doc) /\ Passed = Pending(doc, before)
  BY DEF Visited, Passed, Pending
<1>2. Stops(doc, before, Resolved) = {}
  BY <1>1 DEF InPass, Stops
<1>3. ASSUME ~changed PROVE Skips = AllSkips(doc, before, Resolved)
  <2>1. Closed(doc, before, Resolved, Skips) /\ Skips \in SUBSET Pending(doc, before)
    BY <1>1, <1>3 DEF InPass, Unchanging, Closed, Sight
  <2>2. \A X \in SUBSET Pending(doc, before) : Closed(doc, before, Resolved, X) => Skips \subseteq X
    BY DEF InPass, InLeast
  <2>3. \A n : n \in AllSkips(doc, before, Resolved) <=>
               /\ n \in Pending(doc, before)
               /\ \A X \in SUBSET Pending(doc, before) : Closed(doc, before, Resolved, X) => n \in X
    BY DEF AllSkips
  <2> QED
    BY <2>1, <2>2, <2>3
<1> QED
  BY <1>2, <1>3

LEMMA ScanningStep == Scanning /\ [LoopNext]_loopVars => Scanning'
<1> SUFFICES ASSUME Scanning, [LoopNext]_loopVars PROVE Scanning'
  OBVIOUS
<1> Sight
  BY DEF Scanning
<1>0. "none" \notin Node /\ "scanning" \notin Node /\ "exhausted" \notin Node
  BY ScanAssumption DEF ScanAssumption
<1>1. CASE UNCHANGED <<doc, scan>>
  <2>1. UNCHANGED <<doc, inputValues, recorded, before, scanned, todo, changed, result>>
    BY <1>1 DEF scan
  <2>2. Resolved' = Resolved /\ Skips' = Skips /\ Visited' = Visited /\ Passed' = Passed
    BY <2>1 DEF Resolved, ResolveIn, Skips, Visited, Passed
  <2>3. Sight'
    BY <2>1, <2>2 DEF Sight
  <2>4. InPass => InPass'
    BY <2>1, <2>2 DEF InPass, LeastOfPass, InLeast, Unchanging
  <2>5. LoopComputesScan'
    BY <2>1, <2>2 DEF Scanning, LoopComputesScan, ResolveIn
  <2> QED
    BY <2>1, <2>3, <2>4, <2>5 DEF Scanning
<1>2. CASE Begin
  <2>1. /\ doc' = doc /\ before' \in Statuses /\ scanned' = before'
        /\ todo' = Ids(doc) /\ changed' = FALSE /\ result' = "scanning"
    BY <1>2 DEF Begin
  <2>2. Skips' = {} /\ Visited' = {} /\ Passed' = {}
    BY <2>1 DEF Skips, Visited, Passed
  <2>3. Sight'
    BY <2>1, <2>2 DEF Sight, Skipping, Statuses
  <2>4. LeastOfPass' /\ InLeast' /\ Unchanging'
    BY <2>2 DEF LeastOfPass, InLeast, Unchanging, PassClosed
  <2>5. InPass'
    BY <2>2, <2>4 DEF InPass
  <2> QED
    BY <1>0, <2>1, <2>3, <2>5 DEF Scanning, LoopComputesScan
<1>3. ASSUME NEW n \in Node, ReturnAtActive(n) \/ ReturnReady(n)
      PROVE  Scanning'
  <2>1. Visits(n) /\ InPass
    BY <1>3 DEF ReturnAtActive, ReturnReady, Visits, Scanning
  <2>2. n \in Stops(doc, before, Resolved)
    BY <1>3, <2>1, NextInOrder, ReturnedRightly
  <2>3. UNCHANGED <<doc, inputValues, recorded, before, scanned, changed>> /\ todo' = todo \ {n} /\ result' = n
    BY <1>3 DEF ReturnAtActive, ReturnReady, Visits, given
  <2>4. Resolved' = Resolved /\ Skips' = Skips
    BY <2>3 DEF Resolved, ResolveIn, Skips
  <2>5. Sight'
    BY <2>3, <2>4 DEF Sight
  <2>6. LoopComputesScan'
    <3>1. scanned = Skipping(before, Skips)
      BY DEF Sight
    <3>2. /\ FirstStop(doc, before, Resolved, n)
          /\ scanned = Skipping(before, PassSkips(doc, before, Resolved, n))
      BY <2>1, <2>2, <3>1, ReturnComputes
    <3>3. ResolveIn(before)' = Resolved
      BY <2>4 DEF Resolved
    <3> QED
      BY <1>0, <2>3, <3>2, <3>3 DEF LoopComputesScan
  <2> QED
    BY <1>0, <2>3, <2>5, <2>6 DEF Scanning
<1>4. ASSUME NEW n \in Node, PassOver(n) \/ SkipNode(n)
      PROVE  Scanning'
  <2>1. Visits(n) /\ InPass /\ result = "scanning" /\ result' = result
    BY <1>4 DEF PassOver, SkipNode, Visits, Scanning
  <2>2. n \in Ids(doc) /\ n \in todo
    BY <2>1, NextInOrder
  <2>3. CASE PassOver(n)
    <3>1. UNCHANGED <<scanned, changed>>
      BY <2>3 DEF PassOver
    <3> QED
      BY <1>0, <2>1, <2>2, <2>3, <3>1, PassedOver, VisitKeepsPass DEF Scanning, LoopComputesScan
  <2>4. CASE SkipNode(n)
    <3>1. scanned' = [scanned EXCEPT ![n] = "skipped"] /\ changed' = TRUE
      BY <2>4 DEF SkipNode
    <3> QED
      BY <1>0, <2>1, <2>2, <2>4, <3>1, SkippedRightly, VisitKeepsPass DEF Scanning, LoopComputesScan
  <2> QED
    BY <1>4, <2>3, <2>4
<1>5. CASE EndPass
  <2>1. InPass /\ todo = {} /\ UNCHANGED <<doc, inputValues, recorded, before, scanned>> /\ changed' = FALSE
    BY <1>5 DEF EndPass, given, Scanning
  <2>2. Resolved' = Resolved /\ Skips' = Skips
    BY <2>1 DEF Resolved, ResolveIn, Skips
  <2>3. CASE changed
    <3>1. todo' = Ids(doc) /\ result' = "scanning"
      BY <1>5, <2>3 DEF EndPass
    <3>2. Visited' = {} /\ Passed' = {}
      BY <2>1, <3>1 DEF Visited, Passed
    <3>3. Stops(doc, before, Resolved)' = {}
      <4>1. Stops(doc, before, Resolved) = {}
        BY <2>1, ExhaustedComputes
      <4>2. Stops(doc, before, Resolved)' = Stops(doc, before, Resolved)
        BY <2>1, <2>2
      <4> QED
        BY <4>1, <4>2
    <3>4. InLeast' /\ Unchanging'
      BY <2>1, <2>2, <3>2 DEF InPass, InLeast, Unchanging
    <3>5. Sight'
      BY <2>1, <2>2, <3>1 DEF Sight
    <3> QED
      BY <1>0, <3>1, <3>2, <3>3, <3>4, <3>5 DEF Scanning, InPass, LoopComputesScan
  <2>4. CASE ~changed
    <3>1. todo' = todo /\ result' = "exhausted"
      BY <1>5, <2>4 DEF EndPass
    <3>2. Sight'
      BY <2>1, <2>2, <3>1 DEF Sight
    <3>3. scanned = Skipping(before, Skips)
      BY DEF Sight
    <3>4. /\ Stops(doc, before, Resolved) = {}
          /\ scanned = Skipping(before, AllSkips(doc, before, Resolved))
      BY <2>1, <2>4, <3>3, ExhaustedComputes
    <3>5. LoopComputesScan'
      BY <1>0, <2>1, <2>2, <3>1, <3>4 DEF LoopComputesScan, Resolved
    <3> QED
      BY <3>1, <3>2, <3>5 DEF Scanning
  <2> QED
    BY <2>3, <2>4
<1>6. [LoopNext]_loopVars =>
        \/ UNCHANGED <<doc, scan>> \/ Begin \/ EndPass
        \/ \E n \in Node : ReturnAtActive(n) \/ ReturnReady(n)
        \/ \E n \in Node : PassOver(n) \/ SkipNode(n)
  BY DEF LoopNext, loopVars, given, scan, Consume, Judge
<1> QED
  BY <1>1, <1>2, <1>3, <1>4, <1>5, <1>6

(***************************************************************************)
(* The loop of compute_next returns at the first node that is active or    *)
(* ready and has skipped exactly the nodes of the closed form, in whatever *)
(* order the file lists its nodes; and when it runs out it has skipped the *)
(* least closed set.  So WorkflowRun may use the closed forms.             *)
(***************************************************************************)
THEOREM LoopComputesScanAlways == LoopSpec => []LoopComputesScan
<1>1. Scanning => LoopComputesScan
  BY DEF Scanning
<1> QED
  BY <1>1, ScanningInit, ScanningStep, PTL DEF LoopSpec

-----------------------------------------------------------------------------
(* One command at a time.                                                  *)

\* At most one command is under way, by whichever process.
Alone == \A s, t \in Session : pc[s] # "idle" /\ pc[t] # "idle" => s = t

-----------------------------------------------------------------------------
(***************************************************************************)
(* The state that state.json holds is whole unless the machine has failed, *)
(* it is the last of those a failure may bring back, and the temporary     *)
(* file is none of them, so that what is left of it harms nobody.          *)
(***************************************************************************)
Applied == IF Readable THEN content[live] ELSE {}

Whole ==
    /\ tmp \notin past /\ (tmp # NoInode => tmp \in used /\ tmp # live)
    /\ \A i \in past : content[i] # Torn /\ content[i] \subseteq issued
    /\ live = NoInode \/ damaged => past = {}
    /\ live # NoInode /\ ~damaged => live \in past
    /\ damaged => made /\ ~Readable
    /\ live # NoInode => made
    /\ answered \subseteq Applied

\* What a command that is under way knows and has done.
UnderWay(s) ==
    /\ pc[s] # "idle" =>
           /\ cmd[s] \in issued \ answered
           /\ made
           /\ damaged => pc[s] \in {"load", "quarantine"}
    /\ pc[s] = "quarantine" => damaged
    /\ pc[s] \in {"load", "open", "write", "replace"} => \A i \in past : cmd[s] \notin content[i]
    /\ pc[s] \in {"open", "write", "replace"} => memory[s] = Applied \cup {cmd[s]}
    /\ pc[s] \in {"write", "replace"} => tmp # NoInode /\ handle[s] = tmp
    /\ pc[s] = "write" => content[tmp] = Torn
    /\ pc[s] = "replace" => content[tmp] = memory[s]
    /\ pc[s] = "answer" => Readable /\ memory[s] = content[live] /\ cmd[s] \in memory[s]

Sequential == StoreTypeOK /\ Whole /\ \A s \in Session : UnderWay(s)

LEMMA SequentialInit == StoreInit => Sequential
  <1> SUFFICES ASSUME StoreInit PROVE Sequential
    OBVIOUS
  <1>1. (CHOOSE c \in Command : TRUE) \in Command
    BY StoreAssumption DEF StoreAssumption
  <1>2. StoreTypeOK
    BY <1>1 DEF StoreInit, StoreTypeOK
  <1>3. Whole
    BY DEF StoreInit, Whole, Readable, Applied
  <1>4. \A s \in Session : UnderWay(s)
    BY DEF StoreInit, UnderWay
  <1> QED
    BY <1>2, <1>3, <1>4 DEF Sequential

\* The state that is read is one of those a failure of the machine may leave.
LEMMA AppliedIsPast ==
    ASSUME Sequential
    PROVE  /\ NotJson \notin Command /\ NoInode \notin Inode
           /\ past \subseteq Inode
           /\ \A S \in SUBSET Command : S # Torn
           /\ Readable <=> live # NoInode /\ ~damaged
           /\ Readable => live \in past /\ content[live] \in SUBSET Command
           /\ Applied \in SUBSET Command /\ Applied \subseteq issued
           /\ \A c : (\A i \in past : c \notin content[i]) => c \notin Applied
  <1>1. /\ NotJson \notin Command /\ NoInode \notin Inode
        /\ \A S \in SUBSET Command : S # Torn
    <2>1. NotJson \notin Command /\ NoInode \notin Inode
      BY StoreAssumption DEF StoreAssumption
    <2>2. NotJson \in Torn
      BY DEF Torn
    <2> QED
      BY <2>1, <2>2
  <1>2. past \subseteq Inode /\ content \in [Inode -> (SUBSET Command) \cup {Torn}]
    BY DEF Sequential, StoreTypeOK
  <1>3. Readable <=> live # NoInode /\ ~damaged
    BY DEF Sequential, Whole, Readable
  <1>4. Readable => live \in past /\ content[live] # Torn /\ content[live] \subseteq issued
    BY <1>3 DEF Sequential, Whole
  <1> QED
    BY <1>1, <1>2, <1>3, <1>4 DEF Applied

\* While one command is under way, no other is.
LEMMA OthersIdle ==
    ASSUME Alone, NEW s \in Session, pc[s] # "idle"
    PROVE  \A t \in Session \ {s} : pc[t] = "idle"
  BY DEF Alone

\* A command that leaves, leaves the others as they were.
LEMMA ExitKeeps ==
    ASSUME Sequential, Alone, NEW s \in Session, pc[s] # "idle", Exit(s)
    PROVE  /\ \A t \in Session : pc'[t] = "idle"
           /\ pc' \in [Session -> {"idle", "load", "quarantine", "open", "write",
                                   "replace", "answer"}]
           /\ memory' \in [Session -> SUBSET Command]
           /\ handle' \in [Session -> Inode \cup {NoInode}]
  BY OthersIdle DEF Exit, Sequential, StoreTypeOK

\* A step that leaves the files and the answers alone.
LEMMA WholeStays ==
    ASSUME Whole, UNCHANGED <<made, live, past, tmp, content, used, answered, damaged>>,
           issued \subseteq issued'
    PROVE  Whole' /\ Applied' = Applied /\ Readable' = Readable
  BY DEF Whole, Readable, Applied

\* Only commands overlap.
LEMMA MetType ==
    ASSUME StoreTypeOK, NEW c \in Command, Begins(c)
    PROVE  overlapped' \subseteq Command
<1>1. {cmd[s] : s \in Busy} \subseteq Command
  BY DEF StoreTypeOK, Busy
<1>2. overlapped \subseteq Command
  BY DEF StoreTypeOK
<1> QED
  BY <1>1, <1>2 DEF Begins

LEMMA SequentialStep ==
    ASSUME Sequential, Alone, [StoreNext]_storeVars
    PROVE  Sequential'
  <1> USE DEF Goto
  <1>0. StoreTypeOK /\ Whole /\ \A s \in Session : UnderWay(s)
    BY DEF Sequential
  <1>1. ASSUME NEW s \in Session, NEW c \in Command, StartRun(s, c) PROVE Sequential'
    <2>1. live = NoInode /\ past = {} /\ ~damaged /\ c \notin answered /\ ~Readable
      BY <1>0, <1>1 DEF StartRun, Whole, Readable, StoreTypeOK
    <2>2. \A t \in Session : pc[t] = "idle"
      BY <1>0, <1>1 DEF StartRun, UnderWay
    <2>3. StoreTypeOK'
      BY <1>0, <1>1, MetType DEF StartRun, StoreTypeOK
    <2>4. Whole'
      BY <1>0, <1>1, <2>1 DEF StartRun, Whole, Readable, Applied
    <2>5. ASSUME NEW t \in Session PROVE UnderWay(t)'
      BY <1>0, <1>1, <2>1, <2>2 DEF StartRun, UnderWay, StoreTypeOK, Readable, Applied
    <2> QED
      BY <2>3, <2>4, <2>5 DEF Sequential
  <1>2. ASSUME NEW s \in Session, NEW c \in Command, Call(s, c) PROVE Sequential'
    <2>1. c \notin answered /\ \A i \in past : c \notin content[i]
      BY <1>0, <1>2 DEF Call, Whole, StoreTypeOK
    <2>2. StoreTypeOK'
      BY <1>0, <1>2, MetType DEF Call, StoreTypeOK, disk
    <2>3. Whole' /\ Applied' = Applied /\ Readable' = Readable
      BY <1>0, <1>2, WholeStays DEF Call, disk
    <2>4. ASSUME NEW t \in Session, t # s PROVE UnderWay(t)'
      BY <1>0, <1>2, <2>3, <2>4 DEF Call, UnderWay, StoreTypeOK, disk
    <2>5. UnderWay(s)'
      BY <1>0, <1>2, <2>1 DEF Call, UnderWay, StoreTypeOK, disk
    <2> QED
      BY <2>2, <2>3, <2>4, <2>5 DEF Sequential
  <1>3. ASSUME NEW s \in Session, pc[s] # "idle", Exit(s),
               UNCHANGED <<made, past, tmp, content, used, issued, cmd, damaged, overlapped>>,
               live' = live \/ (live' = NoInode /\ damaged), quarantined' \in BOOLEAN,
               answered' = answered \/ (answered' = answered \cup {cmd[s]} /\ cmd[s] \in Applied),
               granted' \subseteq answered' \cap Nexts
        PROVE  Sequential'
    <2>1. StoreTypeOK'
      <3>1. answered' \subseteq issued'
        BY <1>0, <1>3 DEF UnderWay, StoreTypeOK
      <3> QED
        BY <1>0, <1>3, <3>1, ExitKeeps DEF StoreTypeOK, Sequential
    <2>2. Readable' = Readable /\ Applied' = Applied
      BY <1>0, <1>3, AppliedIsPast DEF Readable, Applied, Sequential, Whole
    <2>3. Whole'
      BY <1>0, <1>3, <2>2 DEF Whole
    <2>4. \A t \in Session : UnderWay(t)'
      BY <1>3, ExitKeeps DEF UnderWay, Sequential
    <2> QED
      BY <2>1, <2>3, <2>4 DEF Sequential
  <1>4. ASSUME NEW s \in Session, Load(s) PROVE Sequential'
    <2>1. CASE live = NoInode
      BY <1>0, <1>3, <1>4, <2>1 DEF Load, StoreTypeOK, disk
    <2>2. CASE live # NoInode
      <3>1. /\ pc[s] = "load" /\ UNCHANGED <<disk, issued, cmd, answered, granted, damaged, overlapped,
                        handle>>
            /\ IF content[live] = Torn
               THEN pc' = [pc EXCEPT ![s] = "quarantine"] /\ UNCHANGED memory
               ELSE /\ memory' = [memory EXCEPT ![s] = content[live] \cup {cmd[s]}]
                    /\ pc' = [pc EXCEPT ![s] = "open"]
        BY <1>4, <2>2 DEF Load
      <3>2. /\ content[live] = Torn => damaged
            /\ content[live] # Torn => Applied = content[live] /\ ~damaged
            /\ Applied \in SUBSET Command
        BY <1>0, <2>2, AppliedIsPast DEF Readable, Applied
      <3>3. StoreTypeOK'
        BY <1>0, <2>2, <3>1, <3>2 DEF StoreTypeOK, disk
      <3>4. Whole' /\ Applied' = Applied /\ Readable' = Readable
        BY <1>0, <3>1, WholeStays DEF disk
      <3>5. ASSUME NEW t \in Session, t # s PROVE UnderWay(t)'
        <4>1. pc'[t] = "idle"
          BY <1>0, <3>1, <3>5, OthersIdle DEF StoreTypeOK
        <4> QED
          BY <4>1 DEF UnderWay
      <3>6. UnderWay(s)'
        BY <1>0, <3>1, <3>2, <3>4 DEF UnderWay, StoreTypeOK, disk
      <3> QED
        BY <3>3, <3>4, <3>5, <3>6 DEF Sequential
    <2> QED
      BY <2>1, <2>2
  <1>5. ASSUME NEW s \in Session, Quarantine(s) PROVE Sequential'
    BY <1>0, <1>3, <1>5 DEF Quarantine, UnderWay, StoreTypeOK
  <1>6. ASSUME NEW s \in Session, Open(s) PROVE Sequential'
    <2>1. PICK i \in (IF tmp = NoInode THEN Inode \ used ELSE {tmp}) :
             /\ tmp' = i /\ used' = used \cup {i}
             /\ content' = [content EXCEPT ![i] = Torn]
             /\ handle' = [handle EXCEPT ![s] = i]
      BY <1>6 DEF Open
    <2>2. /\ i \in Inode /\ i \notin past /\ i # NoInode /\ ~damaged
          /\ live # NoInode => live \in past
      BY <1>0, <1>6, <2>1, AppliedIsPast DEF Open, StoreTypeOK, Whole, UnderWay
    <2>3. /\ UNCHANGED <<made, live, past, quarantined, issued, cmd, memory, answered, granted,
                         damaged, overlapped>>
          /\ pc[s] = "open" /\ pc' = [pc EXCEPT ![s] = "write"]
      BY <1>6 DEF Open
    <2>4. \A k \in past : content'[k] = content[k]
      BY <1>0, <2>1, <2>2 DEF StoreTypeOK
    <2>5. Readable' = Readable /\ Applied' = Applied
      BY <2>2, <2>3, <2>4 DEF Readable, Applied
    <2>6. StoreTypeOK'
      BY <1>0, <2>1, <2>2, <2>3 DEF StoreTypeOK
    <2>7. Whole'
      BY <1>0, <2>1, <2>2, <2>3, <2>4, <2>5 DEF Whole
    <2>8. ASSUME NEW t \in Session, t # s PROVE UnderWay(t)'
      <3>1. pc'[t] = "idle"
        BY <1>0, <2>3, <2>8, OthersIdle DEF StoreTypeOK
      <3> QED
        BY <3>1 DEF UnderWay
    <2>9. UnderWay(s)'
      <3>1. handle'[s] = i /\ content'[i] = Torn /\ pc'[s] = "write"
        BY <1>0, <2>1, <2>2, <2>3 DEF StoreTypeOK
      <3> QED
        BY <1>0, <2>1, <2>2, <2>3, <2>4, <2>5, <3>1 DEF UnderWay
    <2> QED
      BY <2>6, <2>7, <2>8, <2>9 DEF Sequential
  <1>7. ASSUME NEW s \in Session, Write(s) PROVE Sequential'
    <2>1. /\ pc[s] = "write" /\ pc' = [pc EXCEPT ![s] = "replace"]
          /\ tmp # NoInode /\ handle[s] = tmp /\ content[tmp] = Torn /\ tmp \in Inode
          /\ UNCHANGED <<made, live, past, tmp, used, quarantined, issued, cmd, memory, handle,
                         answered, granted, damaged, overlapped>>
      BY <1>0, <1>7 DEF Write, UnderWay, StoreTypeOK
    <2>2. content' = [content EXCEPT ![tmp] = memory[s]]
      BY <1>7, <2>1 DEF Write
    <2>3. \A k \in past \cup {live} : content'[k] = content[k]
      BY <1>0, <2>1, <2>2 DEF StoreTypeOK, Whole
    <2>4. Readable' = Readable /\ Applied' = Applied
      BY <2>1, <2>3 DEF Readable, Applied
    <2>5. StoreTypeOK'
      BY <1>0, <2>1, <2>2 DEF StoreTypeOK
    <2>6. Whole'
      BY <1>0, <2>1, <2>3, <2>4 DEF Whole
    <2>7. ASSUME NEW t \in Session, t # s PROVE UnderWay(t)'
      <3>1. pc'[t] = "idle"
        BY <1>0, <2>1, <2>7, OthersIdle DEF StoreTypeOK
      <3> QED
        BY <3>1 DEF UnderWay
    <2>8. UnderWay(s)'
      <3>1. content'[tmp] = memory[s] /\ pc'[s] = "replace"
        BY <1>0, <2>1, <2>2 DEF StoreTypeOK
      <3> QED
        BY <1>0, <2>1, <2>3, <2>4, <3>1 DEF UnderWay
    <2> QED
      BY <2>5, <2>6, <2>7, <2>8 DEF Sequential
  <1>8. ASSUME NEW s \in Session, Replace(s) PROVE Sequential'
    <2>1. /\ pc[s] = "replace" /\ tmp # NoInode /\ tmp \in Inode /\ ~damaged /\ made
          /\ content[tmp] = memory[s] /\ memory[s] = Applied \cup {cmd[s]}
          /\ cmd[s] \in issued \ answered
      BY <1>0, <1>8 DEF Replace, UnderWay, StoreTypeOK
    <2>2. /\ live' = tmp /\ past' = past \cup {tmp} /\ tmp' = NoInode
          /\ pc' = [pc EXCEPT ![s] = "answer"]
          /\ UNCHANGED <<memory, handle, made, content, used, quarantined, issued, cmd, answered,
                         granted, damaged, overlapped>>
      BY <1>8, <2>1 DEF Replace
    <2>3. /\ content[tmp] # Torn /\ content[tmp] \subseteq issued
          /\ NoInode \notin past
      BY <1>0, <2>1, AppliedIsPast DEF StoreTypeOK
    <2>4. Readable' /\ Applied' = memory[s]
      BY <2>1, <2>2, <2>3 DEF Readable, Applied
    <2>5. tmp \in used /\ StoreTypeOK'
      <3>1. tmp \in used
        BY <1>0, <2>1 DEF Whole
      <3> QED
        BY <1>0, <2>1, <2>2, <3>1 DEF StoreTypeOK
    <2>6. Whole'
      BY <1>0, <2>1, <2>2, <2>3, <2>4 DEF Whole
    <2>7. ASSUME NEW t \in Session, t # s PROVE UnderWay(t)'
      <3>1. pc'[t] = "idle"
        BY <1>0, <2>1, <2>2, <2>7, OthersIdle DEF StoreTypeOK
      <3> QED
        BY <3>1 DEF UnderWay
    <2>8. UnderWay(s)'
      BY <1>0, <2>1, <2>2, <2>4 DEF UnderWay, StoreTypeOK, Applied
    <2> QED
      BY <2>5, <2>6, <2>7, <2>8 DEF Sequential
  <1>9. ASSUME NEW s \in Session, Answer(s) PROVE Sequential'
    <2>1. cmd[s] \in Applied
      BY <1>0, <1>9 DEF Answer, UnderWay, Applied
    <2>2. granted' \subseteq answered' \cap Nexts
      BY <1>0, <1>9 DEF Answer, Grants, StoreTypeOK
    <2> QED
      BY <1>0, <1>3, <1>9, <2>1, <2>2 DEF Answer, StoreTypeOK, disk
  <1>10. ASSUME NEW s \in Session, Kill(s) PROVE Sequential'
    BY <1>0, <1>3, <1>10 DEF Kill, StoreTypeOK, disk
  <1>11. CASE PowerFails
    <2>1. /\ live # NoInode /\ made /\ \A s \in Session : pc'[s] = "idle"
          /\ UNCHANGED <<made, tmp, used, quarantined, issued, cmd, overlapped>>
          /\ answered' = {} /\ granted' = {}
      BY <1>0, <1>11 DEF PowerFails, Whole
    <2>2. /\ pc' \in [Session -> {"idle", "load", "quarantine", "open", "write",
                                  "replace", "answer"}]
          /\ memory' \in [Session -> SUBSET Command]
          /\ handle' \in [Session -> Inode \cup {NoInode}]
      BY <1>11 DEF PowerFails
    <2>3. \A s \in Session : UnderWay(s)'
      BY <2>1 DEF UnderWay
    <2>4. CASE (\E i \in past : live' = i /\ past' = {i}) /\ UNCHANGED <<content, damaged>>
      <3>1. past \subseteq Inode /\ NoInode \notin Inode /\ ~damaged
        BY <1>0, <2>4, AppliedIsPast DEF Whole
      <3>2. StoreTypeOK'
        BY <1>0, <2>1, <2>2, <2>4, <3>1 DEF StoreTypeOK
      <3>3. Whole'
        BY <1>0, <2>1, <2>4, <3>1 DEF Whole, Readable, Applied
      <3> QED
        BY <2>3, <3>2, <3>3 DEF Sequential
    <2>5. CASE live' \in {live, NoInode} /\ past' = {}
               /\ content' = [content EXCEPT ![live] = Torn] /\ damaged' = TRUE
      <3>1. StoreTypeOK'
        BY <1>0, <2>1, <2>2, <2>5 DEF StoreTypeOK
      <3>2. ~Readable'
        BY <1>0, <2>1, <2>5 DEF StoreTypeOK, Readable
      <3>3. Whole'
        BY <1>0, <2>1, <2>5, <3>2 DEF Whole
      <3> QED
        BY <2>3, <3>1, <3>3 DEF Sequential
    <2> QED
      BY <1>11, <2>4, <2>5 DEF PowerFails
  <1>12. CASE UNCHANGED storeVars
    BY <1>0, <1>12 DEF storeVars, disk, Sequential, StoreTypeOK, Whole, UnderWay, Readable, Applied
  <1> QED
    BY <1>1, <1>2, <1>4, <1>5, <1>6, <1>7, <1>8, <1>9, <1>10, <1>11, <1>12 DEF StoreNext

-----------------------------------------------------------------------------
(***************************************************************************)
(* The refinement: the rename is the instant at which a command takes its  *)
(* effect, its exit the one at which it answers, and a power failure goes  *)
(* back or loses; every other step leaves the cell as it is.               *)
(***************************************************************************)
Past == {content[i] : i \in past}

CellStands == UNCHANGED <<Applied, Past, answered, damaged>>

LEMMA CellReplace ==
    ASSUME Sequential, Serial, Serial', NEW s \in Session, Replace(s), NEW c, c = cmd[s]
    PROVE  Cell!Apply(c)
  <1>1. /\ pc[s] = "replace" /\ tmp # NoInode /\ tmp \in Inode /\ ~damaged
        /\ content[tmp] = Applied \cup {cmd[s]} /\ cmd[s] \in issued
        /\ \A i \in past : cmd[s] \notin content[i]
    BY DEF Replace, Sequential, UnderWay, StoreTypeOK
  <1>2. /\ live' = tmp /\ past' = past \cup {tmp} /\ content' = content
        /\ answered' = answered /\ damaged' = damaged
    BY <1>1 DEF Replace
  <1>3. cmd[s] \notin Applied
    BY <1>1, AppliedIsPast
  <1>4. content[tmp] # Torn /\ tmp # NoInode
    <2>1. content[tmp] \in SUBSET Command
      BY <1>1, AppliedIsPast DEF Sequential, StoreTypeOK
    <2> QED
      BY <1>1, <2>1, AppliedIsPast
  <1>5. Readable' /\ Applied' = content[tmp]
    BY <1>2, <1>4 DEF Readable, Applied
  <1>6. Past' = Past \cup {Applied'}
    BY <1>2, <1>5 DEF Past
  <1> QED
    BY <1>1, <1>2, <1>3, <1>5, <1>6 DEF Cell!Apply, Applied, Past

LEMMA CellAnswer ==
    ASSUME Sequential, Serial, Serial', NEW s \in Session, Answer(s), NEW c, c = cmd[s]
    PROVE  Cell!Answer(c)
  <1>1. cmd[s] \in Applied \ answered
    BY DEF Answer, Sequential, UnderWay, Applied
  <1>2. /\ answered' = answered \cup {cmd[s]}
        /\ UNCHANGED <<Applied, Past, damaged>>
    BY DEF Answer, disk, Applied, Past, Readable
  <1> QED
    BY <1>1, <1>2 DEF Cell!Answer, Applied, Past

LEMMA CellFails ==
    ASSUME Sequential, Serial, Serial', PowerFails
    PROVE  Cell!GoBack \/ Cell!Lose
  <1>1. CASE (\E i \in past : live' = i /\ past' = {i}) /\ UNCHANGED <<content, damaged>>
    <2>0. NoInode \notin past
      BY AppliedIsPast
    <2>1. PICK i \in past : live' = i /\ past' = {i}
      BY <1>1
    <2>2. content[i] # Torn /\ i # NoInode /\ content' = content
      BY <1>1, <2>0, <2>1 DEF Sequential, Whole
    <2>3. Applied' = content[i] /\ Past' = {content[i]} /\ content[i] \in Past
      BY <2>1, <2>2 DEF Applied, Readable, Past
    <2>4. answered' = {} /\ damaged' = damaged
      BY <1>1 DEF PowerFails
    <2> QED
      BY <2>3, <2>4 DEF Cell!GoBack, Applied, Past
  <1>2. CASE /\ live' \in {live, NoInode} /\ past' = {}
             /\ content' = [content EXCEPT ![live] = Torn] /\ damaged' = TRUE
    <2>1. ~Readable' /\ answered' = {}
      BY <1>2 DEF PowerFails, Readable, Sequential, StoreTypeOK
    <2>2. Applied' = {} /\ Past' = {}
      BY <1>2, <2>1 DEF Applied, Past
    <2> QED
      BY <1>2, <2>1, <2>2 DEF Cell!Lose, Applied, Past
  <1> QED
    BY <1>1, <1>2 DEF PowerFails

LEMMA CellElse ==
    ASSUME Sequential, Sequential', NEW s \in Session,
           \/ \E c \in Command : StartRun(s, c) \/ Call(s, c)
           \/ Load(s) \/ Quarantine(s) \/ Open(s) \/ Write(s) \/ Kill(s)
    PROVE  CellStands
  <1> USE DEF CellStands
  <1>1. ASSUME UNCHANGED <<live, past, content, answered, damaged>> PROVE CellStands
    BY <1>1 DEF Applied, Past, Readable
  <1>2. CASE (\E c \in Command : StartRun(s, c) \/ Call(s, c)) \/ Load(s) \/ Kill(s)
    BY <1>1, <1>2 DEF StartRun, Call, Load, Kill, disk
  <1>3. CASE Quarantine(s)
    <2>1. damaged /\ damaged' /\ UNCHANGED <<past, content, answered, damaged>>
      BY <1>3 DEF Quarantine, Sequential, UnderWay
    <2>2. ~Readable /\ ~Readable'
      BY <2>1 DEF Sequential, Whole
    <2> QED
      BY <2>1, <2>2 DEF Applied, Past
  <1>4. CASE Open(s)
    <2>1. PICK i \in (IF tmp = NoInode THEN Inode \ used ELSE {tmp}) :
             content' = [content EXCEPT ![i] = Torn]
      BY <1>4 DEF Open
    <2>2. UNCHANGED <<live, past, answered, damaged>> /\ pc[s] = "open"
      BY <1>4 DEF Open
    <2>3. /\ i \notin past /\ content \in [Inode -> (SUBSET Command) \cup {Torn}]
          /\ past \subseteq Inode
          /\ Readable => live \in past
          /\ live # NoInode => live \in past
      BY <2>1, <2>2, AppliedIsPast DEF Sequential, Whole, StoreTypeOK, UnderWay
    <2>4. \A k \in past : content'[k] = content[k]
      BY <2>1, <2>3
    <2>5. Past' = Past
      BY <2>2, <2>4 DEF Past
    <2> QED
      BY <2>2, <2>3, <2>4, <2>5 DEF Applied, Readable
  <1>5. CASE Write(s)
    <2>1. /\ UNCHANGED <<live, past, answered, damaged>> /\ pc[s] = "write"
          /\ handle[s] = tmp
      BY <1>5 DEF Write, Sequential, UnderWay
    <2>2. /\ tmp \notin past /\ content \in [Inode -> (SUBSET Command) \cup {Torn}]
          /\ past \subseteq Inode /\ (live # NoInode => live \in past)
      BY <2>1, AppliedIsPast DEF Sequential, Whole, StoreTypeOK, UnderWay
    <2>3. \A k \in past : content'[k] = content[k]
      BY <1>5, <2>1, <2>2 DEF Write
    <2>4. Past' = Past
      BY <2>1, <2>3 DEF Past
    <2> QED
      BY <2>1, <2>2, <2>3, <2>4 DEF Applied, Readable
  <1> QED
    BY <1>2, <1>3, <1>4, <1>5

LEMMA CellStep ==
    ASSUME Sequential, Alone, Serial, Serial', [StoreNext]_storeVars
    PROVE  Cell!Next \/ CellStands
  <1>1. Sequential'
    BY SequentialStep
  <1>2. ASSUME NEW s \in Session, Replace(s) \/ Answer(s) PROVE Cell!Next
    <2>1. PICK c \in Command : c = cmd[s]
      BY DEF Sequential, StoreTypeOK
    <2>2. Cell!Apply(c) \/ Cell!Answer(c)
      BY <1>2, <2>1, CellReplace, CellAnswer
    <2> QED
      BY <2>2 DEF Cell!Next
  <1>3. CASE PowerFails
    BY <1>3, CellFails DEF Cell!Next
  <1>4. CASE UNCHANGED storeVars
    BY <1>4 DEF storeVars, disk, CellStands, Applied, Past, Readable
  <1> QED
    BY <1>1, <1>2, <1>3, <1>4, CellElse DEF StoreNext

Ordered == damaged \in BOOLEAN /\ (Serial => Sequential /\ Alone)

\* While no two commands have overlapped, none is under way beside another.
LEMMA SerialStep ==
    ASSUME [StoreNext]_storeVars, Serial', Serial => Sequential /\ Alone
    PROVE  Serial /\ Sequential' /\ Alone'
  <1>1. Serial
    BY DEF StoreNext, StartRun, Call, Begins, Load, Quarantine, Open, Write, Replace, Answer,
           Kill, PowerFails, Serial, storeVars
  <1>2. Sequential /\ Alone
    BY <1>1
  <1>3. Sequential'
    BY <1>2, SequentialStep
  <1>4. pc \in [Session -> {"idle", "load", "quarantine", "open", "write", "replace", "answer"}]
    BY <1>2 DEF Sequential, StoreTypeOK
  <1>5. ASSUME NEW s \in Session, NEW c \in Command, StartRun(s, c) \/ Call(s, c) PROVE Alone'
    <2>1. Busy = {}
      BY <1>5 DEF StartRun, Call, Begins, Serial
    <2>2. /\ \A t \in Session : pc[t] = "idle"
          /\ pc' = [pc EXCEPT ![s] = "open"] \/ pc' = [pc EXCEPT ![s] = "load"]
      BY <1>5, <2>1 DEF StartRun, Call, Goto, Busy
    <2> QED
      BY <1>4, <2>2 DEF Alone
  <1>6. ASSUME NEW s \in Session, pc[s] # "idle",
               \A t \in Session \ {s} : pc'[t] = pc[t]
        PROVE  Alone'
    BY <1>2, <1>6 DEF Alone
  <1>7. ASSUME NEW s \in Session,
               \/ Load(s) \/ Quarantine(s) \/ Open(s) \/ Write(s) \/ Replace(s)
               \/ Answer(s) \/ Kill(s)
        PROVE  pc[s] # "idle" /\ \A t \in Session \ {s} : pc'[t] = pc[t]
    BY <1>4, <1>7 DEF Load, Quarantine, Open, Write, Replace, Answer, Kill, Goto, Exit
  <1>8. PowerFails => Alone'
    BY DEF PowerFails, Alone
  <1>9. UNCHANGED storeVars => Alone'
    BY <1>2 DEF storeVars, Alone
  <1> QED
    BY <1>1, <1>3, <1>5, <1>6, <1>7, <1>8, <1>9 DEF StoreNext

\* What the cell sees of the store: nothing, once two commands have overlapped.
Seen == <<IF Serial /\ Readable THEN content[live] ELSE {},
          IF Serial THEN {content[i] : i \in past} ELSE {},
          IF Serial THEN answered ELSE {},
          IF Serial THEN damaged ELSE TRUE>>

LEMMA SeenStep ==
    ASSUME [StoreNext]_storeVars, Ordered
    PROVE  [Cell!Next]_Seen
  <1>1. CASE Serial'
    <2>1. Serial /\ Sequential /\ Alone
      BY <1>1, SerialStep DEF Ordered
    <2>2. Cell!Next \/ CellStands
      BY <1>1, <2>1, CellStep
    <2>3. CellStands => UNCHANGED Seen
      BY <1>1, <2>1 DEF CellStands, Seen, Applied, Past
    <2> QED
      BY <2>2, <2>3
  <1>2. CASE ~Serial' /\ Serial
    <2>1. Cell!Lose
      <3>1. (IF Serial' THEN damaged' ELSE TRUE) = TRUE
        BY <1>2
      <3>2. /\ (IF Serial' /\ Readable' THEN content'[live'] ELSE {}) = {}
            /\ (IF Serial' THEN {content'[i] : i \in past'} ELSE {}) = {}
            /\ (IF Serial' THEN answered' ELSE {}) = {}
        BY <1>2
      <3> QED
        BY <3>1, <3>2 DEF Cell!Lose
    <2> QED
      BY <2>1 DEF Cell!Next
  <1>3. CASE ~Serial' /\ ~Serial
    BY <1>3 DEF Seen
  <1> QED
    BY <1>1, <1>2, <1>3

(***************************************************************************)
(* The store implements the cell, whatever is killed and whatever          *)
(* overlaps: until two commands overlap, a command killed anywhere has had *)
(* its whole effect on state.json or none, an answered one lasts, and a    *)
(* power failure leaves a state that was, whole, or none.                  *)
(***************************************************************************)
THEOREM StoreImplementsCell == StoreSpec => ImplementsCell
<1>1. StoreInit => Cell!Init
  BY DEF StoreInit, Cell!Init, Readable, Serial
<1>2. StoreInit => Ordered
  BY SequentialInit DEF StoreInit, Alone, Ordered
<1>3. Ordered /\ [StoreNext]_storeVars => Ordered'
  <2>1. damaged \in BOOLEAN /\ [StoreNext]_storeVars => damaged' \in BOOLEAN
    BY DEF StoreNext, StartRun, Call, Load, Quarantine, Open, Write, Replace, Answer, Kill,
           PowerFails, storeVars
  <2> QED
    BY <2>1, SerialStep DEF Ordered
<1>4. Ordered /\ [StoreNext]_storeVars
      => [Cell!Next]_<<IF Serial /\ Readable THEN content[live] ELSE {},
                       IF Serial THEN {content[i] : i \in past} ELSE {},
                       IF Serial THEN answered ELSE {},
                       IF Serial THEN damaged ELSE TRUE>>
  BY SeenStep DEF Seen
<1> QED
  BY <1>1, <1>2, <1>3, <1>4, PTL DEF StoreSpec, ImplementsCell, Cell!Spec

-----------------------------------------------------------------------------
(***************************************************************************)
(* The concurrency guard of next, whatever runs at the same time.  A       *)
(* command that has met no other knows what it has written; and once such  *)
(* a call of next has been told to execute the node, its record is in      *)
(* state.json, in the temporary file and in the memory of every command    *)
(* that has loaded the state, wherever each of them stands.                *)
(***************************************************************************)
Solo(s) ==
    pc[s] # "idle" /\ cmd[s] \notin overlapped =>
        /\ \A t \in Session \ {s} : pc[t] = "idle"
        /\ pc[s] \in {"open", "write", "replace", "answer"} => cmd[s] \in memory[s]
        /\ pc[s] = "write" => tmp # NoInode /\ handle[s] = tmp /\ content[tmp] = Torn
        /\ pc[s] = "replace" => content[tmp] = memory[s]
        /\ pc[s] = "answer" => tmp = NoInode /\ content[live] = memory[s]

Recorded(c) ==
    /\ Readable => c \in content[live]
    /\ tmp # NoInode => content[tmp] = Torn \/ c \in content[tmp]
    /\ \A s \in Session :
          pc[s] \in {"open", "write", "replace", "answer"} => c \in memory[s]

Guarded ==
    /\ StoreTypeOK
    /\ tmp # NoInode => tmp \in used
    /\ answered # {} => made
    /\ \A s \in Session : (pc[s] # "idle" => made /\ cmd[s] \in issued) /\ Solo(s)
    /\ \A c \in granted \ overlapped : Recorded(c)

LEMMA GuardedInit == StoreInit => Guarded
  BY SequentialInit DEF Sequential, StoreInit, Guarded, Solo

\* Where a command that is under way leaves the others.
LEMMA SoloStep ==
    ASSUME Guarded, StoreTypeOK', [StoreNext]_storeVars, NEW u \in Session
    PROVE  Solo(u)'
  <1> USE DEF Goto
  <1>0. StoreTypeOK /\ \A s \in Session : Solo(s)
    BY DEF Guarded
  <1>1. SUFFICES ASSUME pc'[u] # "idle", cmd'[u] \notin overlapped' PROVE Solo(u)'
    BY DEF Solo
  <1>2. ASSUME NEW s \in Session, NEW c \in Command, StartRun(s, c) \/ Call(s, c)
        PROVE  Solo(u)'
    <2>1. /\ pc[s] = "idle" /\ cmd' = [cmd EXCEPT ![s] = c] /\ Begins(c)
          /\ \/ pc' = [pc EXCEPT ![s] = "open"] /\ memory' = [memory EXCEPT ![s] = {c}]
             \/ pc' = [pc EXCEPT ![s] = "load"]
      BY <1>2 DEF StartRun, Call
    <2>2. CASE Busy = {}
      <3>1. \A t \in Session : pc[t] = "idle"
        BY <2>2 DEF Busy
      <3>2. u = s
        BY <1>0, <1>1, <2>1, <3>1 DEF StoreTypeOK
      <3> QED
        BY <1>0, <2>1, <3>1, <3>2 DEF StoreTypeOK, Solo
    <2>3. CASE Busy # {}
      <3>1. overlapped' = overlapped \cup {c} \cup {cmd[t] : t \in Busy}
        BY <2>1, <2>3 DEF Begins
      <3>2. u # s
        BY <1>0, <1>1, <2>1, <3>1 DEF StoreTypeOK
      <3>3. u \in Busy /\ cmd'[u] = cmd[u]
        BY <1>0, <1>1, <2>1, <3>2 DEF StoreTypeOK, Busy
      <3> QED
        BY <1>1, <3>1, <3>3
    <2> QED
      BY <2>2, <2>3
  <1>3. ASSUME UNCHANGED <<cmd, overlapped>>, NEW s \in Session, pc[s] # "idle",
               \A t \in Session \ {s} : pc'[t] = pc[t]
        PROVE  u = s /\ \A t \in Session \ {s} : pc[t] = "idle" /\ pc'[t] = "idle"
    BY <1>0, <1>1, <1>3 DEF Solo
  <1>4. ASSUME NEW s \in Session,
               \/ Load(s) \/ Quarantine(s) \/ Open(s) \/ Write(s) \/ Replace(s)
               \/ Answer(s) \/ Kill(s)
        PROVE  /\ UNCHANGED <<cmd, overlapped>> /\ pc[s] # "idle"
               /\ \A t \in Session \ {s} : pc'[t] = pc[t]
    BY <1>0, <1>4 DEF Load, Quarantine, Open, Write, Replace, Answer, Kill, Exit, disk, StoreTypeOK
  <1>5. ASSUME NEW s \in Session, Exit(s) PROVE u # s
    BY <1>0, <1>1, <1>5 DEF Exit, StoreTypeOK
  <1>6. ASSUME NEW s \in Session, Quarantine(s) \/ Answer(s) \/ Kill(s) PROVE Solo(u)'
    <2>1. Exit(s)
      BY <1>6 DEF Quarantine, Answer, Kill
    <2> QED
      BY <1>3, <1>4, <1>5, <1>6, <2>1
  <1>7. ASSUME NEW s \in Session, Load(s) PROVE Solo(u)'
    <2>1. u = s /\ \A t \in Session \ {s} : pc'[t] = "idle"
      BY <1>3, <1>4, <1>7
    <2>2. ~Exit(s)
      BY <1>5, <2>1
    <2>3. \/ pc' = [pc EXCEPT ![s] = "quarantine"]
          \/ /\ memory' = [memory EXCEPT ![s] = content[live] \cup {cmd[s]}]
             /\ pc' = [pc EXCEPT ![s] = "open"] /\ cmd' = cmd
      BY <1>7, <2>2 DEF Load
    <2> QED
      BY <1>0, <2>1, <2>3 DEF StoreTypeOK, Solo
  <1>8. ASSUME NEW s \in Session, Open(s) PROVE Solo(u)'
    <2>1. u = s /\ \A t \in Session \ {s} : pc'[t] = "idle"
      BY <1>3, <1>4, <1>8
    <2>2. cmd[s] \in memory[s] /\ UNCHANGED <<cmd, memory>> /\ pc' = [pc EXCEPT ![s] = "write"]
      BY <1>0, <1>1, <1>8, <2>1 DEF Open, Solo
    <2>3. handle'[s] = tmp' /\ content'[tmp'] = Torn /\ tmp' # NoInode
      BY <1>0, <1>8, StoreAssumption DEF Open, StoreTypeOK, StoreAssumption
    <2> QED
      BY <1>0, <2>1, <2>2, <2>3 DEF StoreTypeOK, Solo
  <1>9. ASSUME NEW s \in Session, Write(s) PROVE Solo(u)'
    <2>1. u = s /\ \A t \in Session \ {s} : pc'[t] = "idle"
      BY <1>3, <1>4, <1>9
    <2>2. /\ cmd[s] \in memory[s] /\ UNCHANGED <<cmd, memory, tmp>>
          /\ pc' = [pc EXCEPT ![s] = "replace"]
          /\ tmp # NoInode /\ handle[s] = tmp /\ content[tmp] = Torn
      BY <1>0, <1>1, <1>9, <2>1 DEF Write, Solo
    <2>3. content' = [content EXCEPT ![tmp] = memory[s]]
      BY <1>9, <2>2 DEF Write
    <2>4. tmp \in Inode
      BY <1>0, <2>2 DEF StoreTypeOK
    <2> QED
      BY <1>0, <2>1, <2>2, <2>3, <2>4 DEF StoreTypeOK, Solo
  <1>10. ASSUME NEW s \in Session, Replace(s) PROVE Solo(u)'
    <2>1. u = s /\ \A t \in Session \ {s} : pc'[t] = "idle"
      BY <1>3, <1>4, <1>10
    <2>2. ~Exit(s)
      BY <1>5, <2>1
    <2>3. /\ cmd[s] \in memory[s] /\ content[tmp] = memory[s]
          /\ UNCHANGED <<cmd, memory, content>> /\ tmp' = NoInode /\ live' = tmp
          /\ pc' = [pc EXCEPT ![s] = "answer"]
      BY <1>0, <1>1, <1>10, <2>1, <2>2 DEF Replace, Solo
    <2> QED
      BY <1>0, <2>1, <2>3 DEF StoreTypeOK, Solo
  <1>11. PowerFails => Solo(u)'
    BY DEF PowerFails, Solo
  <1>12. UNCHANGED storeVars => Solo(u)'
    BY <1>0 DEF storeVars, disk, Solo
  <1> QED
    BY <1>2, <1>6, <1>7, <1>8, <1>9, <1>10, <1>11, <1>12 DEF StoreNext

\* What does not depend on who else is under way.
LEMMA StoreTypeStep ==
    ASSUME Guarded, [StoreNext]_storeVars
    PROVE  /\ StoreTypeOK'
           /\ (tmp # NoInode => tmp \in used)'
           /\ (answered # {} => made)'
           /\ \A u \in Session : (pc[u] # "idle" => made /\ cmd[u] \in issued)'
  <1> USE DEF Goto
  <1>0. /\ StoreTypeOK /\ (tmp # NoInode => tmp \in used) /\ (answered # {} => made)
        /\ \A u \in Session : pc[u] # "idle" => made /\ cmd[u] \in issued
    BY DEF Guarded
  <1> DEFINE Kept == /\ StoreTypeOK'
                     /\ (tmp # NoInode => tmp \in used)'
                     /\ (answered # {} => made)'
                     /\ \A u \in Session : (pc[u] # "idle" => made /\ cmd[u] \in issued)'
  <1>1. ASSUME NEW s \in Session, NEW c \in Command, StartRun(s, c) PROVE Kept
    <2>1. overlapped' \subseteq Command
      BY <1>0, <1>1, MetType DEF StartRun
    <2> QED
      BY <1>0, <1>1, <2>1 DEF StartRun, StoreTypeOK
  <1>2. ASSUME NEW s \in Session, NEW c \in Command, Call(s, c) PROVE Kept
    <2>1. overlapped' \subseteq Command
      BY <1>0, <1>2, MetType DEF Call
    <2> QED
      BY <1>0, <1>2, <2>1 DEF Call, StoreTypeOK, disk
  <1>3. ASSUME NEW s \in Session, Exit(s) PROVE
            /\ pc' \in [Session -> {"idle", "load", "quarantine", "open", "write",
                                    "replace", "answer"}]
            /\ memory' \in [Session -> SUBSET Command]
            /\ handle' \in [Session -> Inode \cup {NoInode}]
            /\ \A u \in Session : pc'[u] # "idle" => pc[u] # "idle"
    BY <1>0, <1>3 DEF Exit, StoreTypeOK
  <1>4. ASSUME NEW s \in Session, Load(s) PROVE Kept
    <2>1. CASE Exit(s)
      BY <1>0, <1>3, <1>4, <2>1 DEF Load, StoreTypeOK, disk
    <2>2. CASE /\ live # NoInode /\ content[live] = Torn /\ UNCHANGED <<memory, handle>>
               /\ pc' = [pc EXCEPT ![s] = "quarantine"]
      BY <1>0, <1>4, <2>2 DEF Load, StoreTypeOK, disk
    <2>3. CASE /\ live # NoInode /\ content[live] # Torn /\ UNCHANGED handle
               /\ memory' = [memory EXCEPT ![s] = content[live] \cup {cmd[s]}]
               /\ pc' = [pc EXCEPT ![s] = "open"]
      <3>1. content[live] \in SUBSET Command /\ cmd[s] \in Command
        BY <1>0, <2>3 DEF StoreTypeOK
      <3>2. memory' \in [Session -> SUBSET Command]
        BY <1>0, <2>3, <3>1 DEF StoreTypeOK
      <3> QED
        BY <1>0, <1>4, <2>3, <3>2 DEF Load, StoreTypeOK, disk
    <2> QED
      BY <1>4, <2>1, <2>2, <2>3 DEF Load
  <1>5. ASSUME NEW s \in Session, Quarantine(s) PROVE Kept
    <2>1. Exit(s)
      BY <1>5 DEF Quarantine
    <2> QED
      BY <1>0, <1>3, <1>5, <2>1 DEF Quarantine, StoreTypeOK
  <1>6. ASSUME NEW s \in Session, Open(s) PROVE Kept
    BY <1>0, <1>6 DEF Open, StoreTypeOK
  <1>7. ASSUME NEW s \in Session, Write(s) PROVE Kept
    <2>1. PICK bytes \in {memory[s], Torn} : content' = [content EXCEPT ![handle[s]] = bytes]
      BY <1>7 DEF Write
    <2>2. bytes \in (SUBSET Command) \cup {Torn}
      BY <1>0, <2>1 DEF StoreTypeOK
    <2>3. content' \in [Inode -> (SUBSET Command) \cup {Torn}]
      BY <1>0, <2>1, <2>2 DEF StoreTypeOK
    <2> QED
      BY <1>0, <1>7, <2>3 DEF Write, StoreTypeOK
  <1>8. ASSUME NEW s \in Session, Replace(s) PROVE Kept
    <2>1. CASE Exit(s) /\ UNCHANGED <<live, past, tmp>>
      BY <1>0, <1>3, <1>8, <2>1 DEF Replace, StoreTypeOK
    <2>2. CASE /\ tmp # NoInode /\ live' = tmp /\ past' = past \cup {tmp} /\ tmp' = NoInode
               /\ pc' = [pc EXCEPT ![s] = "answer"] /\ UNCHANGED <<memory, handle>>
      BY <1>0, <1>8, <2>2 DEF Replace, StoreTypeOK
    <2> QED
      BY <1>8, <2>1, <2>2 DEF Replace
  <1>9. ASSUME NEW s \in Session, Answer(s) PROVE Kept
    <2>1. Exit(s) /\ cmd[s] \in issued /\ made
      BY <1>0, <1>9 DEF Answer
    <2>2. answered' = answered \cup {cmd[s]} /\ granted' \subseteq answered' \cap Nexts
      BY <1>0, <1>9 DEF Answer, Grants, StoreTypeOK
    <2> QED
      BY <1>0, <1>3, <1>9, <2>1, <2>2 DEF Answer, StoreTypeOK, disk
  <1>10. ASSUME NEW s \in Session, Kill(s) PROVE Kept
    BY <1>0, <1>3, <1>10 DEF Kill, StoreTypeOK, disk
  <1>11. CASE PowerFails
    <2>1. /\ pc' \in [Session -> {"idle", "load", "quarantine", "open", "write",
                                  "replace", "answer"}]
          /\ memory' \in [Session -> SUBSET Command]
          /\ handle' \in [Session -> Inode \cup {NoInode}]
          /\ \A u \in Session : pc'[u] = "idle"
      BY <1>11 DEF PowerFails
    <2>2. /\ live' \in Inode \cup {NoInode} /\ past' \subseteq used /\ damaged' \in BOOLEAN
          /\ content' \in [Inode -> (SUBSET Command) \cup {Torn}]
      BY <1>0, <1>11 DEF PowerFails, StoreTypeOK
    <2> QED
      BY <1>0, <1>11, <2>1, <2>2 DEF PowerFails, StoreTypeOK
  <1>12. CASE UNCHANGED storeVars
    BY <1>0, <1>12 DEF storeVars, disk, StoreTypeOK
  <1>13. Kept
    BY <1>1, <1>2, <1>4, <1>5, <1>6, <1>7, <1>8, <1>9, <1>10, <1>11, <1>12 DEF StoreNext
  <1> QED
    BY <1>13

\* A record that is everywhere stays everywhere.
LEMMA RecordedStays ==
    ASSUME Guarded, StoreTypeOK', [StoreNext]_storeVars, NEW c \in granted', c \in granted,
           Recorded(c)
    PROVE  Recorded(c)'
  <1> USE DEF Goto
  <1>0. /\ StoreTypeOK /\ made
        /\ \A s \in Session : pc[s] \in {"open", "write", "replace", "answer"} => c \in memory[s]
    BY DEF Guarded, Recorded, StoreTypeOK
  <1>1. ASSUME NEW s \in Session, Exit(s), UNCHANGED <<tmp, content>>,
               live' \in {live, NoInode}
        PROVE  Recorded(c)'
    BY <1>0, <1>1 DEF Recorded, Readable, Exit, StoreTypeOK
  <1>2. ASSUME NEW s \in Session, NEW k \in Command, StartRun(s, k) \/ Call(s, k)
        PROVE  Recorded(c)'
    <2>1. Call(s, k)
      BY <1>0, <1>2 DEF StartRun
    <2> QED
      BY <1>0, <2>1 DEF Call, disk, Recorded, Readable, StoreTypeOK
  <1>3. ASSUME NEW s \in Session, Load(s) PROVE Recorded(c)'
    <2>1. CASE Exit(s)
      BY <1>1, <1>3, <2>1 DEF Load, disk
    <2>2. CASE pc' = [pc EXCEPT ![s] = "quarantine"] /\ UNCHANGED memory
      BY <1>0, <1>3, <2>2 DEF Load, disk, Recorded, Readable, StoreTypeOK
    <2>3. CASE /\ Readable /\ pc' = [pc EXCEPT ![s] = "open"]
               /\ memory' = [memory EXCEPT ![s] = content[live] \cup {cmd[s]}]
      <3>1. UNCHANGED <<live, tmp, content>>
        BY <1>3 DEF Load, disk
      <3>2. c \in content[live]
        BY <2>3 DEF Recorded
      <3>3. ASSUME NEW t \in Session, pc'[t] \in {"open", "write", "replace", "answer"}
            PROVE  c \in memory'[t]
        BY <1>0, <2>3, <3>2, <3>3 DEF StoreTypeOK
      <3> QED
        BY <3>1, <3>3 DEF Recorded, Readable
    <2> QED
      BY <1>3, <2>1, <2>2, <2>3 DEF Load, Readable
  <1>4. ASSUME NEW s \in Session, Quarantine(s) \/ Answer(s) \/ Kill(s) PROVE Recorded(c)'
    BY <1>1, <1>4 DEF Quarantine, Answer, Kill, disk
  <1>5. ASSUME NEW s \in Session, Open(s) PROVE Recorded(c)'
    <2>1. /\ content' = [content EXCEPT ![tmp'] = Torn] /\ UNCHANGED <<live, memory>>
          /\ pc[s] = "open" /\ pc' = [pc EXCEPT ![s] = "write"]
      BY <1>5 DEF Open
    <2>2. tmp' # NoInode => content'[tmp'] = Torn
      BY <1>0, <2>1 DEF StoreTypeOK
    <2>3. Readable' => Readable /\ content'[live] = content[live]
      BY <1>0, <2>1 DEF StoreTypeOK, Readable
    <2>4. ASSUME NEW t \in Session, pc'[t] \in {"open", "write", "replace", "answer"}
          PROVE  c \in memory'[t]
      BY <1>0, <2>1, <2>4 DEF StoreTypeOK
    <2> QED
      BY <2>1, <2>2, <2>3, <2>4 DEF Recorded
  <1>6. ASSUME NEW s \in Session, Write(s) PROVE Recorded(c)'
    <2>1. PICK bytes \in {memory[s], Torn} : content' = [content EXCEPT ![handle[s]] = bytes]
      BY <1>6 DEF Write
    <2>2. /\ UNCHANGED <<live, tmp, memory>> /\ pc[s] = "write"
          /\ pc' = [pc EXCEPT ![s] = "replace"]
      BY <1>6 DEF Write
    <2>3. c \in memory[s]
      BY <1>0, <2>2
    <2>4. \A i \in Inode : content'[i] = content[i] \/ content'[i] = Torn \/ c \in content'[i]
      BY <1>0, <2>1, <2>3 DEF StoreTypeOK
    <2>5. live \in Inode \cup {NoInode} /\ tmp \in Inode \cup {NoInode}
      BY <1>0 DEF StoreTypeOK
    <2>6. ASSUME NEW t \in Session, pc'[t] \in {"open", "write", "replace", "answer"}
          PROVE  c \in memory'[t]
      BY <1>0, <2>2, <2>6 DEF StoreTypeOK
    <2> QED
      BY <2>2, <2>4, <2>5, <2>6 DEF Recorded, Readable
  <1>7. ASSUME NEW s \in Session, Replace(s) PROVE Recorded(c)'
    <2>1. CASE Exit(s) /\ UNCHANGED <<live, tmp>>
      BY <1>1, <1>7, <2>1 DEF Replace
    <2>2. CASE /\ tmp # NoInode /\ live' = tmp /\ tmp' = NoInode
               /\ pc' = [pc EXCEPT ![s] = "answer"] /\ UNCHANGED memory
      <3>1. pc[s] = "replace" /\ content' = content
        BY <1>7 DEF Replace
      <3>2. ASSUME NEW t \in Session, pc'[t] \in {"open", "write", "replace", "answer"}
            PROVE  c \in memory'[t]
        BY <1>0, <2>2, <3>1, <3>2 DEF StoreTypeOK
      <3> QED
        BY <2>2, <3>1, <3>2 DEF Recorded, Readable
    <2> QED
      BY <1>7, <2>1, <2>2 DEF Replace
  <1>8. PowerFails => granted' = {}
    BY DEF PowerFails
  <1>9. UNCHANGED storeVars => Recorded(c)'
    BY DEF storeVars, disk, Recorded, Readable
  <1> QED
    BY <1>2, <1>3, <1>4, <1>5, <1>6, <1>7, <1>8, <1>9 DEF StoreNext

\* Only next grants, and a machine that fails takes every grant back.
LEMMA GrantedBy ==
    ASSUME [StoreNext]_storeVars, ~(granted' \subseteq granted)
    PROVE  \E s \in Session : /\ Answer(s) /\ Grants(s)
                              /\ granted' = granted \cup {cmd[s]}
  BY DEF StoreNext, StartRun, Call, Load, Quarantine, Open, Write, Replace, Answer, Kill,
         PowerFails, storeVars

LEMMA GuardedStep ==
    ASSUME Guarded, [StoreNext]_storeVars
    PROVE  Guarded' /\ (granted \subseteq overlapped \/ granted' \subseteq granted)
  <1>1. StoreTypeOK'
    BY StoreTypeStep
  <1>2. overlapped \subseteq overlapped'
    BY DEF StoreNext, StartRun, Call, Begins, Load, Quarantine, Open, Write, Replace, Answer,
           Kill, PowerFails, storeVars
  <1>3. ASSUME NEW c \in granted' \ overlapped' PROVE Recorded(c)'
    <2>1. CASE c \in granted
      BY <1>1, <1>2, <2>1, RecordedStays DEF Guarded
    <2>2. CASE c \notin granted
      <3>1. PICK s \in Session : Answer(s) /\ granted' = granted \cup {cmd[s]}
        BY <2>2, GrantedBy
      <3>2. c = cmd[s] /\ pc[s] = "answer" /\ cmd[s] \notin overlapped
        BY <1>2, <2>2, <3>1 DEF Answer
      <3>3. /\ c \in memory[s] /\ tmp = NoInode /\ content[live] = memory[s]
            /\ \A t \in Session \ {s} : pc[t] = "idle"
        BY <3>2 DEF Guarded, Solo
      <3>4. UNCHANGED <<live, tmp, content>> /\ Exit(s)
        BY <3>1 DEF Answer, disk
      <3>5. \A t \in Session : pc'[t] = "idle"
        BY <3>3, <3>4 DEF Exit, Guarded, StoreTypeOK
      <3> QED
        BY <3>3, <3>4, <3>5 DEF Recorded, Readable
    <2> QED
      BY <2>1, <2>2
  <1>4. ASSUME NEW c \in granted \ overlapped PROVE granted' \subseteq granted
    <2>1. SUFFICES ASSUME NEW s \in Session, Answer(s), Grants(s),
                          granted' = granted \cup {cmd[s]}
                   PROVE  cmd[s] \in granted
      BY GrantedBy
    <2>2. c \in memory[s] /\ c \in Nexts
      BY <2>1 DEF Guarded, Recorded, Answer, StoreTypeOK
    <2> QED
      BY <2>1, <2>2 DEF Grants
  <1>5. \A u \in Session : Solo(u)'
    BY <1>1, SoloStep
  <1> QED
    BY <1>1, <1>3, <1>4, <1>5, StoreTypeStep DEF Guarded

(***************************************************************************)
(* The concurrency guard of next, as far as it reaches: once a call of     *)
(* next that overlapped no other command has been told to execute the      *)
(* node, no other is until the machine fails, however the later ones       *)
(* overlap and wherever they are killed.                                   *)
(***************************************************************************)
THEOREM GrantedOnceAlways == StoreSpec => GrantedOnce
<1>1. Guarded /\ [StoreNext]_storeVars
      => Guarded' /\ [granted \subseteq overlapped \/ granted' \subseteq granted]_storeVars
  BY GuardedStep
<1> QED
  BY <1>1, GuardedInit, PTL DEF StoreSpec, GrantedOnce
=============================================================================
