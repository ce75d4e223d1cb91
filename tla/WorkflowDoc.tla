---------------------------- MODULE WorkflowDoc ----------------------------
(***************************************************************************)
(* The workflow file of workflow_ctl.py: what a YAML document declares,    *)
(* when validate_workflow accepts it, how a `when` condition is evaluated, *)
(* and which nodes one scan of compute_next skips and where it stops.      *)
(*                                                                         *)
(* Everything here is a constant-level operator.  The scan is given by its *)
(* meaning (a least set of skipped nodes and a first node that stops it);  *)
(* module WorkflowScan holds the loop of the source and is checked against *)
(* these definitions.                                                      *)
(***************************************************************************)
EXTENDS Naturals

CONSTANTS
    Node,       \* every node id any version of the workflow file uses
    Input,      \* names of the declared inputs
    Value,      \* values of inputs and recorded one-line summaries
    None,       \* Python's None
    Doc,        \* the contents the workflow file can have (one per sha256)
    DocDef      \* what each content declares

Kind == {"prompt", "tool", "script", "approval"}

Ref == Node \cup Input

\* One comparison of a when expression: `ref == val` or `ref != val`.
Cond == [ref : Ref, eq : BOOLEAN, val : Value]

(***************************************************************************)
(* ids and rank give the nodes in file order (node_order); when is the     *)
(* OR-set of AND-sets parse_when returns, {} for a node without `when`.    *)
(***************************************************************************)
Declaration ==
    [ids   : SUBSET Node,
     rank  : [Node -> Nat],
     deps  : [Node -> SUBSET Node],
     kind  : [Node -> Kind],
     sideEffects : [Node -> BOOLEAN],
     when  : [Node -> SUBSET (SUBSET Cond)]]

ASSUME DocAssumption ==
    /\ None \notin Value \cup Node
    /\ Node \cap Input = {}
    /\ DocDef \in [Doc -> Declaration]
    /\ \A d \in Doc : \A m, n \in DocDef[d].ids :
          DocDef[d].rank[m] = DocDef[d].rank[n] => m = n

Ids(d) == DocDef[d].ids
Rank(d, n) == DocDef[d].rank[n]
Deps(d, n) == DocDef[d].deps[n]

-----------------------------------------------------------------------------
(* Validation.                                                             *)

(***************************************************************************)
(* Kahn's algorithm consumes every node exactly when no non-empty set of   *)
(* nodes has, for each member, a dependency inside the set.  A file that   *)
(* lists a dependency twice is refused whatever its graph (WorkflowScan);  *)
(* here it is one more invalid content.                                    *)
(***************************************************************************)
Acyclic(d) ==
    \A X \in SUBSET Ids(d) :
        X # {} => \E n \in X : Deps(d, n) \cap X = {}

KnownRefs(d) ==
    \A n \in Ids(d) : \A g \in DocDef[d].when[n] : \A c \in g :
        c.ref \in Ids(d) \cup Input

Valid(d) ==
    /\ Ids(d) # {}
    /\ \A n \in Ids(d) : Deps(d, n) \subseteq Ids(d)
    /\ Acyclic(d)
    /\ KnownRefs(d)

-----------------------------------------------------------------------------
(* Conditions.  resolve maps a reference to its value, or to None.         *)

EvalWhen(groups, resolve) ==
    \E g \in groups : \A c \in g :
        /\ resolve[c.ref] # None
        /\ c.eq <=> (resolve[c.ref] = c.val)

WhenHolds(d, n, resolve) ==
    DocDef[d].when[n] = {} \/ EvalWhen(DocDef[d].when[n], resolve)

-----------------------------------------------------------------------------
(* One scan of compute_next over the node statuses ns.                     *)

ActiveAtGateOnly == {"waiting_approval"}

Active == {"running", "waiting_approval"}

DepsOk(d, ns, n) == \A m \in Deps(d, n) : ns[m] = "ok"

DepBlocked(d, ns, n) == \E m \in Deps(d, n) : ns[m] \in {"failed", "rejected"}

\* Two slips: dependencies are not asked, or a skipped one counts as met.
ReadyAnyDeps(d, ns, resolve, n) ==
    ns[n] = "pending" /\ WhenHolds(d, n, resolve)

\* n can be handed out, or parked when it is a gate.
Ready(d, ns, resolve, n) ==
    /\ ns[n] = "pending"
    /\ DepsOk(d, ns, n)
    /\ WhenHolds(d, n, resolve)

\* The nodes the scan returns at.  Skipping other nodes never changes them.
Stops(d, ns, resolve) ==
    {n \in Ids(d) : ns[n] \in Active \/ Ready(d, ns, resolve, n)}

FirstStop(d, ns, resolve, h) ==
    /\ h \in Stops(d, ns, resolve)
    /\ \A n \in Stops(d, ns, resolve) : Rank(d, h) <= Rank(d, n)

\* Without the cascade from a skipped dependency.
SkippableByWhen(d, ns, resolve, n, S) ==
    DepsOk(d, ns, n) /\ ~WhenHolds(d, n, resolve)

\* The scan skips n once the nodes in S have been skipped.
Skippable(d, ns, resolve, n, S) ==
    /\ ~DepBlocked(d, ns, n)
    /\ \/ \E m \in Deps(d, n) : ns[m] = "skipped" \/ m \in S
       \/ DepsOk(d, ns, n) /\ ~WhenHolds(d, n, resolve)

(***************************************************************************)
(* A scan that stops at h does so in its first pass: it has visited the    *)
(* pending nodes before h once, in file order, so a skip is seen only by   *)
(* the nodes after it.                                                     *)
(***************************************************************************)
VisitedBefore(d, ns, h) ==
    {n \in Ids(d) : ns[n] = "pending" /\ Rank(d, n) < Rank(d, h)}

Earlier(d, X, n) == {m \in X : Rank(d, m) < Rank(d, n)}

PassClosed(d, ns, resolve, V, X) ==
    \A n \in V : Skippable(d, ns, resolve, n, Earlier(d, X, n)) => n \in X

PassSkips(d, ns, resolve, h) ==
    LET V == VisitedBefore(d, ns, h)
    IN  {n \in V : \A X \in SUBSET V : PassClosed(d, ns, resolve, V, X) => n \in X}

\* A scan that stops nowhere repeats its pass until nothing changes.
Pending(d, ns) == {n \in Ids(d) : ns[n] = "pending"}

Closed(d, ns, resolve, X) ==
    \A n \in Pending(d, ns) : Skippable(d, ns, resolve, n, X) => n \in X

AllSkips(d, ns, resolve) ==
    {n \in Pending(d, ns) :
        \A X \in SUBSET Pending(d, ns) : Closed(d, ns, resolve, X) => n \in X}

\* The statuses after the nodes in S have been skipped.
Skipping(ns, S) == [n \in DOMAIN ns |-> IF n \in S THEN "skipped" ELSE ns[n]]
=============================================================================
