--------------------------- MODULE MCWorkflowScan ---------------------------
(***************************************************************************)
(* Every workflow of three nodes in the file order a, b, c, with cycles    *)
(* and self-dependencies; those without conditions also with a condition   *)
(* on the one input at any of their nodes, or with a dependency of b or c  *)
(* on a that is listed twice.  A content is a declaration with its repeats.*)
(***************************************************************************)
EXTENDS WorkflowScan

MCNode == {"a", "b", "c"}
MCInput == {"go"}
MCValue == {"yes"}

OnYes(r) == {{[ref |-> r, eq |-> TRUE, val |-> "yes"]}}

Files(deps, when) ==
    [ids : {MCNode}, rank : {[a |-> 1, b |-> 2, c |-> 3]},
     deps : deps,
     kind : {[n \in MCNode |-> "prompt"]},
     sideEffects : {[n \in MCNode |-> FALSE]},
     when : when]

NoWhen == {[n \in MCNode |-> {}]}

Plain == Files([MCNode -> SUBSET MCNode], NoWhen)

Conditional ==
    Files({f \in [MCNode -> SUBSET MCNode] : \A n \in MCNode : n \notin f[n]},
          [MCNode -> {{}, OnYes("go")}])

OnA(n) == Files({f \in [MCNode -> SUBSET MCNode] : "a" \in f[n]}, NoWhen)

MCDoc ==
    ((Plain \cup Conditional) \X {{}})
    \cup (OnA("b") \X {{<<"b", "a">>}}) \cup (OnA("c") \X {{<<"c", "a">>}})

MCDocDef == [d \in Doc |-> d[1]]
MCRepeats == [d \in Doc |-> d[2]]
=============================================================================
