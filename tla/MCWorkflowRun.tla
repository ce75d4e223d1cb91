---------------------------- MODULE MCWorkflowRun ----------------------------
(***************************************************************************)
(* Small workflow files for TLC.  Every file is a member of Files; a       *)
(* configuration picks the contents the workflow file may take with Doc.   *)
(***************************************************************************)
EXTENDS WorkflowRunProps, TLC

MCNode == {"a", "b", "c"}
MCInput == {"go"}
MCValue == {"yes", "no"}
OneValue == {"yes"}

\* Sessions are interchangeable; used only where no liveness is checked.
Sessions == Permutations(Agent)

OnYes(r) == {{[ref |-> r, eq |-> TRUE, val |-> "yes"]}}
NoWhen == [n \in MCNode |-> {}]
NoDeps == [n \in MCNode |-> {}]
InOrder == [a |-> 1, b |-> 2, c |-> 3]

\* a is work, b a gate behind it, c an outward action behind the gate,
\* taken only when a reported "yes".
Base ==
    [ids |-> MCNode, rank |-> InOrder,
     deps |-> [a |-> {}, b |-> {"a"}, c |-> {"b"}],
     kind |-> [a |-> "prompt", b |-> "approval", c |-> "tool"],
     sideEffects |-> [a |-> FALSE, b |-> FALSE, c |-> TRUE],
     when |-> [NoWhen EXCEPT !.c = OnYes("a")]]

\* The same nodes declared backwards: a skip has to travel against file order.
Backwards ==
    [Base EXCEPT !.rank = [a |-> 3, b |-> 2, c |-> 1],
                 !.when = [NoWhen EXCEPT !.a = OnYes("go")]]

\* An edit that reorders, drops c, and makes b an outward action without a gate.
Reworked ==
    [ids |-> {"a", "b"}, rank |-> [a |-> 2, b |-> 1, c |-> 3],
     deps |-> NoDeps,
     kind |-> [a |-> "prompt", b |-> "script", c |-> "tool"],
     sideEffects |-> [a |-> TRUE, b |-> TRUE, c |-> FALSE],
     when |-> NoWhen]

\* An edit that leaves the file invalid.
Cyclic == [Base EXCEPT !.deps = [a |-> {"c"}, b |-> {"a"}, c |-> {"b"}]]

Files == [base |-> Base, backwards |-> Backwards, reworked |-> Reworked,
          cyclic |-> Cyclic]

MCDocDef == [d \in Doc |-> Files[d]]
=============================================================================
