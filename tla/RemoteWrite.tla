---------------------------- MODULE RemoteWrite ----------------------------
(***************************************************************************)
(* What a connector may rely on when it asks a remote service to change    *)
(* something.  A request takes effect at most once.  Its caller is told    *)
(* "ok" only when it has, "failed" only when it has not and never will,    *)
(* and otherwise "ambiguous": then the effect may still come, even later.  *)
(***************************************************************************)
EXTENDS Naturals

CONSTANT Request

VARIABLES effect,   \* how often each request has taken effect
          verdict   \* what each caller has been told

Init ==
    /\ effect = [r \in Request |-> 0]
    /\ verdict = [r \in Request |-> "open"]

TakeEffect(r) ==
    /\ effect[r] = 0
    /\ verdict[r] \in {"open", "ambiguous"}
    /\ effect' = [effect EXCEPT ![r] = 1]
    /\ UNCHANGED verdict

Tell(r, answer) ==
    /\ verdict[r] = "open"
    /\ verdict' = [verdict EXCEPT ![r] = answer]
    /\ UNCHANGED effect

Next ==
    \E r \in Request :
        \/ TakeEffect(r)
        \/ effect[r] = 1 /\ Tell(r, "ok")
        \/ effect[r] = 0 /\ Tell(r, "failed")
        \/ Tell(r, "ambiguous")

Spec == Init /\ [][Next]_<<effect, verdict>>
=============================================================================
