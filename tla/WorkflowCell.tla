---------------------------- MODULE WorkflowCell ----------------------------
(***************************************************************************)
(* What workflow_ctl.py promises of state.json: a cell that commands       *)
(* update one after the other.  A command takes effect at one instant and  *)
(* is answered only after that; it may also be lost before it has any      *)
(* effect, but then it is not answered.                                    *)
(*                                                                         *)
(* Nothing is promised to last when the machine fails: the state goes back *)
(* to one that it has been, as a whole, or it is lost.  Once it is lost no *)
(* command takes effect or is answered, so nobody works on a state that    *)
(* was never reached.                                                      *)
(***************************************************************************)
CONSTANT Command

VARIABLES applied,    \* the commands whose effect the state holds
          past,       \* the states it has been in since the machine last failed
          answered,   \* the commands that reported success since then
          lost        \* the state has been lost

Init == applied = {} /\ past = {} /\ answered = {} /\ lost = FALSE

Apply(c) ==
    /\ ~lost /\ c \notin applied
    /\ applied' = applied \cup {c}
    /\ past' = past \cup {applied'}
    /\ UNCHANGED <<answered, lost>>

Answer(c) ==
    /\ c \in applied \ answered
    /\ answered' = answered \cup {c}
    /\ UNCHANGED <<applied, past, lost>>

GoBack ==
    /\ \E state \in past : applied' = state /\ past' = {state}
    /\ answered' = {}
    /\ UNCHANGED lost

Lose ==
    /\ lost' = TRUE
    /\ applied' = {} /\ past' = {} /\ answered' = {}

Next == GoBack \/ Lose \/ \E c \in Command : Apply(c) \/ Answer(c)

Spec == Init /\ [][Next]_<<applied, past, answered, lost>>
=============================================================================
