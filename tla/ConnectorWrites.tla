--------------------------- MODULE ConnectorWrites ---------------------------
(***************************************************************************)
(* Connector operations that write, running side by side against one       *)
(* remote thing that other people change as well.                          *)
(*                                                                         *)
(* An operation may read first, sends one request (deploy: one probe, then *)
(* perhaps the upload), and turns what comes back into an answer, reading  *)
(* once more where its handler does.  The service is external.  It carries *)
(* out a request or refuses it, its answer may be lost, and a request      *)
(* nobody waits for any longer may still be carried out.                   *)
(***************************************************************************)
EXTENDS WriteOperations

CONSTANTS
    Caller,      \* the calls in progress
    Content,     \* what the thing may hold
    MaxVersion   \* bound on the changes other people make

ASSUME WritesAssumption == MaxVersion \in Nat

VARIABLES
    remote,     \* the thing: what it holds (nothing: it is not there), its version
    job,        \* each call: operation, desired content, dry run, named version
    pc,         \* "begin", "decide", "probe", "wait", "confirm" or "done"
    saw,        \* what the first read found
    form,       \* what the request asks for, and against which version
    wire,       \* "idle", "sent", "took", "twin" or "refused"
    late,       \* an earlier request may still be carried out
    verdict,    \* what the client made of the answer
    shrugged,   \* the probe was answered with a redirect or a server error
    answer,     \* what the caller was told
    took,       \* history: a request of this call has been carried out
    held        \* history: what the call wants was so at some moment of it

handler == <<pc, saw, form, verdict, shrugged, answer>>
service == <<remote, took, held>>
vars == <<remote, job, pc, saw, form, wire, late, verdict, shrugged, answer, took, held>>

Thing == [value : SUBSET Content, version : Nat]
Job == [op : Operation, want : Content, dry : BOOLEAN, pin : Nat]
Form == [does : {"create", "edit", "put", "add", "remove"}, against : Nat]

TypeOK ==
    /\ remote \in Thing
    /\ job \in [Caller -> Job]
    /\ pc \in [Caller -> {"begin", "decide", "probe", "wait", "confirm", "done"}]
    /\ saw \in [Caller -> Thing]
    /\ form \in [Caller -> Form]
    /\ wire \in [Caller -> {"idle", "sent", "took", "twin", "refused"}]
    /\ late \in [Caller -> BOOLEAN]
    /\ verdict \in [Caller -> {"none", "full", "partial", "junk", "twin", "doubt"}]
    /\ shrugged \in [Caller -> BOOLEAN]
    /\ answer \in [Caller -> {"none", "preview", "created", "reused", "reconciled",
                              "failed", "write_ambiguous", "error"}]
    /\ took \in [Caller -> BOOLEAN]
    /\ held \in [Caller -> BOOLEAN]

Op(c) == job[c].op

\* The state a call is after.
Done(j, value) ==
    IF j.op.does = "remove" THEN value = {}
    ELSE IF j.op.any THEN value # {}
    ELSE j.want \in value

Init ==
    /\ remote \in [value : {{}} \cup {{x} : x \in Content}, version : {1}]
    /\ job \in [Caller -> [op : Operation, want : Content, dry : BOOLEAN, pin : 0 .. 1]]
    /\ \A c, d \in Caller : Op(c).on = Op(d).on
    /\ \A c \in Caller :
        /\ Op(c).preview = "never" => ~job[c].dry
        /\ ~Op(c).pins => job[c].pin = 0
    /\ pc = [c \in Caller |-> "begin"]
    /\ saw = [c \in Caller |-> [value |-> {}, version |-> 0]]
    /\ form = [c \in Caller |-> [does |-> Op(c).does, against |-> job[c].pin]]
    /\ wire = [c \in Caller |-> "idle"]
    /\ late = [c \in Caller |-> FALSE]
    /\ verdict = [c \in Caller |-> "none"]
    /\ shrugged = [c \in Caller |-> FALSE]
    /\ answer = [c \in Caller |-> "none"]
    /\ took = [c \in Caller |-> FALSE]
    /\ held = [c \in Caller |-> Done(job[c], remote.value)]

-----------------------------------------------------------------------------
(* Before the request.                                                     *)

Tell(c, told) ==
    /\ pc' = [pc EXCEPT ![c] = "done"]
    /\ answer' = [answer EXCEPT ![c] = told]

\* A first read: part of the operation, or all that a dry run does.
Reads(c) ==
    \/ Op(c).looks \notin {"no", "probe"}
    \/ job[c].dry /\ Op(c).preview = "after"

PreviewsFirst(c) == job[c].dry /\ Op(c).preview = "before"

\* A bad argument, a missing confirmation, a read that fails.
GiveUp(c) ==
    /\ pc[c] = "begin"
    /\ Tell(c, "failed")
    /\ UNCHANGED <<job, saw, form, wire, late, verdict, shrugged, service>>

Preview(c) ==
    /\ pc[c] = "begin" /\ PreviewsFirst(c)
    /\ Tell(c, "preview")
    /\ UNCHANGED <<job, saw, form, wire, late, verdict, shrugged, service>>

Look(c) ==
    /\ pc[c] = "begin" /\ Reads(c) /\ ~PreviewsFirst(c)
    /\ pc' = [pc EXCEPT ![c] = "decide"]
    /\ saw' = [saw EXCEPT ![c] = remote]
    /\ UNCHANGED <<job, form, wire, late, verdict, shrugged, answer, service>>

\* A slip: a branch of that name is taken for the branch that was asked for.
FindsByName(c) ==
    IF Op(c).looks = "same" /\ saw[c].value # {} THEN "reused" ELSE "none"

\* What was found may end the operation.  A file must be there to be deleted,
\* and be the version its caller named, if it is there.
Finding(c) ==
    LET there == saw[c].value # {}
        fits == Done(job[c], saw[c].value)
    IN CASE Op(c).looks \in {"reused", "duplicate"} /\ fits -> "reused"
         [] Op(c).looks = "same" /\ there -> IF fits THEN "reused" ELSE "failed"
         [] Op(c).looks = "version" /\ ~there -> "failed"
         [] Op(c).looks = "head" /\ ~there /\ Op(c).does = "remove" -> "failed"
         [] Op(c).looks = "head" /\ there /\ job[c].pin \notin {0, saw[c].version} -> "failed"
         [] OTHER -> "none"

Stop(c) ==
    /\ pc[c] = "decide"
    /\ \/ Finding(c) # "none" /\ Tell(c, Finding(c))
       \/ Finding(c) = "none" /\ job[c].dry /\ Tell(c, "preview")
    /\ UNCHANGED <<job, saw, form, wire, late, verdict, shrugged, service>>

\* A slip: the version that was seen is forgotten.
AsksUnpinned(c) == [does |-> Op(c).does, against |-> job[c].pin]

\* An update of a file that is gone creates it, whichever version was named; a
\* creation of one that is there edits the version that was seen.
Asks(c) ==
    CASE Op(c).looks = "version" -> [does |-> "edit", against |-> saw[c].version]
      [] Op(c).looks = "head" ->
            IF saw[c].value = {} THEN [does |-> "create", against |-> 0]
            ELSE [does |-> IF Op(c).does = "remove" THEN "remove" ELSE "edit",
                  against |-> saw[c].version]
      [] OTHER -> [does |-> Op(c).does, against |-> job[c].pin]

Send(c) ==
    /\ ~job[c].dry
    /\ \/ pc[c] = "begin" /\ ~Reads(c)
       \/ pc[c] = "decide" /\ Finding(c) = "none"
    /\ form' = [form EXCEPT ![c] = Asks(c)]
    /\ wire' = [wire EXCEPT ![c] = "sent"]
    /\ pc' = [pc EXCEPT ![c] = IF Op(c).looks = "probe" THEN "probe" ELSE "wait"]
    /\ UNCHANGED <<job, saw, late, verdict, shrugged, answer, service>>

-----------------------------------------------------------------------------
(* The service, and everybody else.                                        *)

CanServe(c) ==
    /\ form[c].does = "create" => remote.value = {}
    /\ form[c].does \in {"edit", "remove"} => remote.value # {}
    /\ form[c].against \in {0, remote.version}

Becomes(value) ==
    /\ remote' = [value |-> value, version |-> remote.version + 1]
    /\ held' = [d \in Caller |-> held[d] \/ Done(job[d], value)]

CarryOut(c) ==
    /\ CanServe(c)
    /\ Becomes(CASE form[c].does = "remove" -> {}
                 [] form[c].does = "add" -> remote.value \cup {job[c].want}
                 [] OTHER -> {job[c].want})
    /\ took' = [took EXCEPT ![c] = TRUE]

\* A "twin" says that the thing is there already, or is gone already; of other
\* requests it says that they conflict with something.
TwinIsTrue(c) ==
    /\ form[c].does = "create" => remote.value # {}
    /\ form[c].does = "remove" => remote.value = {}

Serve(c) ==
    /\ wire[c] = "sent"
    /\ CarryOut(c)
    /\ wire' = [wire EXCEPT ![c] = "took"]
    /\ UNCHANGED <<job, late, handler>>

Refuse(c) ==
    /\ wire[c] = "sent"
    /\ \E no \in {"twin", "refused"} :
        /\ no = "twin" => TwinIsTrue(c)
        /\ wire' = [wire EXCEPT ![c] = no]
    /\ UNCHANGED <<job, late, handler, service>>

ServeLate(c) ==
    /\ late[c]
    /\ CarryOut(c)
    /\ late' = [late EXCEPT ![c] = FALSE]
    /\ UNCHANGED <<job, wire, handler>>

Meddle ==
    /\ remote.version < MaxVersion
    /\ \E value \in {{}} \cup {{x} : x \in Content} :
        value # remote.value /\ Becomes(value)
    /\ UNCHANGED <<job, wire, late, took, handler>>

-----------------------------------------------------------------------------
(* After the request.                                                      *)

\* The handler either answers, or reads again.
Conclude(c, v) ==
    /\ verdict' = [verdict EXCEPT ![c] = v]
    /\ \/ Op(c)[v] = "read" /\ pc' = [pc EXCEPT ![c] = "confirm"] /\ UNCHANGED answer
       \/ Op(c)[v] # "read" /\ Tell(c, Op(c)[v])

Settled(c) == wire' = [wire EXCEPT ![c] = "idle"]

\* A success, as complete as its body: one with gaps can be told from an unusable
\* one only if it need not have everything.
Evidence(c) ==
    {v \in {"full", "partial", "junk"} : v = "partial" => Op(c).identity # Op(c).result}

HearYes(c) ==
    /\ pc[c] \in {"probe", "wait"} /\ wire[c] = "took"
    /\ \E v \in Evidence(c) : Conclude(c, v)
    /\ Settled(c)
    /\ UNCHANGED <<job, saw, form, late, shrugged, service>>

HearTwin(c) ==
    /\ pc[c] = "wait" /\ wire[c] = "twin"
    /\ Conclude(c, "twin") /\ Settled(c)
    /\ UNCHANGED <<job, saw, form, late, shrugged, service>>

HearNo(c) ==
    /\ pc[c] = "wait" /\ wire[c] = "refused"
    /\ Tell(c, "failed") /\ Settled(c)
    /\ UNCHANGED <<job, saw, form, late, verdict, shrugged, service>>

\* No answer, or one that settles nothing: a redirect, a server error, a body
\* cut short, time out, a call cancelled while it waits.
Doubt(c) ==
    /\ pc[c] \in {"probe", "wait"} /\ wire[c] # "idle"
    /\ Conclude(c, "doubt") /\ Settled(c)
    /\ late' = [late EXCEPT ![c] = late[c] \/ wire[c] = "sent"]
    /\ UNCHANGED <<job, saw, form, shrugged, service>>

\* A probe that was refused, redirected or met a server error: upload the file.
Upgrade(c) ==
    /\ pc[c] = "probe"
    /\ \/ wire[c] \in {"twin", "refused"} /\ UNCHANGED shrugged
       \/ shrugged' = [shrugged EXCEPT ![c] = TRUE]
    /\ late' = [late EXCEPT ![c] = wire[c] = "sent"]
    /\ pc' = [pc EXCEPT ![c] = "wait"]
    /\ wire' = [wire EXCEPT ![c] = "sent"]
    /\ UNCHANGED <<job, saw, form, verdict, answer, service>>

-----------------------------------------------------------------------------
(* The second read.  A commit is read by the id its answer gave, so only   *)
(* whether it was made matters; everything else is read by name.           *)

Found(c) ==
    IF Op(c).looks = "head" THEN took[c] ELSE Done(job[c], remote.value)

\* A slip: whatever goes wrong after the request is a failure.
UnsettledIsFailed(c) == "failed"

\* Not found, unreadable, or not what it must be.
Unsettled(c) ==
    IF verdict[c] = "twin" /\ Op(c).looks # "same" THEN "failed" ELSE "write_ambiguous"

Settles(c) ==
    CASE verdict[c] \in {"full", "partial"} -> "created"
      [] verdict[c] = "twin" ->
            IF Op(c).looks = "duplicate" THEN "reconciled" ELSE "reused"
      [] OTHER -> "reconciled"

Confirm(c) ==
    /\ pc[c] = "confirm"
    /\ \/ Found(c) /\ Tell(c, Settles(c))
       \/ Tell(c, Unsettled(c))
    /\ UNCHANGED <<job, saw, form, wire, late, verdict, shrugged, service>>

-----------------------------------------------------------------------------
Next ==
    \/ \E c \in Caller :
        \/ GiveUp(c) \/ Preview(c) \/ Look(c) \/ Stop(c) \/ Send(c)
        \/ Serve(c) \/ Refuse(c) \/ ServeLate(c)
        \/ HearYes(c) \/ HearTwin(c) \/ HearNo(c) \/ Doubt(c) \/ Upgrade(c)
        \/ Confirm(c)
    \/ Meddle

Spec == Init /\ [][Next]_vars

-----------------------------------------------------------------------------
(* Properties.                                                             *)

\* What an answer commits the connector to.  A preview, a reuse and a failure
\* say that the call itself changes nothing, now or later; the exception is an
\* upload that failed after its probe was not settled.
Told(c) ==
    CASE answer[c] = "none" -> "open"
      [] answer[c] = "created" -> "ok"
      [] answer[c] \in {"preview", "reused"} -> "failed"
      [] answer[c] = "failed" /\ ~shrugged[c] -> "failed"
      [] OTHER -> "ambiguous"

Write == INSTANCE RemoteWrite WITH
    Request <- Caller,
    effect <- [c \in Caller |-> IF took[c] THEN 1 ELSE 0],
    verdict <- [c \in Caller |-> Told(c)]

\* Every operation of every connector keeps the promise of RemoteWrite: its
\* caller hears that the change was made only if it was, and that it failed, is
\* only planned or was not needed only if the call makes no change, not even
\* after the caller has stopped waiting.
ImplementsWrite == Write!Spec

\* update_page and commit_changes look before they write.
Careful(c) == Op(c).looks \in {"version", "head"}

\* An update of a file that is not there is sent as a creation; last_commit_id,
\* if the caller gave one, is dropped (operations.py:3168-3170).
Recreates(c) == Op(c).looks = "head" /\ Op(c).does = "edit" /\ saw[c].value = {}

Replaces(c, value, version) ==
    /\ Careful(c) => /\ value = saw[c].value
                     /\ value # {} => version = saw[c].version
    /\ job[c].pin # 0 => version = job[c].pin \/ Recreates(c)

(***************************************************************************)
(* An operation that looks before it writes replaces what it looked at,    *)
(* and one that is given a version (merge, approve, move, recycle, update  *)
(* and delete a file) replaces that version, and not what somebody wrote   *)
(* in between.  The one exception is the code's own: an update of a file   *)
(* that is not there any more forgets the version it was given and creates *)
(* the file, where gitlab-behavior-map.md:91 wants a conflict; it replaces *)
(* nothing, for it too replaces only what it looked at.                    *)
(***************************************************************************)
NoLostUpdate ==
    [][\A c \in Caller : ~took[c] /\ took'[c] => Replaces(c, remote.value, remote.version)]_vars

\* An answer that names a result is about something that was there: the wanted
\* state held at some moment of the call, whoever brought it about.
AnswerWasTrue ==
    \A c \in Caller : answer[c] \in {"created", "reused", "reconciled"} => held[c]
=============================================================================
