--------------------- MODULE ConnectorRequests_proofs ----------------------
(***************************************************************************)
(* Every connector operation that changes something, for any number of     *)
(* calls in progress and any contents, tells its caller the truth and      *)
(* overwrites only what it saw.                                            *)
(*                                                                         *)
(* A session that pages through a listing and is told "complete" has every *)
(* entry under the page ceiling, whatever its limits, however many sources *)
(* and failures; of a list cut by the ceiling it has been told before.     *)
(***************************************************************************)
EXTENDS ConnectorWrites, PagedListing, FiniteSetTheorems, TLAPS

Answers == {"none", "preview", "created", "reused", "reconciled",
            "failed", "write_ambiguous", "error"}

\* What the rows of WriteOperations have in common.
RowOK(o) ==
    /\ o.does \in {"create", "edit", "put", "add", "remove"}
    /\ o["full"] \in {"created", "read"}
    /\ o["partial"] \in {"created", "write_ambiguous", "error", "read"}
    /\ o["junk"] \in {"created", "write_ambiguous", "error", "read"}
    /\ o["twin"] \in {"failed", "reused", "read"}
    /\ o["doubt"] \in {"write_ambiguous", "error", "read"}
    /\ o["twin"] = "reused" => o.does = "remove"
    /\ o.looks = "probe" => o["twin"] = "failed"
    /\ o.looks = "version" => o.does = "edit" /\ ~o.pins
    /\ o.looks = "head" => o.does \in {"edit", "remove"} \/ (o.does = "create" /\ ~o.pins)

LEMMA GitLabRows ==
    /\ RowOK(RetryJob)
    /\ RowOK(PlayJob)
    /\ RowOK(RetryPipeline)
    /\ RowOK(CreateMrNote)
    /\ RowOK(ReplyToDiscussion)
    /\ RowOK(ResolveDiscussion)
    /\ RowOK(ApproveMergeRequest)
    /\ RowOK(MergeMergeRequest)
    /\ RowOK(UpdateMergeRequest)
    /\ RowOK(CreateBranch)
    /\ RowOK(CreateNamedBranch)
    /\ RowOK(CreateMergeRequest)
    /\ RowOK(CommitChanges("create"))
    /\ RowOK(CommitChanges("edit"))
    /\ RowOK(CommitChanges("remove"))
  <1>1. RowOK(RetryJob)
    BY DEF RowOK, Plain, OnGitLab, CiAction, RetryJob
  <1>2. RowOK(PlayJob)
    BY DEF RowOK, Plain, OnGitLab, CiAction, PlayJob
  <1>3. RowOK(RetryPipeline)
    BY DEF RowOK, Plain, OnGitLab, CiAction, RetryPipeline
  <1>4. RowOK(CreateMrNote)
    BY DEF RowOK, Plain, OnGitLab, CreateMrNote
  <1>5. RowOK(ReplyToDiscussion)
    BY DEF RowOK, Plain, OnGitLab, ReplyToDiscussion
  <1>6. RowOK(ResolveDiscussion)
    BY DEF RowOK, Plain, OnGitLab, ResolveDiscussion
  <1>7. RowOK(ApproveMergeRequest)
    BY DEF RowOK, Plain, OnGitLab, ApproveMergeRequest
  <1>8. RowOK(MergeMergeRequest)
    BY DEF RowOK, Plain, OnGitLab, MergeMergeRequest
  <1>9. RowOK(UpdateMergeRequest)
    BY DEF RowOK, Plain, OnGitLab, UpdateMergeRequest
  <1>10. RowOK(CreateBranch)
    BY DEF RowOK, Plain, OnGitLab, CreateBranch
  <1>11. RowOK(CreateNamedBranch)
    BY DEF RowOK, Plain, OnGitLab, CreateNamedBranch
  <1>12. RowOK(CreateMergeRequest)
    BY DEF RowOK, Plain, OnGitLab, CreateMergeRequest
  <1>13. RowOK(CommitChanges("create"))
    BY DEF RowOK, Plain, OnGitLab, CommitChanges
  <1>14. RowOK(CommitChanges("edit"))
    BY DEF RowOK, Plain, OnGitLab, CommitChanges
  <1>15. RowOK(CommitChanges("remove"))
    BY DEF RowOK, Plain, OnGitLab, CommitChanges
  <1> QED BY <1>1, <1>2, <1>3, <1>4, <1>5, <1>6, <1>7, <1>8, <1>9, <1>10, <1>11, <1>12, <1>13, <1>14, <1>15

LEMMA JiraRows ==
    /\ RowOK(CreateIssue)
    /\ RowOK(AssignIssue)
    /\ RowOK(UpdateFields)
    /\ RowOK(ManageLabels)
    /\ RowOK(Transition(TRUE))
    /\ RowOK(Transition(FALSE))
    /\ RowOK(LinkIssues)
    /\ RowOK(AddJiraComment)
  <1>1. RowOK(CreateIssue)
    BY DEF RowOK, Plain, OnJira, CreateIssue
  <1>2. RowOK(AssignIssue)
    BY DEF RowOK, Plain, OnJira, AssignIssue
  <1>3. RowOK(UpdateFields)
    BY DEF RowOK, Plain, OnJira, UpdateFields
  <1>4. RowOK(ManageLabels)
    BY DEF RowOK, Plain, OnJira, ManageLabels
  <1>5. RowOK(Transition(TRUE))
    BY DEF RowOK, Plain, OnJira, Transition
  <1>6. RowOK(Transition(FALSE))
    BY DEF RowOK, Plain, OnJira, Transition
  <1>7. RowOK(LinkIssues)
    BY DEF RowOK, Plain, OnJira, LinkIssues
  <1>8. RowOK(AddJiraComment)
    BY DEF RowOK, Plain, OnJira, AddJiraComment
  <1> QED BY <1>1, <1>2, <1>3, <1>4, <1>5, <1>6, <1>7, <1>8

LEMMA OtherRows ==
    /\ RowOK(CreatePage)
    /\ RowOK(AddPageComment)
    /\ RowOK(UpdatePage)
    /\ RowOK(Deploy)
    /\ RowOK(DeleteArtifact)
    /\ RowOK(CreateFolder(TRUE))
    /\ RowOK(CreateFolder(FALSE))
    /\ RowOK(MoveItem)
    /\ RowOK(CopyItem)
    /\ RowOK(RecycleItem)
    /\ RowOK(Upload("fail"))
    /\ RowOK(Upload("replace"))
    /\ RowOK(Upload("rename"))
    /\ RowOK(TeamsSend)
    /\ RowOK(TeamsReply)
  <1>1. RowOK(CreatePage)
    BY DEF RowOK, Plain, CreatePage
  <1>2. RowOK(AddPageComment)
    BY DEF RowOK, Plain, AddPageComment
  <1>3. RowOK(UpdatePage)
    BY DEF RowOK, Plain, UpdatePage
  <1>4. RowOK(Deploy)
    BY DEF RowOK, Plain, Deploy
  <1>5. RowOK(DeleteArtifact)
    BY DEF RowOK, Plain, DeleteArtifact
  <1>6. RowOK(CreateFolder(TRUE))
    BY DEF RowOK, Plain, OnSharePoint, CreateFolder
  <1>7. RowOK(CreateFolder(FALSE))
    BY DEF RowOK, Plain, OnSharePoint, CreateFolder
  <1>8. RowOK(MoveItem)
    BY DEF RowOK, Plain, OnSharePoint, MoveItem
  <1>9. RowOK(CopyItem)
    BY DEF RowOK, Plain, OnSharePoint, CopyItem
  <1>10. RowOK(RecycleItem)
    BY DEF RowOK, Plain, OnSharePoint, RecycleItem
  <1>11. RowOK(Upload("fail"))
    BY DEF RowOK, Plain, OnSharePoint, Upload
  <1>12. RowOK(Upload("replace"))
    BY DEF RowOK, Plain, OnSharePoint, Upload
  <1>13. RowOK(Upload("rename"))
    BY DEF RowOK, Plain, OnSharePoint, Upload
  <1>14. RowOK(TeamsSend)
    BY DEF RowOK, Plain, OnTeams, TeamsSend
  <1>15. RowOK(TeamsReply)
    BY DEF RowOK, Plain, OnTeams, TeamsReply
  <1> QED BY <1>1, <1>2, <1>3, <1>4, <1>5, <1>6, <1>7, <1>8, <1>9, <1>10, <1>11, <1>12, <1>13, <1>14, <1>15

LEMMA Rows == \A o \in Operation : RowOK(o)
  BY GitLabRows, JiraRows, OtherRows, Zenon DEF Operation

-----------------------------------------------------------------------------
(* Types.                                                                  *)

LEMMA DoneBoolean == \A j \in Job, v \in SUBSET Content : Done(j, v) \in BOOLEAN
  <1> TAKE j \in Job, v \in SUBSET Content
  <1>1. CASE j.op.does = "remove"
    BY <1>1 DEF Done
  <1>2. CASE j.op.does # "remove" /\ j.op.any
    BY <1>2 DEF Done
  <1>3. CASE j.op.does # "remove" /\ ~j.op.any
    BY <1>3 DEF Done
  <1> QED BY <1>1, <1>2, <1>3

LEMMA AsksForm ==
    ASSUME TypeOK, NEW c \in Caller
    PROVE  Asks(c) \in Form
  <1>1. /\ job[c] \in Job /\ RowOK(Op(c)) /\ saw[c] \in Thing
    BY Rows DEF TypeOK, Op, Job
  <1> QED BY <1>1 DEF Asks, Form, Thing, Job, RowOK, Op

LEMMA ConcludeTypes ==
    ASSUME TypeOK, NEW c \in Caller, NEW v \in {"full", "partial", "junk", "twin", "doubt"},
           Conclude(c, v)
    PROVE  /\ pc' \in [Caller -> {"begin", "decide", "probe", "wait", "confirm", "done"}]
           /\ verdict' \in [Caller -> {"none", "full", "partial", "junk", "twin", "doubt"}]
           /\ answer' \in [Caller -> Answers]
  <1>1. RowOK(Op(c))
    BY Rows DEF TypeOK, Op, Job
  <1>2. Op(c)[v] # "read" => Op(c)[v] \in Answers
    BY <1>1 DEF RowOK, Answers
  <1> QED BY <1>2 DEF Conclude, Tell, TypeOK, Answers

LEMMA CarryOutTypes ==
    ASSUME TypeOK, NEW c \in Caller, CarryOut(c)
    PROVE  /\ remote' \in Thing
           /\ held' \in [Caller -> BOOLEAN]
           /\ took' \in [Caller -> BOOLEAN]
  <1>1. \A d \in Caller : job[d] \in Job
    BY DEF TypeOK
  <1>2. PICK v \in SUBSET Content : Becomes(v)
    BY <1>1 DEF CarryOut, TypeOK, Thing, Job
  <1> QED BY <1>1, <1>2, DoneBoolean DEF Becomes, CarryOut, TypeOK, Thing

LEMMA TypeInit == Init => TypeOK
  <1> SUFFICES ASSUME Init PROVE TypeOK
    OBVIOUS
  <1>1. job \in [Caller -> Job] /\ remote \in Thing
    BY DEF Init, Job, Thing
  <1>2. \A c \in Caller : RowOK(Op(c)) /\ job[c] \in Job
    BY <1>1, Rows DEF Op, Job
  <1>3. form \in [Caller -> Form]
    BY <1>2 DEF Init, Form, RowOK, Job
  <1>4. held \in [Caller -> BOOLEAN]
    BY <1>1, <1>2, DoneBoolean DEF Init, Thing
  <1>5. saw \in [Caller -> Thing]
    BY DEF Init, Thing
  <1> QED BY <1>1, <1>3, <1>4, <1>5 DEF Init, TypeOK

LEMMA TypeStep == TypeOK /\ [Next]_vars => TypeOK'
  <1> SUFFICES ASSUME TypeOK, [Next]_vars PROVE TypeOK'
    OBVIOUS
  <1>1. ASSUME NEW c \in Caller, GiveUp(c) \/ Preview(c) \/ Stop(c) \/ Confirm(c) \/ HearNo(c)
        PROVE  TypeOK'
    BY <1>1 DEF GiveUp, Preview, Stop, Confirm, HearNo, Tell, Settled, Settles, Unsettled,
                Finding, TypeOK, service
  <1>2. ASSUME NEW c \in Caller, Look(c) PROVE TypeOK'
    BY <1>2 DEF Look, TypeOK, service
  <1>3. ASSUME NEW c \in Caller, Send(c) PROVE TypeOK'
    <2>1. Asks(c) \in Form
      BY AsksForm
    <2> QED
      BY <1>3, <2>1 DEF Send, TypeOK, service
  <1>4. ASSUME NEW c \in Caller, Serve(c) \/ ServeLate(c) PROVE TypeOK'
    <2>1. CarryOut(c)
      BY <1>4 DEF Serve, ServeLate
    <2>2. remote' \in Thing /\ held' \in [Caller -> BOOLEAN] /\ took' \in [Caller -> BOOLEAN]
      BY <2>1, CarryOutTypes
    <2>3. CASE Serve(c)
      BY <2>2, <2>3 DEF Serve, TypeOK, handler
    <2>4. CASE ServeLate(c)
      BY <2>2, <2>4 DEF ServeLate, TypeOK, handler
    <2> QED
      BY <1>4, <2>3, <2>4
  <1>5. ASSUME NEW c \in Caller, Refuse(c) PROVE TypeOK'
    BY <1>5 DEF Refuse, TypeOK, handler, service
  <1>6. ASSUME NEW c \in Caller, HearYes(c) PROVE TypeOK'
    BY <1>6, ConcludeTypes DEF HearYes, Evidence, Settled, TypeOK, service, Answers
  <1>7. ASSUME NEW c \in Caller, HearTwin(c) PROVE TypeOK'
    BY <1>7, ConcludeTypes DEF HearTwin, Settled, TypeOK, service, Answers
  <1>8. ASSUME NEW c \in Caller, Doubt(c) PROVE TypeOK'
    BY <1>8, ConcludeTypes DEF Doubt, Settled, TypeOK, service, Answers
  <1>9. ASSUME NEW c \in Caller, Upgrade(c) PROVE TypeOK'
    BY <1>9 DEF Upgrade, TypeOK, service
  <1>10. CASE Meddle
    <2>1. PICK v \in SUBSET Content : Becomes(v)
      BY <1>10 DEF Meddle
    <2> QED BY <1>10, <2>1, DoneBoolean DEF Meddle, Becomes, TypeOK, Thing, handler
  <1>11. CASE UNCHANGED vars
    BY <1>11 DEF vars, TypeOK
  <1> QED BY <1>1, <1>2, <1>3, <1>4, <1>5, <1>6, <1>7, <1>8, <1>9, <1>10, <1>11 DEF Next

\* Every variable keeps its type.
THEOREM TypeCorrect == Spec => []TypeOK
  <1> QED BY TypeInit, TypeStep, PTL DEF Spec

-----------------------------------------------------------------------------
(* What a call has been told, and what has become of its requests.  While  *)
(* a call waits for its only request, nothing of it is left on the way but *)
(* that request; a probe that was not settled is remembered in shrugged.   *)

Truth(c) ==
    /\ pc[c] \in {"begin", "decide"} =>
        ~took[c] /\ wire[c] = "idle" /\ ~late[c] /\ ~shrugged[c]
    /\ pc[c] # "done" <=> answer[c] = "none"
    /\ wire[c] # "idle" => pc[c] \in {"probe", "wait"}
    /\ wire[c] = "took" => took[c]
    /\ pc[c] = "probe" => ~shrugged[c] /\ Op(c).looks = "probe"
    /\ shrugged[c] => Op(c).looks = "probe"
    /\ pc[c] \in {"probe", "wait"} /\ ~shrugged[c] =>
        ~late[c] /\ (took[c] => wire[c] = "took")
    /\ pc[c] = "confirm" /\ verdict[c] \in {"full", "partial"} => took[c]
    /\ pc[c] = "confirm" /\ verdict[c] = "twin" => ~took[c] /\ ~late[c]
    /\ answer[c] = "created" => took[c]
    /\ answer[c] \in {"preview", "reused"} => ~took[c] /\ ~late[c]
    /\ answer[c] = "failed" /\ ~shrugged[c] => ~took[c] /\ ~late[c]

TruthInv == TypeOK /\ \A c \in Caller : Truth(c)

LEMMA RowOf == ASSUME TypeOK, NEW c \in Caller PROVE RowOK(Op(c))
  BY Rows DEF TypeOK, Op, Job

LEMMA TruthInit == Init => TruthInv
  BY TypeInit DEF Init, TruthInv, Truth

LEMMA TruthStep == TruthInv /\ [Next]_vars => TruthInv'
  <1> SUFFICES ASSUME TruthInv, [Next]_vars, NEW c \in Caller PROVE Truth(c)'
    BY TypeStep DEF TruthInv
  <1> USE DEF TruthInv
  <1>t. TypeOK' /\ RowOK(Op(c)) /\ Truth(c)
    BY TypeStep, RowOf
  <1>1. ASSUME NEW d \in Caller, GiveUp(d) \/ Preview(d) PROVE Truth(c)'
    BY <1>1, <1>t DEF GiveUp, Preview, Tell, Truth, TypeOK, Op, service
  <1>2. ASSUME NEW d \in Caller, Look(d) PROVE Truth(c)'
    BY <1>2, <1>t DEF Look, Truth, TypeOK, Op, service
  <1>3. ASSUME NEW d \in Caller, Stop(d) PROVE Truth(c)'
    BY <1>3, <1>t DEF Stop, Finding, Tell, Truth, TypeOK, Op, service
  <1>4. ASSUME NEW d \in Caller, Send(d) PROVE Truth(c)'
    BY <1>4, <1>t DEF Send, Truth, TypeOK, Op, service
  <1>5. ASSUME NEW d \in Caller, Serve(d) PROVE Truth(c)'
    BY <1>5, <1>t DEF Serve, CarryOut, Truth, TypeOK, Op, handler
  <1>6. ASSUME NEW d \in Caller, ServeLate(d) PROVE Truth(c)'
    BY <1>6, <1>t DEF ServeLate, CarryOut, Truth, TypeOK, Op, handler
  <1>7. ASSUME NEW d \in Caller, Refuse(d) PROVE Truth(c)'
    BY <1>7, <1>t DEF Refuse, Truth, TypeOK, Op, handler, service
  <1>8. ASSUME NEW d \in Caller, HearYes(d) PROVE Truth(c)'
    <2>1. PICK v \in {"full", "partial", "junk"} : Conclude(d, v)
      BY <1>8 DEF HearYes, Evidence
    <2> QED BY <1>8, <1>t, <2>1
            DEF HearYes, Conclude, Settled, Tell, Truth, TypeOK, Op, service, RowOK
  <1>9. ASSUME NEW d \in Caller, HearTwin(d) PROVE Truth(c)'
    BY <1>9, <1>t DEF HearTwin, Conclude, Settled, Tell, Truth, TypeOK, Op, service, RowOK
  <1>10. ASSUME NEW d \in Caller, HearNo(d) PROVE Truth(c)'
    BY <1>10, <1>t DEF HearNo, Settled, Tell, Truth, TypeOK, Op, service
  <1>11. ASSUME NEW d \in Caller, Doubt(d) PROVE Truth(c)'
    BY <1>11, <1>t DEF Doubt, Conclude, Settled, Tell, Truth, TypeOK, Op, service, RowOK
  <1>12. ASSUME NEW d \in Caller, Upgrade(d) PROVE Truth(c)'
    BY <1>12, <1>t DEF Upgrade, Truth, TypeOK, Op, service
  <1>13. ASSUME NEW d \in Caller, Confirm(d) PROVE Truth(c)'
    BY <1>13, <1>t DEF Confirm, Settles, Unsettled, Tell, Truth, TypeOK, Op, service
  <1>14. CASE Meddle
    BY <1>14, <1>t DEF Meddle, Truth, Op, handler
  <1>15. CASE UNCHANGED vars
    BY <1>15, <1>t DEF vars, Truth, Op
  <1> QED BY <1>1, <1>2, <1>3, <1>4, <1>5, <1>6, <1>7, <1>8, <1>9, <1>10, <1>11, <1>12,
             <1>13, <1>14, <1>15 DEF Next

-----------------------------------------------------------------------------
(* The refinement: an effect, an answer, or a stutter.                     *)

Effect == [c \in Caller |-> IF took[c] THEN 1 ELSE 0]
Verdict == [c \in Caller |-> Told(c)]

LEMMA Effects ==
    ASSUME TruthInv, NEW d \in Caller, CarryOut(d), Told(d) # "failed",
           Told(d) = "ok" => took[d], UNCHANGED <<answer, shrugged>>
    PROVE  Write!TakeEffect(d) \/ UNCHANGED <<Effect, Verdict>>
  <1>1. UNCHANGED Verdict
    BY DEF Verdict, Told
  <1>2. CASE took[d]
    BY <1>1, <1>2 DEF CarryOut, Effect, TruthInv, TypeOK
  <1>3. CASE ~took[d]
    <2>1. Told(d) \in {"open", "ambiguous"}
      BY <1>3 DEF Told
    <2>2. Effect' = [Effect EXCEPT ![d] = 1]
      BY <1>3 DEF CarryOut, Effect, TruthInv, TypeOK
    <2> QED BY <1>1, <1>3, <2>1, <2>2 DEF Write!TakeEffect, Effect, Verdict
  <1> QED BY <1>2, <1>3

LEMMA Answered ==
    ASSUME TruthInv, TruthInv', NEW d \in Caller, NEW x \in Answers \ {"none"},
           answer[d] = "none", Tell(d, x), UNCHANGED <<took, shrugged>>
    PROVE  /\ Write!Next
           /\ UNCHANGED took
  <1>1. Verdict' = [Verdict EXCEPT ![d] = Told(d)']
    BY DEF Tell, Verdict, Told, TruthInv, TypeOK
  <1>2. Told(d) = "open" /\ Told(d)' \in {"ok", "failed", "ambiguous"}
    BY DEF Tell, Told, TruthInv, TypeOK, Answers
  <1>3. Told(d)' = "ok" => took[d]
    BY DEF Tell, Told, TruthInv, Truth, TypeOK
  <1>4. Told(d)' = "failed" => ~took[d]
    BY DEF Tell, Told, TruthInv, Truth, TypeOK
  <1>5. UNCHANGED Effect
    BY DEF Effect
  <1>6. Write!Tell(d, Told(d)')
    BY <1>1, <1>2, <1>5 DEF Write!Tell, Effect, Verdict
  <1> QED BY <1>2, <1>3, <1>4, <1>6 DEF Write!Next, Effect

LEMMA Concludes ==
    ASSUME TruthInv, TruthInv', NEW d \in Caller,
           NEW v \in {"full", "partial", "junk", "twin", "doubt"},
           pc[d] # "done", Conclude(d, v), UNCHANGED <<took, shrugged>>
    PROVE  Write!Next \/ UNCHANGED <<Effect, Verdict>>
  <1>1. CASE UNCHANGED answer
    BY <1>1 DEF Effect, Verdict, Told
  <1>2. CASE Op(d)[v] # "read" /\ Tell(d, Op(d)[v])
    <2>1. answer[d] = "none" /\ RowOK(Op(d))
      BY RowOf DEF TruthInv, Truth
    <2>2. Op(d)[v] \in Answers \ {"none"}
      BY <1>2, <2>1 DEF RowOK, Answers
    <2> QED BY <1>2, <2>1, <2>2, Answered
  <1> QED BY <1>1, <1>2 DEF Conclude

LEMMA WriteStep ==
    TruthInv /\ TruthInv' /\ [Next]_vars => Write!Next \/ UNCHANGED <<Effect, Verdict>>
  <1> SUFFICES ASSUME TruthInv, TruthInv', [Next]_vars
               PROVE  Write!Next \/ UNCHANGED <<Effect, Verdict>>
    OBVIOUS
  <1>1. ASSUME NEW d \in Caller, GiveUp(d) \/ Preview(d) \/ Stop(d) \/ HearNo(d) \/ Confirm(d)
        PROVE  Write!Next
    <2>1. PICK x \in Answers \ {"none"} : Tell(d, x)
      BY <1>1 DEF GiveUp, Preview, Stop, Finding, HearNo, Confirm, Settles, Unsettled, Answers
    <2>2. answer[d] = "none" /\ UNCHANGED <<took, shrugged>>
      BY <1>1 DEF GiveUp, Preview, Stop, HearNo, Confirm, service, TruthInv, Truth
    <2> QED BY <2>1, <2>2, Answered
  <1>2. ASSUME NEW d \in Caller, Look(d) \/ Send(d) \/ Refuse(d)
        PROVE  UNCHANGED <<Effect, Verdict>>
    BY <1>2 DEF Look, Send, Refuse, handler, service, Effect, Verdict, Told
  <1>3. ASSUME NEW d \in Caller, Upgrade(d) PROVE UNCHANGED <<Effect, Verdict>>
    <2>1. answer[d] = "none" /\ UNCHANGED <<answer, took>>
      BY <1>3 DEF Upgrade, service, TruthInv, Truth
    <2>2. \A c \in Caller : c # d => shrugged'[c] = shrugged[c]
      BY <1>3 DEF Upgrade, TruthInv, TypeOK
    <2> QED BY <2>1, <2>2 DEF Effect, Verdict, Told
  <1>4. ASSUME NEW d \in Caller, Serve(d) \/ ServeLate(d)
        PROVE  Write!Next \/ UNCHANGED <<Effect, Verdict>>
    <2>1. CarryOut(d) /\ UNCHANGED <<answer, shrugged>>
      BY <1>4 DEF Serve, ServeLate, handler
    <2>2. Told(d) # "failed" /\ (Told(d) = "ok" => took[d])
      BY <1>4 DEF Serve, ServeLate, Told, TruthInv, Truth, TypeOK
    <2> QED BY <2>1, <2>2, Effects DEF Write!Next
  <1>5. ASSUME NEW d \in Caller, HearYes(d) \/ HearTwin(d) \/ Doubt(d)
        PROVE  Write!Next \/ UNCHANGED <<Effect, Verdict>>
    <2>1. PICK v \in {"full", "partial", "junk", "twin", "doubt"} : Conclude(d, v)
      BY <1>5 DEF HearYes, Evidence, HearTwin, Doubt
    <2>2. pc[d] # "done" /\ UNCHANGED <<took, shrugged>>
      BY <1>5 DEF HearYes, Evidence, HearTwin, Doubt, service
    <2> QED BY <2>1, <2>2, Concludes
  <1>6. CASE Meddle
    BY <1>6 DEF Meddle, handler, Effect, Verdict, Told
  <1>7. CASE UNCHANGED vars
    BY <1>7 DEF vars, Effect, Verdict, Told
  <1> QED BY <1>1, <1>2, <1>3, <1>4, <1>5, <1>6, <1>7 DEF Next

\* Whatever other people do and however many calls run at once, a call changes
\* the thing at most once and its caller is never told otherwise.
THEOREM WritesAreHonest == Spec => ImplementsWrite
  <1>1. Init => Write!Init
    BY DEF Init, Write!Init, Told
  <1>2. Spec => []TruthInv
    BY TruthInit, TruthStep, PTL DEF Spec
  <1>3. TruthInv /\ TruthInv' /\ [Next]_vars =>
            [Write!Next]_<<[c \in Caller |-> IF took[c] THEN 1 ELSE 0],
                           [c \in Caller |-> Told(c)]>>
    BY WriteStep DEF Effect, Verdict
  <1> QED BY <1>1, <1>2, <1>3, PTL DEF Spec, ImplementsWrite, Write!Spec

-----------------------------------------------------------------------------
(* What is overwritten.  A version number names one value.                 *)

Versions(c) ==
    /\ saw[c].version <= remote.version
    /\ saw[c].version = remote.version => saw[c].value = remote.value
    /\ pc[c] = "decide" => saw[c].version >= 1
    /\ pc[c] \in {"probe", "wait"} \/ late[c] =>
        /\ form[c] = Asks(c)
        /\ Careful(c) => saw[c].version >= 1
        /\ Finding(c) = "none"
    /\ ~Op(c).pins => job[c].pin = 0

VersionInv == TruthInv /\ remote.version >= 1 /\ \A c \in Caller : Versions(c)

LEMMA VersionInit == Init => VersionInv
  BY TruthInit DEF Init, VersionInv, Versions

\* What an operation makes of its arguments and of what it saw.
LEMMA SameSight ==
    ASSUME NEW c \in Caller, UNCHANGED <<job[c], saw[c]>>
    PROVE  /\ Asks(c)' = Asks(c) /\ Careful(c)' = Careful(c) /\ Finding(c)' = Finding(c)
           /\ Op(c)' = Op(c)
  BY DEF Asks, Op, Careful, Finding, Done

LEMMA VersionStep == VersionInv /\ [Next]_vars => VersionInv'
  <1> SUFFICES ASSUME VersionInv, [Next]_vars
               PROVE  remote'.version >= 1 /\ \A c \in Caller : Versions(c)'
    BY TruthStep DEF VersionInv
  <1>t. TypeOK /\ TypeOK'
    BY TypeStep DEF VersionInv, TruthInv
  <1>1. ASSUME UNCHANGED remote,
               NEW d \in Caller,
               \A c \in Caller \ {d} :
                  UNCHANGED <<job[c], pc[c], saw[c], form[c], wire[c], late[c]>>,
               Versions(d)'
        PROVE  remote'.version >= 1 /\ \A c \in Caller : Versions(c)'
    <2>1. ASSUME NEW c \in Caller \ {d} PROVE Versions(c)'
      <3>1. UNCHANGED <<job[c], pc[c], saw[c], form[c], wire[c], late[c]>>
        BY <1>1, <2>1
      <3> QED BY <1>1, <2>1, <3>1, SameSight DEF VersionInv, Versions
    <2> QED BY <1>1, <2>1 DEF VersionInv
  <1>2. ASSUME NEW v, Becomes(v), UNCHANGED <<job, pc, saw, form>>,
               \A c \in Caller : late'[c] => late[c]
        PROVE  remote'.version >= 1 /\ \A c \in Caller : Versions(c)'
    <2>1. ASSUME NEW c \in Caller PROVE Versions(c)'
      <3>1. /\ Asks(c)' = Asks(c) /\ Careful(c)' = Careful(c) /\ Finding(c)' = Finding(c)
            /\ Op(c)' = Op(c)
        BY <1>2, SameSight
      <3>2. Versions(c) /\ saw[c].version \in Nat /\ remote.version \in Nat
        BY <1>t DEF VersionInv, TypeOK, Thing
      <3>3. remote'.version = remote.version + 1
        BY <1>2 DEF Becomes
      <3> QED BY <1>2, <2>1, <3>1, <3>2, <3>3 DEF Versions
    <2>2. remote'.version >= 1
      BY <1>2, <1>t DEF Becomes, VersionInv, TypeOK, Thing
    <2> QED BY <2>1, <2>2
  <1>3. ASSUME NEW d \in Caller,
               GiveUp(d) \/ Preview(d) \/ Stop(d) \/ HearNo(d) \/ Confirm(d)
        PROVE  remote'.version >= 1 /\ \A c \in Caller : Versions(c)'
    <2>0. UNCHANGED <<remote, job, saw, form, late>> /\ pc'[d] = "done"
      BY <1>3, <1>t DEF GiveUp, Preview, Stop, HearNo, Confirm, Tell, service, TypeOK
    <2>1. Versions(d)'
      BY <2>0, SameSight DEF VersionInv, Versions
    <2> QED BY <1>1, <1>3, <1>t, <2>1
            DEF GiveUp, Preview, Stop, HearNo, Confirm, Tell, Settled, service, TypeOK
  <1>4. ASSUME NEW d \in Caller, Look(d)
        PROVE  remote'.version >= 1 /\ \A c \in Caller : Versions(c)'
    <2>1. Versions(d)'
      BY <1>4, <1>t DEF Look, service, VersionInv, TruthInv, Truth, Versions, TypeOK, Thing, Op
    <2> QED BY <1>1, <1>4, <1>t, <2>1 DEF Look, service, TypeOK
  <1>5. ASSUME NEW d \in Caller, Send(d)
        PROVE  remote'.version >= 1 /\ \A c \in Caller : Versions(c)'
    <2>1. /\ Asks(d)' = Asks(d) /\ Careful(d)' = Careful(d) /\ Finding(d)' = Finding(d)
          /\ Op(d)' = Op(d) /\ job' = job
      BY <1>5, SameSight DEF Send
    <2>2. /\ Careful(d) => pc[d] = "decide"
          /\ Finding(d) = "none"
      BY <1>5 DEF Send, Careful, Reads, Finding
    <2>3. form'[d] = Asks(d) /\ saw'[d] = saw[d] /\ remote' = remote
      BY <1>5, <1>t DEF Send, service, TypeOK
    <2>4. pc'[d] # "decide"
      BY <1>5, <1>t DEF Send, TypeOK
    <2>5. Versions(d)'
      BY <2>1, <2>2, <2>3, <2>4 DEF VersionInv, Versions
    <2> QED BY <1>1, <1>5, <1>t, <2>5 DEF Send, service, TypeOK
  <1>6. ASSUME NEW d \in Caller, Serve(d) \/ ServeLate(d)
        PROVE  remote'.version >= 1 /\ \A c \in Caller : Versions(c)'
    <2>1. PICK v : Becomes(v)
      BY <1>6 DEF Serve, ServeLate, CarryOut
    <2> QED BY <1>2, <1>6, <1>t, <2>1 DEF Serve, ServeLate, handler, TypeOK
  <1>7. ASSUME NEW d \in Caller, Refuse(d)
        PROVE  remote'.version >= 1 /\ \A c \in Caller : Versions(c)'
    <2>1. Versions(d)'
      BY <1>7, SameSight DEF Refuse, handler, service, VersionInv, Versions
    <2> QED BY <1>1, <1>7, <1>t, <2>1 DEF Refuse, handler, service, TypeOK
  <1>8. ASSUME NEW d \in Caller, HearYes(d) \/ HearTwin(d) \/ Doubt(d)
        PROVE  remote'.version >= 1 /\ \A c \in Caller : Versions(c)'
    <2>0. /\ UNCHANGED <<remote, job, saw, form>> /\ pc'[d] \in {"confirm", "done"}
          /\ late'[d] => late[d] \/ pc[d] \in {"probe", "wait"}
      BY <1>8, <1>t DEF HearYes, Evidence, HearTwin, Doubt, Conclude, Tell, service, TypeOK
    <2>1. Versions(d)'
      BY <2>0, SameSight DEF VersionInv, Versions
    <2> QED BY <1>1, <1>8, <1>t, <2>1
            DEF HearYes, Evidence, HearTwin, Doubt, Conclude, Tell, Settled, service, TypeOK
  <1>9. ASSUME NEW d \in Caller, Upgrade(d)
        PROVE  remote'.version >= 1 /\ \A c \in Caller : Versions(c)'
    <2>1. Versions(d)'
      BY <1>9, <1>t, SameSight DEF Upgrade, service, VersionInv, Versions, TypeOK
    <2> QED BY <1>1, <1>9, <1>t, <2>1 DEF Upgrade, service, TypeOK
  <1>10. CASE Meddle
    <2>1. PICK v : Becomes(v)
      BY <1>10 DEF Meddle
    <2> QED BY <1>2, <1>10, <2>1 DEF Meddle, handler
  <1>11. CASE UNCHANGED vars
    BY <1>11, SameSight DEF vars, VersionInv, Versions
  <1> QED BY <1>3, <1>4, <1>5, <1>6, <1>7, <1>8, <1>9, <1>10, <1>11 DEF Next

\* A careful operation replaces what it looked at, and one that was given a version
\* replaces that version, except that an update of a file that is gone creates it.
THEOREM NoLostUpdateAlways == Spec => NoLostUpdate
  <1>1. ASSUME VersionInv, [Next]_vars, NEW c \in Caller, ~took[c], took'[c]
        PROVE  Replaces(c, remote.value, remote.version)
    <2>t. TypeOK /\ RowOK(Op(c)) /\ Truth(c) /\ Versions(c)
      BY <1>1, RowOf DEF VersionInv, TruthInv
    <2>0. PICK d \in Caller : Serve(d) \/ ServeLate(d)
      <3>1. took' # took
        BY <1>1
      <3>2. \A d \in Caller : ~(GiveUp(d) \/ Preview(d) \/ Look(d) \/ Stop(d) \/ Send(d))
        BY <3>1 DEF GiveUp, Preview, Look, Stop, Send, service
      <3>3. \A d \in Caller : ~(Refuse(d) \/ HearYes(d) \/ HearTwin(d) \/ HearNo(d))
        BY <3>1 DEF Refuse, HearYes, HearTwin, HearNo, service
      <3>4. \A d \in Caller : ~(Doubt(d) \/ Upgrade(d) \/ Confirm(d))
        BY <3>1 DEF Doubt, Upgrade, Confirm, service
      <3>5. ~Meddle /\ Next
        BY <1>1, <3>1 DEF Meddle, vars
      <3> QED
        BY <3>2, <3>3, <3>4, <3>5 DEF Next
    <2>1. CarryOut(c) /\ (wire[c] = "sent" \/ late[c])
      <3>1. CarryOut(d) /\ (wire[d] = "sent" \/ late[d])
        BY <2>0 DEF Serve, ServeLate
      <3>2. d = c
        BY <1>1, <2>t, <3>1 DEF CarryOut, TypeOK
      <3> QED
        BY <3>1, <3>2
    <2>2. /\ form[c] = Asks(c) /\ (Careful(c) => saw[c].version >= 1) /\ Finding(c) = "none"
          /\ ~Op(c).pins => job[c].pin = 0
      BY <2>1, <2>t DEF Truth, Versions
    <2>3. CanServe(c)
      BY <2>1 DEF CarryOut
    <2>4. CASE Op(c).looks = "version"
      <3>1. Asks(c) = [does |-> "edit", against |-> saw[c].version] /\ Careful(c)
        BY <2>4 DEF Asks, Careful
      <3>2. form[c].does = "edit" /\ form[c].against = saw[c].version
        BY <2>2, <3>1
      <3>3. saw[c].version # 0 /\ saw[c].version = remote.version
        BY <2>2, <2>3, <3>1, <3>2 DEF CanServe
      <3>4. job[c].pin = 0
        BY <2>t, <2>2, <2>4 DEF RowOK
      <3> QED
        BY <2>t, <3>1, <3>3, <3>4 DEF Versions, Replaces
    <2>5. CASE Op(c).looks = "head" /\ saw[c].value = {}
      <3>1. form[c].does = "create"
        BY <2>2, <2>5 DEF Asks
      <3>2. Op(c).does # "remove"
        BY <2>2, <2>5 DEF Finding
      <3>3. job[c].pin # 0 => Recreates(c)
        BY <2>t, <2>2, <2>5, <3>2 DEF RowOK, Recreates
      <3> QED
        BY <2>3, <2>5, <3>1, <3>3 DEF CanServe, Replaces
    <2>6. CASE Op(c).looks = "head" /\ saw[c].value # {}
      <3>1. form[c].does \in {"edit", "remove"} /\ form[c].against = saw[c].version
        BY <2>2, <2>6 DEF Asks
      <3>2. job[c].pin \in {0, saw[c].version}
        BY <2>2, <2>6 DEF Finding
      <3>3. saw[c].version = remote.version /\ saw[c].value = remote.value
        BY <2>t, <2>2, <2>3, <2>6, <3>1 DEF CanServe, Careful, Versions
      <3> QED
        BY <3>2, <3>3 DEF Replaces
    <2>7. CASE ~Careful(c)
      <3>1. form[c].against = job[c].pin
        BY <2>2, <2>7 DEF Asks, Careful
      <3> QED
        BY <2>3, <2>7, <3>1 DEF CanServe, Replaces
    <2> QED BY <2>4, <2>5, <2>6, <2>7 DEF Careful
  <1>2. VersionInv /\ [Next]_vars =>
            [\A c \in Caller : ~took[c] /\ took'[c] =>
                Replaces(c, remote.value, remote.version)]_vars
    BY <1>1
  <1>3. Spec => []VersionInv
    BY VersionInit, VersionStep, PTL DEF Spec
  <1> QED BY <1>2, <1>3, PTL DEF Spec, NoLostUpdate

-----------------------------------------------------------------------------
(* What an answer is about.                                                *)

Holds(c) ==
    /\ form[c].does = "remove" <=> Op(c).does = "remove"
    /\ Done(job[c], remote.value) => held[c]
    /\ took[c] => held[c]
    /\ pc[c] = "decide" /\ Done(job[c], saw[c].value) => held[c]
    /\ wire[c] = "twin" /\ Op(c).does = "remove" => held[c]
    /\ answer[c] \in {"created", "reused", "reconciled"} => held[c]

HoldsInv == TruthInv /\ \A c \in Caller : Holds(c)

LEMMA HoldsInit == Init => HoldsInv
  BY TruthInit DEF Init, HoldsInv, Holds

LEMMA Served ==
    ASSUME HoldsInv, NEW d \in Caller, CarryOut(d),
           UNCHANGED <<job, form, pc, saw, answer>>,
           \A c \in Caller : wire'[c] = "twin" => wire[c] = "twin",
           NEW c \in Caller
    PROVE  Holds(c)'
  <1>t. TypeOK /\ RowOK(Op(c)) /\ RowOK(Op(d)) /\ Holds(c) /\ Holds(d)
    BY RowOf DEF HoldsInv, TruthInv
  <1>1. PICK v : Becomes(v) /\ v = CASE form[d].does = "remove" -> {}
                 [] form[d].does = "add" -> remote.value \cup {job[d].want}
                 [] OTHER -> {job[d].want}
    BY DEF CarryOut
  <1>2. Done(job[d], v)
    BY <1>t, <1>1 DEF Done, Holds, Op
  <1>3. remote'.value = v /\ \A e \in Caller : held'[e] = (held[e] \/ Done(job[e], v))
    BY <1>1 DEF Becomes
  <1>4. took'[c] => took[c] \/ c = d
    BY <1>t DEF CarryOut, TypeOK
  <1> QED BY <1>t, <1>2, <1>3, <1>4 DEF Holds, Op

LEMMA HoldsStep == HoldsInv /\ [Next]_vars => HoldsInv'
  <1> SUFFICES ASSUME HoldsInv, [Next]_vars, NEW c \in Caller PROVE Holds(c)'
    BY TruthStep DEF HoldsInv
  <1>t. TypeOK /\ TypeOK' /\ RowOK(Op(c)) /\ Holds(c) /\ Truth(c)
    BY TypeStep, RowOf DEF HoldsInv, TruthInv
  <1>1. ASSUME NEW d \in Caller, GiveUp(d) \/ Preview(d) \/ HearNo(d) PROVE Holds(c)'
    BY <1>1, <1>t DEF GiveUp, Preview, HearNo, Tell, Settled, Holds, TypeOK, Op, service
  <1>2. ASSUME NEW d \in Caller, Look(d) PROVE Holds(c)'
    BY <1>2, <1>t DEF Look, Holds, TypeOK, Op, service
  <1>3. ASSUME NEW d \in Caller, Stop(d) PROVE Holds(c)'
    <2>1. Finding(c) = "reused" => Done(job[c], saw[c].value)
      BY DEF Finding
    <2> QED BY <1>3, <1>t, <2>1 DEF Stop, Tell, Holds, TypeOK, Op, service, Finding
  <1>4. ASSUME NEW d \in Caller, Send(d) PROVE Holds(c)'
    <2>0. d = c /\ Op(c).looks = "head" => Finding(c) = "none"
      BY <1>4 DEF Send, Reads
    <2>1. d = c => (Asks(c).does = "remove" <=> Op(c).does = "remove")
      BY <1>t, <2>0 DEF Asks, RowOK, Finding
    <2> QED BY <1>4, <1>t, <2>1 DEF Send, Holds, TypeOK, Op, service
  <1>5. ASSUME NEW d \in Caller, Serve(d) \/ ServeLate(d) PROVE Holds(c)'
    BY <1>5, <1>t, Served DEF Serve, ServeLate, handler, TypeOK
  <1>6. ASSUME NEW d \in Caller, Refuse(d) PROVE Holds(c)'
    <2>1. wire'[c] = "twin" /\ wire[c] # "twin" /\ Op(c).does = "remove" => remote.value = {}
      BY <1>6, <1>t DEF Refuse, TwinIsTrue, Holds, TypeOK
    <2>2. Op(c).does = "remove" /\ remote.value = {} => Done(job[c], remote.value)
      BY DEF Done, Op
    <2> QED BY <1>6, <1>t, <2>1, <2>2 DEF Refuse, Holds, Op, handler, service
  <1>7. ASSUME NEW d \in Caller, HearYes(d) PROVE Holds(c)'
    <2>1. PICK v \in {"full", "partial", "junk"} : Conclude(d, v)
      BY <1>7 DEF HearYes, Evidence
    <2> QED BY <1>7, <1>t, <2>1
            DEF HearYes, Conclude, Settled, Tell, Holds, Truth, TypeOK, Op, service
  <1>8. ASSUME NEW d \in Caller, HearTwin(d) PROVE Holds(c)'
    BY <1>8, <1>t
       DEF HearTwin, Conclude, Settled, Tell, Holds, Truth, TypeOK, Op, service, RowOK
  <1>9. ASSUME NEW d \in Caller, Doubt(d) PROVE Holds(c)'
    BY <1>9, <1>t DEF Doubt, Conclude, Settled, Tell, Holds, TypeOK, Op, service, RowOK
  <1>10. ASSUME NEW d \in Caller, Upgrade(d) PROVE Holds(c)'
    BY <1>10, <1>t DEF Upgrade, Holds, TypeOK, Op, service
  <1>11. ASSUME NEW d \in Caller, Confirm(d) PROVE Holds(c)'
    <2>1. Found(c) => held[c]
      BY <1>t DEF Found, Holds
    <2> QED BY <1>11, <1>t, <2>1
            DEF Confirm, Settles, Unsettled, Tell, Holds, TypeOK, Op, service
  <1>12. CASE Meddle
    <2>1. PICK v : Becomes(v)
      BY <1>12 DEF Meddle
    <2> QED BY <1>12, <1>t, <2>1 DEF Meddle, Becomes, Holds, Op, handler
  <1>13. CASE UNCHANGED vars
    BY <1>13, <1>t DEF vars, Holds, Op
  <1> QED BY <1>1, <1>2, <1>3, <1>4, <1>5, <1>6, <1>7, <1>8, <1>9, <1>10, <1>11, <1>12,
             <1>13 DEF Next

\* A result that is named was there at some moment of the call.
THEOREM AnswerWasTrueAlways == Spec => []AnswerWasTrue
  <1>1. HoldsInv => AnswerWasTrue
    BY DEF HoldsInv, Holds, AnswerWasTrue
  <1> QED BY HoldsInit, HoldsStep, <1>1, PTL DEF Spec

-----------------------------------------------------------------------------
(* Arithmetic of pages.                                                    *)

LEMMA Product ==
    ASSUME NEW a \in Nat, NEW b \in Nat, NEW c \in Nat, a <= b
    PROVE  a * c \in Nat /\ a * c <= b * c /\ (a + 1) * c = a * c + c
<1>1. PICK d \in Nat : b = a + d
  <2>1. b - a \in Nat /\ b = a + (b - a)
    OBVIOUS
  <2> QED
    BY <2>1
<1>2. b * c = a * c + d * c
  BY <1>1
<1>3. a * c \in Nat /\ d * c \in Nat
  OBVIOUS
<1> QED
  BY <1>2, <1>3

LEMMA FirstOfPage ==
    ASSUME NEW page \in Nat \ {0}
    PROVE  /\ First(page) \in Nat
           /\ First(page + 1) = First(page) + PerPage
           /\ page > MaxPages => First(page) >= Ceil
           /\ page <= MaxPages => First(page + 1) <= Ceil
<1>1. PerPage \in Nat /\ MaxPages \in Nat /\ page - 1 \in Nat
  BY ListingAssumption DEF ListingAssumption
<1>2. First(page) \in Nat
  BY <1>1, Product DEF First
<1>3. First(page + 1) = First(page) + PerPage
  <2>1. (page - 1 + 1) * PerPage = (page - 1) * PerPage + PerPage
    BY <1>1, Product
  <2>2. page + 1 - 1 = page - 1 + 1
    BY <1>1
  <2> QED
    BY <2>1, <2>2 DEF First
<1>4. ASSUME page > MaxPages PROVE First(page) >= Ceil
  <2>1. MaxPages <= page - 1
    BY <1>1, <1>4
  <2>2. MaxPages * PerPage <= (page - 1) * PerPage
    BY <1>1, <2>1, Product
  <2> QED
    BY <1>1, <1>2, <2>2, Product DEF First, Ceil
<1>5. ASSUME page <= MaxPages PROVE First(page + 1) <= Ceil
  <2>1. page * PerPage <= MaxPages * PerPage
    BY <1>1, <1>5, Product
  <2>2. page + 1 - 1 = page
    BY <1>1
  <2> QED
    BY <2>1, <2>2 DEF First, Ceil
<1> QED
  BY <1>2, <1>3, <1>4, <1>5

-----------------------------------------------------------------------------
(***************************************************************************)
(* Up to the place where a source is to be continued, the session has its  *)
(* entries or is about to be given them; and no call collects more than    *)
(* was asked for, so that the place within a page is never before it.      *)
(***************************************************************************)
Position(p) == First(p.page) + p.offset
Has(s) == delivered[s] \cup items[s]
UpTo(s, p) == \A i \in 1..total[s] : i <= Position(p) => i \in Has(s)

\* It has all there is under the ceiling, and if that is not all it has been told.
All(s) ==
    /\ \A i \in 1..total[s] : i <= Ceil => i \in Has(s)
    /\ total[s] > Ceil => cont[s].page > MaxPages

Collected ==
    \A s \in Source :
        /\ Has(s) \subseteq 1..total[s]
        /\ IsFiniteSet(items[s]) /\ Cardinality(items[s]) <= limit[s]

Between ==
    /\ at = 0 => items = Nothing
    /\ complete => at = 0
    /\ \A s \in Source : \A i \in 1..total[s] : i <= Position(cont[s]) => i \in delivered[s]

UnderWay ==
    /\ at \in Source => /\ UpTo(at, place)
                        /\ place.page > MaxPages => cont[at].page > MaxPages
    /\ \A s \in Source : s < at => IF next[s] = Ended THEN All(s) ELSE UpTo(s, next[s])

Claimed == complete => \A s \in Source : \A i \in 1..total[s] : i <= Ceil => i \in delivered[s]

Covered == SessionTypeOK /\ Collected /\ Between /\ UnderWay /\ Claimed

LEMMA Given ==
    /\ Sources \in Nat /\ PerPage \in Nat /\ PerPage > 0 /\ MaxPages \in Nat /\ MaxTotal \in Nat
    /\ Ceil \in Nat
    /\ Start \in Place /\ Ended \notin Place
    /\ \A p \in Place : /\ p.page \in Nat \ {0} /\ p.offset \in 0..PerPage - 1
                        /\ Position(p) \in Nat
    /\ Position(Start) = 0
<1>1. Sources \in Nat /\ PerPage \in Nat /\ PerPage > 0 /\ MaxPages \in Nat /\ MaxTotal \in Nat
  BY ListingAssumption DEF ListingAssumption
<1>2. Ceil \in Nat
  BY <1>1, Product DEF Ceil
<1>3. Start \in Place /\ Ended \notin Place
  BY <1>1 DEF Start, Ended, Place
<1>4. \A p \in Place : p.page \in Nat \ {0} /\ p.offset \in 0..PerPage - 1
  BY DEF Place
<1>5. \A p \in Place : Position(p) \in Nat
  <2> TAKE p \in Place
  <2>1. First(p.page) \in Nat
    BY <1>4, FirstOfPage
  <2> QED
    BY <1>1, <1>4, <2>1 DEF Position
<1>6. Position(Start) = 0
  BY <1>1 DEF Position, Start, First
<1> QED
  BY <1>1, <1>2, <1>3, <1>4, <1>5, <1>6

LEMMA CoveredInit == SessionInit => Covered
<1> SUFFICES ASSUME SessionInit PROVE Covered
  OBVIOUS
<1>1. SessionTypeOK
  <2>1. Nothing \in [Source -> SUBSET (1..MaxTotal)] /\ MaxFailures \in Nat
    BY ListingAssumption DEF Nothing, ListingAssumption
  <2>2. cont \in [Source -> Place] /\ next \in [Source -> Place \cup {Ended}] /\ place \in Place
    BY Given DEF SessionInit
  <2>3. limit \in [Source -> Limits] /\ total \in [Source -> 0..MaxTotal]
    BY DEF SessionInit
  <2>4. at \in 0..Sources + 1 /\ failures \in 0..MaxFailures
    BY <2>1, Given DEF SessionInit
  <2> QED
    BY <2>1, <2>2, <2>3, <2>4 DEF SessionInit, SessionTypeOK
<1>2. Collected
  <2> SUFFICES ASSUME NEW s \in Source
               PROVE  /\ Has(s) \subseteq 1..total[s]
                      /\ IsFiniteSet(items[s]) /\ Cardinality(items[s]) <= limit[s]
    BY DEF Collected
  <2>1. items[s] = {} /\ delivered[s] = {}
    BY DEF SessionInit, Nothing
  <2>2. limit[s] \in Nat
    BY <1>1, ListingAssumption DEF SessionTypeOK, ListingAssumption
  <2> QED
    BY <2>1, <2>2, FS_EmptySet DEF Has
<1>3. Between
  <2>1. \A s \in Source : \A i \in 1..total[s] : ~(i <= Position(cont[s]))
    BY <1>1, Given DEF SessionInit, SessionTypeOK
  <2> QED
    BY <2>1 DEF Between, SessionInit
<1>4. UnderWay
  BY DEF UnderWay, SessionInit, Source
<1> QED
  BY <1>1, <1>2, <1>3, <1>4 DEF Covered, SessionInit, Claimed

\* What is known of the source that is being read.
LEMMA AtSource ==
    ASSUME Covered, Reading
    PROVE  /\ at \in Source /\ at \in 1..Sources /\ ~complete
           /\ total[at] \in Nat /\ total[at] <= MaxTotal /\ limit[at] \in Nat
           /\ place \in Place /\ place.offset \in Nat /\ cont[at] \in Place
           /\ Cardinality(items[at]) \in Nat /\ Cardinality(items[at]) <= limit[at]
           /\ First(place.page) \in Nat /\ First(place.page + 1) = First(place.page) + PerPage
           /\ OnPage(place.page) \in Nat /\ OnPage(place.page) <= PerPage
           /\ OnPage(place.page) > 0 => First(place.page) + OnPage(place.page) <= total[at]
           /\ First(place.page) + OnPage(place.page) < total[at]
                 => OnPage(place.page) = PerPage
<1>1. /\ at \in Source /\ at \in 1..Sources /\ at # 0
      /\ total[at] \in 0..MaxTotal /\ limit[at] \in Nat
      /\ place \in Place /\ cont[at] \in Place
  <2>1. SessionTypeOK /\ at \in Source
    BY DEF Covered, Reading
  <2>2. at \in 1..Sources /\ at # 0
    BY <2>1, Given DEF Source
  <2>3. limit[at] \in Nat
    BY <2>1, ListingAssumption DEF SessionTypeOK, ListingAssumption
  <2> QED
    BY <2>1, <2>2, <2>3 DEF SessionTypeOK
<1>2. ~complete
  BY <1>1 DEF Covered, Between
<1>3. Cardinality(items[at]) \in Nat /\ Cardinality(items[at]) <= limit[at]
  BY <1>1, FS_CardinalityType DEF Covered, Collected
<1>4. First(place.page) \in Nat /\ First(place.page + 1) = First(place.page) + PerPage
  BY <1>1, Given, FirstOfPage
<1>5. /\ OnPage(place.page) \in Nat /\ OnPage(place.page) <= PerPage
      /\ OnPage(place.page) > 0 => First(place.page) + OnPage(place.page) <= total[at]
      /\ First(place.page) + OnPage(place.page) < total[at] => OnPage(place.page) = PerPage
  BY <1>1, <1>4, Given DEF OnPage, Least
<1>6. place.offset \in Nat
  BY <1>1, Given
<1> QED
  BY <1>1, <1>2, <1>3, <1>4, <1>5, <1>6, Given

(***************************************************************************)
(* A source is left: at the place given, up to which the session has it,   *)
(* or at its end.                                                          *)
(***************************************************************************)
LEMMA LeaveCovers ==
    ASSUME Covered, Reading, NEW where \in Place \cup {Ended}, Leave(where),
           UNCHANGED <<session, failures>>,
           items' \in [Source -> SUBSET (1..MaxTotal)],
           \A s \in Source : s # at => items'[s] = items[s],
           items[at] \subseteq items'[at], items'[at] \subseteq 1..total[at],
           IsFiniteSet(items'[at]), Cardinality(items'[at]) <= limit[at],
           IF where = Ended
           THEN /\ \A i \in 1..total[at] : i <= Ceil => i \in delivered[at] \cup items'[at]
                /\ total[at] > Ceil => cont[at].page > MaxPages
           ELSE \A i \in 1..total[at] : i <= Position(where) => i \in delivered[at] \cup items'[at]
    PROVE  Covered'
<1>1. /\ UNCHANGED <<total, limit, cont, delivered, complete, failures>>
      /\ next' = [next EXCEPT ![at] = where] /\ at' = at + 1
      /\ place' = IF at < Sources THEN cont[at + 1] ELSE Start
  BY DEF Leave, session
<1>2. at \in Source /\ at \in 1..Sources /\ ~complete /\ SessionTypeOK
  BY AtSource DEF Covered
<1>3. at' \in 0..Sources + 1 /\ at' # 0 /\ (at < Sources => at + 1 \in Source)
  BY <1>1, <1>2, Given DEF Source
<1>4. place' \in Place
  BY <1>1, <1>2, <1>3, Given DEF SessionTypeOK
<1>5. SessionTypeOK'
  BY <1>1, <1>2, <1>3, <1>4 DEF SessionTypeOK
<1>6. Collected'
  <2> SUFFICES ASSUME NEW s \in Source
               PROVE  /\ delivered[s] \cup items'[s] \subseteq 1..total[s]
                      /\ IsFiniteSet(items'[s]) /\ Cardinality(items'[s]) <= limit[s]
    BY <1>1 DEF Collected, Has
  <2>1. CASE s = at
    BY <1>2, <2>1 DEF Covered, Collected, Has
  <2>2. CASE s # at
    BY <2>2 DEF Covered, Collected, Has
  <2> QED
    BY <2>1, <2>2
<1>7. Between'
  BY <1>1, <1>2, <1>3 DEF Covered, Between
<1>8. ASSUME NEW s \in Source PROVE Has(s) \subseteq Has(s)'
  BY <1>1 DEF Has
<1>9. at' \in Source => UpTo(at, place)' /\ (place'.page > MaxPages => cont'[at'].page > MaxPages)
  <2> SUFFICES ASSUME at' \in Source
               PROVE  UpTo(at, place)' /\ (place'.page > MaxPages => cont'[at'].page > MaxPages)
    OBVIOUS
  <2>1. at < Sources /\ place' = cont[at']
    BY <1>1, <1>2, Given DEF Source
  <2>2. \A i \in 1..total[at'] : i <= Position(cont[at']) => i \in delivered[at']
    BY DEF Covered, Between
  <2> QED
    BY <1>1, <2>1, <2>2 DEF UpTo, Has
<1>10. ASSUME NEW s \in Source, s < at'
       PROVE  IF next'[s] = Ended THEN All(s)' ELSE UpTo(s, next[s])'
  <2>1. CASE s = at
    <3>1. next'[s] = where
      BY <1>1, <1>2, <2>1 DEF SessionTypeOK
    <3> QED
      BY <1>1, <2>1, <3>1 DEF All, UpTo, Has
  <2>2. CASE s # at
    <3>1. s < at /\ next'[s] = next[s]
      BY <1>1, <1>2, <1>10, <2>2 DEF Source, SessionTypeOK
    <3>2. IF next[s] = Ended THEN All(s) ELSE UpTo(s, next[s])
      BY <3>1 DEF Covered, UnderWay
    <3> QED
      BY <1>1, <1>8, <3>1, <3>2 DEF All, UpTo
  <2> QED
    BY <2>1, <2>2
<1>11. Claimed'
  BY <1>1, <1>2 DEF Claimed
<1> QED
  BY <1>5, <1>6, <1>7, <1>9, <1>10, <1>11 DEF Covered, UnderWay

\* The entries of a page, from one offset to another.
LEMMA Slice ==
    ASSUME NEW first \in Nat, NEW a \in Nat, NEW b \in Int, b >= a
    PROVE  /\ {first + i : i \in a + 1..b} = first + a + 1..first + b
           /\ IsFiniteSet({first + i : i \in a + 1..b})
           /\ Cardinality({first + i : i \in a + 1..b}) = b - a
<1>1. {first + i : i \in a + 1..b} = first + a + 1..first + b
  <2>1. ASSUME NEW k \in first + a + 1..first + b
        PROVE  k \in {first + i : i \in a + 1..b}
    <3>1. k - first \in a + 1..b /\ k = first + (k - first)
      OBVIOUS
    <3> QED
      BY <3>1
  <2>2. \A i \in a + 1..b : first + i \in first + a + 1..first + b
    OBVIOUS
  <2> QED
    BY <2>1, <2>2
<1> DEFINE lo == first + a + 1
           hi == first + b
<1>2. lo \in Int /\ hi \in Int /\ (lo > hi <=> a = b) /\ hi - lo + 1 = b - a
  OBVIOUS
<1> HIDE DEF lo, hi
<1>3. IsFiniteSet(lo..hi) /\ Cardinality(lo..hi) = IF lo > hi THEN 0 ELSE hi - lo + 1
  BY <1>2, FS_Interval
<1>4. Cardinality(lo..hi) = b - a
  BY <1>2, <1>3
<1> QED
  BY <1>1, <1>3, <1>4 DEF lo, hi

LEMMA NoMoreThanRoom ==
    ASSUME NEW found \in Nat, NEW room \in Nat, NEW offset \in Nat, NEW stop \in Int,
           stop <= offset + (room - found), NEW both \in Nat
    PROVE  found + (stop - offset) - both <= room
OBVIOUS

(***************************************************************************)
(* What is taken of a page: from the offset to stop, and no more than the  *)
(* limit leaves.                                                           *)
(***************************************************************************)
LEMMA TakenIsRight ==
    ASSUME Covered, Reading, NEW stop \in Int,
           stop >= place.offset, stop <= OnPage(place.page),
           stop <= place.offset + (limit[at] - Cardinality(items[at])),
           items' = [items EXCEPT ![at] = @ \cup
                        {First(place.page) + i : i \in place.offset + 1..stop}]
    PROVE  /\ items' \in [Source -> SUBSET (1..MaxTotal)]
           /\ \A s \in Source : s # at => items'[s] = items[s]
           /\ items[at] \subseteq items'[at] /\ items'[at] \subseteq 1..total[at]
           /\ IsFiniteSet(items'[at]) /\ Cardinality(items'[at]) <= limit[at]
           /\ \A i \in 1..total[at] :
                 i <= First(place.page) + stop => i \in delivered[at] \cup items'[at]
<1> DEFINE first == First(place.page)
           slice == {first + i : i \in place.offset + 1..stop}
<1>1. /\ at \in Source /\ total[at] \in Nat /\ total[at] <= MaxTotal
      /\ limit[at] \in Nat /\ first \in Nat /\ place.offset \in Nat
      /\ Cardinality(items[at]) \in Nat
      /\ OnPage(place.page) \in Nat
      /\ OnPage(place.page) > 0 => first + OnPage(place.page) <= total[at]
  BY ONLY Covered, Reading, AtSource
<1>2. /\ slice = first + place.offset + 1..first + stop
      /\ IsFiniteSet(slice) /\ Cardinality(slice) = stop - place.offset
  <2> DEFINE offset == place.offset
  <2>1. first \in Nat /\ offset \in Nat /\ stop >= offset
    BY <1>1
  <2> HIDE DEF first, offset
  <2>2. /\ {first + i : i \in offset + 1..stop} = first + offset + 1..first + stop
        /\ IsFiniteSet({first + i : i \in offset + 1..stop})
        /\ Cardinality({first + i : i \in offset + 1..stop}) = stop - offset
    BY ONLY <2>1, stop \in Int, Slice, Zenon
  <2> QED
    BY <2>2 DEF offset
<1>3. DOMAIN items = Source /\ items \in [Source -> SUBSET (1..MaxTotal)] /\ MaxTotal \in Nat
  BY Given DEF Covered, SessionTypeOK
<1>4. items'[at] = items[at] \cup slice /\ \A s \in Source : s # at => items'[s] = items[s]
  BY <1>1, <1>3
<1> HIDE DEF first, slice
<1>5. slice \subseteq 1..total[at]
  <2> SUFFICES ASSUME NEW k \in first + place.offset + 1..first + stop
               PROVE  k \in 1..total[at]
    BY <1>2
  <2>1. stop > 0 /\ k <= first + OnPage(place.page)
    BY <1>1
  <2> QED
    BY <1>1, <2>1
<1>6. items[at] \subseteq 1..total[at] /\ IsFiniteSet(items[at])
  BY <1>1 DEF Covered, Collected, Has
<1>7. 1..total[at] \subseteq 1..MaxTotal
  BY <1>1, <1>3
<1>8. items' \in [Source -> SUBSET (1..MaxTotal)]
  <2>1. items[at] \cup slice \in SUBSET (1..MaxTotal)
    BY <1>5, <1>6, <1>7
  <2>2. items' = [items EXCEPT ![at] = items[at] \cup slice]
    BY DEF slice, first
  <2> QED
    BY <1>3, <2>1, <2>2
<1>9. IsFiniteSet(items'[at]) /\ Cardinality(items'[at]) <= limit[at]
  <2>1. /\ IsFiniteSet(items[at] \cup slice)
        /\ Cardinality(items[at] \cup slice)
              = Cardinality(items[at]) + Cardinality(slice) - Cardinality(items[at] \cap slice)
    BY <1>2, <1>6, FS_Union
  <2>2. Cardinality(items[at] \cap slice) \in Nat
    BY <1>2, FS_Subset, FS_CardinalityType
  <2>3. Cardinality(items[at] \cup slice) <= limit[at]
    <3> DEFINE found == Cardinality(items[at])
               both == Cardinality(items[at] \cap slice)
               room == limit[at]
               offset == place.offset
    <3>1. Cardinality(items[at] \cup slice) = found + (stop - offset) - both
      BY <1>2, <2>1
    <3>2. found \in Nat /\ room \in Nat /\ offset \in Nat /\ both \in Nat
      BY <1>1, <2>2
    <3>3. stop <= offset + (room - found)
      OBVIOUS
    <3> HIDE DEF found, both, room, offset
    <3>4. found + (stop - offset) - both <= room
      BY <3>2, <3>3, NoMoreThanRoom
    <3> QED
      BY <3>1, <3>4 DEF room
  <2> QED
    BY <1>4, <2>1, <2>3
<1>10. ASSUME NEW i \in 1..total[at], i <= first + stop
       PROVE  i \in delivered[at] \cup items'[at]
  <2>1. CASE i <= first + place.offset
    <3>1. UpTo(at, place)
      BY ONLY Covered, <1>1 DEF Covered, UnderWay
    <3>2. Position(place) = first + place.offset
      BY DEF Position, first
    <3>3. i \in Has(at)
      BY <2>1, <3>1, <3>2 DEF UpTo
    <3> QED
      BY <1>4, <3>3 DEF Has
  <2>2. CASE i > first + place.offset
    <3>1. i \in slice
      BY <1>1, <1>2, <1>10, <2>2
    <3> QED
      BY <1>4, <3>1
  <2> QED
    BY <1>1, <2>1, <2>2
<1> QED
  BY <1>4, <1>5, <1>6, <1>8, <1>9, <1>10 DEF first

LEMMA FillUpCovers == ASSUME Covered, FillUp PROVE Covered'
<1> DEFINE count == limit[at] - Cardinality(items[at])
           stop == place.offset + count
           where == [page |-> place.page, offset |-> stop]
<1>1. Reading /\ stop < OnPage(place.page) /\ Leave(where) /\ UNCHANGED <<session, failures>>
  BY DEF FillUp, ResumeOffset
<1>2. items' = [items EXCEPT ![at] = @ \cup
                    {First(place.page) + i : i \in place.offset + 1..stop}]
  BY DEF FillUp
<1>3. /\ place \in Place /\ place.page \in Nat \ {0} /\ place.offset \in Nat
      /\ count \in Nat
      /\ OnPage(place.page) \in Nat /\ OnPage(place.page) <= PerPage /\ PerPage \in Nat
  BY <1>1, AtSource, Given
<1>4. /\ stop \in Nat /\ stop \in Int /\ stop >= place.offset /\ stop <= OnPage(place.page)
      /\ stop <= place.offset + (limit[at] - Cardinality(items[at]))
  BY <1>1, <1>3
<1> HIDE DEF stop
<1>5. where \in Place /\ where # Ended
  <2>1. stop \in 0..PerPage - 1
    BY <1>1, <1>3, <1>4
  <2> QED
    BY <1>3, <2>1 DEF Place, Ended
<1>6. /\ items' \in [Source -> SUBSET (1..MaxTotal)]
      /\ \A s \in Source : s # at => items'[s] = items[s]
      /\ items[at] \subseteq items'[at] /\ items'[at] \subseteq 1..total[at]
      /\ IsFiniteSet(items'[at]) /\ Cardinality(items'[at]) <= limit[at]
      /\ \A i \in 1..total[at] :
            i <= First(place.page) + stop => i \in delivered[at] \cup items'[at]
  BY <1>1, <1>2, <1>4, TakenIsRight, Zenon
<1>7. Position(where) = First(place.page) + stop
  BY DEF Position
<1> HIDE DEF where
<1> QED
  BY <1>1, <1>5, <1>6, <1>7, LeaveCovers

\* A page that is taken to its end.
LEMMA TakenToTheEnd ==
    ASSUME Covered, TakesAll
    PROVE  /\ Reading
           /\ items' \in [Source -> SUBSET (1..MaxTotal)]
           /\ \A s \in Source : s # at => items'[s] = items[s]
           /\ items[at] \subseteq items'[at] /\ items'[at] \subseteq 1..total[at]
           /\ IsFiniteSet(items'[at]) /\ Cardinality(items'[at]) <= limit[at]
           /\ \A i \in 1..total[at] : i <= First(place.page + 1) => i \in delivered[at] \cup items'[at]
           /\ OnPage(place.page) < PerPage =>
                 /\ 1..total[at] \subseteq delivered[at] \cup items'[at]
                 /\ total[at] <= Ceil
<1>1. Reading /\ place.offset <= OnPage(place.page)
      /\ OnPage(place.page) <= place.offset + (limit[at] - Cardinality(items[at]))
  BY AtSource, Given DEF TakesAll
<1>2. items' = [items EXCEPT ![at] = @ \cup
                    {First(place.page) + i : i \in place.offset + 1..OnPage(place.page)}]
  BY DEF TakesAll
<1>3. /\ total[at] \in Nat /\ First(place.page) \in Nat
      /\ First(place.page + 1) = First(place.page) + PerPage
      /\ OnPage(place.page) \in Nat /\ OnPage(place.page) <= PerPage
      /\ First(place.page) + OnPage(place.page) < total[at] => OnPage(place.page) = PerPage
      /\ PerPage \in Nat
      /\ OnPage(place.page) \in Int /\ OnPage(place.page) >= place.offset
      /\ OnPage(place.page) <= OnPage(place.page)
  BY <1>1, AtSource, Given
<1>4. /\ items' \in [Source -> SUBSET (1..MaxTotal)]
      /\ \A s \in Source : s # at => items'[s] = items[s]
      /\ items[at] \subseteq items'[at] /\ items'[at] \subseteq 1..total[at]
      /\ IsFiniteSet(items'[at]) /\ Cardinality(items'[at]) <= limit[at]
      /\ \A i \in 1..total[at] :
            i <= First(place.page) + OnPage(place.page) => i \in delivered[at] \cup items'[at]
  BY <1>1, <1>2, <1>3, TakenIsRight, Zenon
<1>5. ASSUME NEW i \in 1..total[at], i <= First(place.page + 1) \/ OnPage(place.page) < PerPage
      PROVE  i \in delivered[at] \cup items'[at]
  <2>1. i <= First(place.page) + OnPage(place.page)
    BY <1>3, <1>5
  <2> QED
    BY <1>4, <2>1
<1>6. OnPage(place.page) < PerPage => total[at] <= Ceil
  <2>1. place.page \in Nat \ {0} /\ place.page <= MaxPages
    BY <1>1, AtSource, Given DEF TakesAll
  <2>2. First(place.page + 1) <= Ceil
    BY <2>1, FirstOfPage
  <2> QED
    BY <1>3, <2>2, Given
<1> QED
  BY <1>1, <1>4, <1>5, <1>6

LEMMA EndSourceCovers == ASSUME Covered, EndSource PROVE Covered'
<1>1. TakesAll /\ OnPage(place.page) < PerPage /\ Leave(Ended) /\ UNCHANGED <<session, failures>>
  BY DEF EndSource, LastPage
<1>2. Reading /\ Ended \in Place \cup {Ended}
  BY <1>1 DEF TakesAll
<1>3. /\ items' \in [Source -> SUBSET (1..MaxTotal)]
      /\ \A s \in Source : s # at => items'[s] = items[s]
      /\ items[at] \subseteq items'[at] /\ items'[at] \subseteq 1..total[at]
      /\ IsFiniteSet(items'[at]) /\ Cardinality(items'[at]) <= limit[at]
      /\ \A i \in 1..total[at] : i <= Ceil => i \in delivered[at] \cup items'[at]
      /\ total[at] <= Ceil
  BY <1>1, TakenToTheEnd
<1>4. ~(total[at] > Ceil)
  BY <1>2, <1>3, AtSource, Given
<1> QED
  BY ONLY Covered, <1>1, <1>2, <1>3, <1>4, LeaveCovers, Zenon

LEMMA NextPageCovers == ASSUME Covered, NextPage PROVE Covered'
<1>1. /\ TakesAll /\ place' = [page |-> place.page + 1, offset |-> 0]
      /\ UNCHANGED <<total, limit, cont, delivered, complete, at, next, failures>>
  BY DEF NextPage, session
<1>2. /\ at \in Source /\ at # 0 /\ ~complete /\ place.page \in Nat \ {0}
      /\ First(place.page + 1) \in Nat /\ PerPage \in Nat /\ PerPage > 0
      /\ SessionTypeOK
  <2>1. TakesAll /\ Reading
    BY <1>1, TakenToTheEnd
  <2>2. /\ at \in Source /\ at # 0 /\ ~complete /\ place \in Place
        /\ First(place.page + 1) = First(place.page) + PerPage /\ First(place.page) \in Nat
    BY ONLY <2>1, Covered, AtSource, Given DEF Source
  <2> QED
    BY <2>2, Given DEF Covered
<1>3. place' \in Place /\ Position(place') = First(place.page + 1)
  BY <1>1, <1>2 DEF Place, Position
<1>4. SessionTypeOK'
  BY <1>1, <1>2, <1>3, TakenToTheEnd DEF SessionTypeOK
<1>5. Collected'
  <2> SUFFICES ASSUME NEW s \in Source
               PROVE  /\ delivered[s] \cup items'[s] \subseteq 1..total[s]
                      /\ IsFiniteSet(items'[s]) /\ Cardinality(items'[s]) <= limit[s]
    BY <1>1 DEF Collected, Has
  <2>1. CASE s = at
    BY <1>1, <1>2, <2>1, TakenToTheEnd DEF Covered, Collected, Has
  <2>2. CASE s # at
    BY <1>1, <2>2, TakenToTheEnd DEF Covered, Collected, Has
  <2> QED
    BY <2>1, <2>2
<1>6. Between'
  BY <1>1, <1>2 DEF Covered, Between
<1>7. UpTo(at, place)' /\ ~(place'.page > MaxPages)
  <2>1. place.page < MaxPages /\ MaxPages \in Nat
    BY Given DEF NextPage
  <2>2. ~(place'.page > MaxPages)
    BY <1>1, <1>2, <2>1
  <2> QED
    BY <1>1, <1>3, <2>2, TakenToTheEnd DEF UpTo, Has
<1>8. ASSUME NEW s \in Source, s < at
      PROVE  IF next[s] = Ended THEN All(s)' ELSE UpTo(s, next[s])'
  <2>1. s # at
    BY <1>2, <1>8, Given DEF Source
  <2>2. items'[s] = items[s]
    BY <1>1, <2>1, TakenToTheEnd
  <2>3. IF next[s] = Ended THEN All(s) ELSE UpTo(s, next[s])
    BY <1>8 DEF Covered, UnderWay
  <2> QED
    BY <1>1, <2>2, <2>3 DEF All, UpTo, Has
<1>9. Claimed'
  BY <1>1, <1>2 DEF Claimed
<1> QED
  BY <1>1, <1>4, <1>5, <1>6, <1>7, <1>8, <1>9 DEF Covered, UnderWay

LEMMA CeilingCovers == ASSUME Covered, Ceiling PROVE Covered'
<1> DEFINE where == [page |-> place.page + 1, offset |-> 0]
<1>1. TakesAll /\ Leave(where) /\ UNCHANGED <<session, failures>>
  BY DEF Ceiling, Beyond
<1>2. /\ place.page \in Nat \ {0} /\ First(place.page + 1) \in Nat
      /\ PerPage \in Nat /\ PerPage > 0
  BY <1>1, TakenToTheEnd, AtSource, Given
<1>3. where \in Place /\ where # Ended /\ Position(where) = First(place.page + 1)
  BY <1>2 DEF Place, Ended, Position
<1> HIDE DEF where
<1> QED
  BY <1>1, <1>3, TakenToTheEnd, LeaveCovers

\* A source that is left as it was found.
LEMMA LeftUntouched ==
    ASSUME Covered, Reading, NEW where \in Place \cup {Ended}, Leave(where),
           UNCHANGED <<session, items, failures>>,
           IF where = Ended THEN All(at) ELSE UpTo(at, where)
    PROVE  Covered'
<1>1. /\ items' = items /\ at \in Source
      /\ items \in [Source -> SUBSET (1..MaxTotal)]
  BY AtSource DEF Covered, SessionTypeOK
<1>2. Has(at) \subseteq 1..total[at] /\ IsFiniteSet(items[at]) /\ Cardinality(items[at]) <= limit[at]
  BY <1>1 DEF Covered, Collected
<1>3. IF where = Ended
      THEN /\ \A i \in 1..total[at] : i <= Ceil => i \in delivered[at] \cup items[at]
           /\ total[at] > Ceil => cont[at].page > MaxPages
      ELSE \A i \in 1..total[at] : i <= Position(where) => i \in delivered[at] \cup items[at]
  BY DEF All, UpTo, Has
<1> QED
  BY <1>1, <1>2, <1>3, LeaveCovers DEF Has

LEMMA SkipSourceCovers == ASSUME Covered, SkipSource PROVE Covered'
<1>1. Reading /\ Leave(cont[at]) /\ UNCHANGED <<session, items, failures>>
  BY DEF SkipSource
<1>2. cont[at] \in Place /\ cont[at] # Ended
  BY <1>1, AtSource, Given
<1>3. UpTo(at, cont[at])
  BY <1>1 DEF Reading, Covered, Between, UpTo, Has
<1> QED
  BY <1>1, <1>2, <1>3, LeftUntouched

\* Beyond the ceiling nothing is read, and only a continuation leads there.
LEMMA PastCeilingCovers == ASSUME Covered, PastCeiling PROVE Covered'
<1>1. Reading /\ Leave(Ended) /\ place.page > MaxPages /\ UNCHANGED <<session, items, failures>>
  BY DEF PastCeiling
<1>2. /\ place \in Place /\ total[at] \in Nat /\ at \in Source
  BY <1>1, AtSource
<1>3. place.page \in Nat \ {0} /\ place.offset \in Nat /\ Ceil \in Nat
  BY <1>2, Given
<1>4. First(place.page) \in Nat /\ First(place.page) >= Ceil
  BY <1>1, <1>3, FirstOfPage
<1>5. ASSUME NEW i \in 1..total[at], i <= Ceil PROVE i <= Position(place)
  BY <1>2, <1>3, <1>4, <1>5 DEF Position
<1>6. All(at)
  <2>1. UpTo(at, place) /\ cont[at].page > MaxPages
    BY ONLY Covered, <1>1, <1>2 DEF Covered, UnderWay
  <2> QED
    BY <1>5, <2>1 DEF All, UpTo
<1> QED
  BY <1>1, <1>6, LeftUntouched

LEMMA CallCovers == ASSUME Covered, Call PROVE Covered'
<1>1. /\ at = 0 /\ ~complete /\ at' = 1 /\ place' = cont[1]
      /\ UNCHANGED <<total, limit, cont, delivered, complete, items, next, failures>>
  BY DEF Call, session
<1>2. 1 \in Source /\ at' \in 0..Sources + 1
  BY <1>1, ListingAssumption DEF ListingAssumption, Source
<1>3. SessionTypeOK'
  BY <1>1, <1>2 DEF Covered, SessionTypeOK
<1>4. Collected'
  BY <1>1 DEF Covered, Collected, Has
<1>5. Between'
  BY <1>1 DEF Covered, Between
<1>6. UpTo(at, place)' /\ (place'.page > MaxPages => cont'[at'].page > MaxPages)
  BY <1>1, <1>2 DEF Covered, Between, UpTo, Has
<1>7. \A s \in Source : ~(s < at')
  BY <1>1, Given DEF Source
<1>8. Claimed'
  BY <1>1 DEF Claimed
<1> QED
  BY <1>3, <1>4, <1>5, <1>6, <1>7, <1>8 DEF Covered, UnderWay

\* Between calls nothing is held but what has been given.
LEMMA ReturnCovers ==
    ASSUME Covered, Return, UNCHANGED <<total, limit>>,
           delivered' \in [Source -> SUBSET (1..MaxTotal)],
           cont' \in [Source -> Place], complete' \in BOOLEAN, failures' \in 0..MaxFailures,
           \A s \in Source : delivered'[s] \subseteq 1..total[s],
           \A s \in Source : \A i \in 1..total[s] : i <= Position(cont'[s]) => i \in delivered'[s],
           Claimed'
    PROVE  Covered'
<1>1. at' = 0 /\ items' = Nothing /\ place' = Start /\ next' = [s \in Source |-> Ended]
  BY DEF Return
<1>2. Nothing \in [Source -> SUBSET (1..MaxTotal)] /\ \A s \in Source : Nothing[s] = {}
  BY DEF Nothing
<1>3. SessionTypeOK'
  <2>1. at' \in 0..Sources + 1
    BY <1>1, Given
  <2>2. next' \in [Source -> Place \cup {Ended}] /\ place' \in Place
    BY <1>1, Given
  <2> QED
    BY <1>1, <1>2, <2>1, <2>2 DEF Covered, SessionTypeOK
<1>4. Collected'
  <2> SUFFICES ASSUME NEW s \in Source
               PROVE  /\ delivered'[s] \cup items'[s] \subseteq 1..total[s]
                      /\ IsFiniteSet(items'[s]) /\ Cardinality(items'[s]) <= limit[s]
    BY DEF Collected, Has
  <2>1. limit[s] \in Nat
    BY ListingAssumption DEF ListingAssumption, Covered, SessionTypeOK
  <2>2. items'[s] = {}
    BY <1>1, <1>2
  <2>3. delivered'[s] \cup items'[s] \subseteq 1..total[s]
    BY <2>2
  <2> QED
    BY <2>1, <2>2, <2>3, FS_EmptySet
<1>5. Between'
  BY <1>1 DEF Between
<1>6. UnderWay'
  BY <1>1, Given DEF UnderWay, Source
<1> QED
  BY <1>3, <1>4, <1>5, <1>6 DEF Covered

LEMMA AnswerCovers == ASSUME Covered, Answer PROVE Covered'
<1>1. /\ at = Sources + 1 /\ Return /\ UNCHANGED <<total, limit, failures>>
      /\ delivered' = [s \in Source |-> delivered[s] \cup items[s]]
      /\ complete' = AllEnded
      /\ cont' = [s \in Source |-> IF next[s] = Ended THEN Start ELSE next[s]]
  BY DEF Answer
<1>2. \A s \in Source : s < at /\ delivered'[s] = Has(s)
  BY <1>1, Given DEF Source, Has
<1>3. \A s \in Source : IF next[s] = Ended THEN All(s) ELSE UpTo(s, next[s])
  BY <1>2 DEF Covered, UnderWay
<1>4. SessionTypeOK
  BY DEF Covered
<1>5. delivered' \in [Source -> SUBSET (1..MaxTotal)]
  BY <1>1, <1>4 DEF SessionTypeOK
<1>6. cont' \in [Source -> Place]
  <2>1. \A s \in Source : (IF next[s] = Ended THEN Start ELSE next[s]) \in Place
    BY <1>4, Given DEF SessionTypeOK
  <2> QED
    BY <1>1, <2>1
<1>7. \A s \in Source : delivered'[s] \subseteq 1..total[s]
  BY <1>2 DEF Covered, Collected
<1>8. ASSUME NEW s \in Source, NEW i \in 1..total[s], i <= Position(cont'[s])
      PROVE  i \in delivered'[s]
  <2>1. CASE next[s] = Ended
    <3>1. cont'[s] = Start
      BY <1>1, <2>1
    <3> QED
      BY <1>8, <3>1, Given
  <2>2. CASE next[s] # Ended
    <3>1. cont'[s] = next[s] /\ UpTo(s, next[s])
      BY <1>1, <1>3, <2>2
    <3> QED
      BY <1>2, <1>8, <3>1 DEF UpTo
  <2> QED
    BY <2>1, <2>2
<1>9. Claimed'
  <2> SUFFICES ASSUME AllEnded, NEW s \in Source, NEW i \in 1..total[s], i <= Ceil
               PROVE  i \in delivered'[s]
    BY <1>1 DEF Claimed
  <2>1. All(s)
    BY <1>3 DEF AllEnded
  <2> QED
    BY <1>2, <2>1 DEF All
<1>10. complete' \in BOOLEAN /\ failures' \in 0..MaxFailures
  BY <1>1, <1>4 DEF AllEnded, SessionTypeOK
<1> QED
  BY <1>1, <1>5, <1>6, <1>7, <1>8, <1>9, <1>10, ReturnCovers

LEMMA FailCovers == ASSUME Covered, Fail PROVE Covered'
<1>1. /\ Return /\ UNCHANGED <<total, limit, cont, delivered, complete>>
      /\ failures < MaxFailures /\ failures' = failures + 1
  BY DEF Fail, session
<1>2. SessionTypeOK
  BY DEF Covered
<1>3. failures' \in 0..MaxFailures
  BY <1>1, <1>2, ListingAssumption DEF SessionTypeOK, ListingAssumption
<1>4. \A s \in Source : delivered[s] \subseteq 1..total[s]
  BY DEF Covered, Collected, Has
<1>5. Claimed'
  BY <1>1 DEF Covered, Claimed
<1>6. \A s \in Source : \A i \in 1..total[s] : i <= Position(cont[s]) => i \in delivered[s]
  BY DEF Covered, Between
<1> QED
  BY <1>1, <1>2, <1>3, <1>4, <1>5, <1>6, ReturnCovers DEF SessionTypeOK

LEMMA CoveredStep == Covered /\ [SessionNext]_sessionVars => Covered'
<1> SUFFICES ASSUME Covered, [SessionNext]_sessionVars PROVE Covered'
  OBVIOUS
<1>1. CASE UNCHANGED sessionVars
  BY <1>1 DEF sessionVars, session, Covered, SessionTypeOK, Collected, Between, UnderWay, UpTo, All, Has, Claimed
<1>2. CASE SessionNext
  BY <1>2, CallCovers, SkipSourceCovers, PastCeilingCovers, FillUpCovers, EndSourceCovers,
     NextPageCovers, CeilingCovers, AnswerCovers, FailCovers DEF SessionNext, Step
<1> QED
  BY <1>1, <1>2

(***************************************************************************)
(* A session that is told "complete" has been given every entry of every   *)
(* source that is under the page ceiling, for any number of sources,       *)
(* whatever it may take in one call and whatever calls fail; and if a      *)
(* source goes beyond the ceiling, it has been told before that the list   *)
(* is cut there and has asked for the page beyond.                         *)
(***************************************************************************)
THEOREM CompleteMeansAllAlways == SessionSpec => []CompleteMeansAll
<1>1. Covered => CompleteMeansAll
  <2> SUFFICES ASSUME Covered PROVE CompleteMeansAll
    OBVIOUS
  <2>1. ASSUME complete, NEW s \in Source
        PROVE  {i \in 1..total[s] : i <= Ceil} \subseteq delivered[s] /\ delivered[s] \subseteq 1..total[s]
    BY <2>1 DEF Covered, Claimed, Collected, Has
  <2>2. ASSUME at = Sources + 1, AllEnded, NEW s \in Source, total[s] > Ceil
        PROVE  cont[s].page > MaxPages
    <3>1. s < at
      BY <2>2, Given DEF Source
    <3> QED
      BY <2>2, <3>1 DEF Covered, UnderWay, AllEnded, All
  <2> QED
    BY <2>1, <2>2 DEF CompleteMeansAll
<1>2. Covered /\ [SessionNext]_sessionVars => Covered'
  BY CoveredStep
<1> QED
  BY <1>1, <1>2, CoveredInit, PTL DEF SessionSpec
=============================================================================
