--------------------------- MODULE WriteOperations ---------------------------
(***************************************************************************)
(* The operations of the connectors that change something remote, as the   *)
(* control flow of their handlers: what a handler reads before its one     *)
(* request, what the request asks for, and what becomes of each kind of    *)
(* answer.  ConnectorWrites runs them.                                     *)
(***************************************************************************)
EXTENDS Naturals

(***************************************************************************)
(*  on       the kind of thing that is changed                             *)
(*  any      whether any such thing will do, whoever made it               *)
(*  does     what the request asks for: to "create" what must be absent,   *)
(*           to "edit" or "remove" what must be there, to "put" or "add"   *)
(*           whatever is there                                             *)
(*  looks    what is read first: nothing, a thing to be "reused", one to   *)
(*           be reused if it is the "same", a "version" to be edited, the  *)
(*           "head" of a file, a "duplicate" comment; or the first request *)
(*           is a "probe" that may do the whole work                       *)
(*  pins     whether the caller may name the version it means              *)
(*  preview  whether a dry run ends "before" or "after" the first read, or *)
(*           is not offered                                                *)
(*  result   what the body of a success has to have to be complete         *)
(*  identity what it has to have, if it has gaps, to be read again by; the *)
(*           rest of what it has must agree with what is read              *)
(*  full, partial, junk                                                    *)
(*           a success whose body is complete, has gaps, or is unusable    *)
(*  twin     a refusal because the thing is there already (or is gone,     *)
(*           for a removal)                                                *)
(*  doubt    the client cannot tell what happened                          *)
(*                                                                         *)
(* The last five name an answer, or "read": read again, then answer.       *)
(***************************************************************************)
Plain(on, does, junk) ==
    [on |-> on, any |-> FALSE, does |-> does, looks |-> "no", pins |-> FALSE,
     preview |-> "before", result |-> {"body"}, identity |-> {},
     full |-> "created", partial |-> junk, junk |-> junk,
     twin |-> "failed", doubt |-> "write_ambiguous"]

-----------------------------------------------------------------------------
(* GitLab: an answer that is no evidence is a doubt.                       *)

OnGitLab(on, does) == Plain(on, does, "write_ambiguous")

\* Work was started: nothing less than the identity and the state of it will do.
CiAction(on, does) ==
    [OnGitLab(on, does) EXCEPT !.result = {"id", "status"}, !.identity = {"id", "status"}]

RetryJob == CiAction("job", "add")
PlayJob == CiAction("job", "edit")
RetryPipeline == CiAction("pipeline", "edit")
CreateMrNote == OnGitLab("note", "add")
ReplyToDiscussion == OnGitLab("note", "add")
ResolveDiscussion == OnGitLab("discussion", "edit")
ApproveMergeRequest == [OnGitLab("merge request", "edit") EXCEPT !.pins = TRUE]
MergeMergeRequest == [OnGitLab("merge request", "edit") EXCEPT !.pins = TRUE]
UpdateMergeRequest == OnGitLab("merge request", "edit")

BranchResult == {"name", "commit", "web_url"}
BranchIdentity == {}

CommitResult == {"id", "short_id", "title", "web_url"}
CommitIdentity == {"id"}

MergeRequestResult ==
    {"iid", "project_id", "title", "state", "source_branch", "target_branch", "web_url"}
MergeRequestIdentity == {"iid"}

\* Found: reused as it is.  A race lost: read, and reused.
CreateBranch ==
    [OnGitLab("branch", "create") EXCEPT
        !.any = TRUE, !.looks = "reused", !.partial = "read", !.twin = "read",
        !.result = BranchResult, !.identity = BranchIdentity]

\* Always read back, and only the commit that was asked for will do.
CreateNamedBranch ==
    [OnGitLab("branch", "create") EXCEPT
        !.looks = "same", !.preview = "after",
        !.full = "read", !.partial = "read", !.twin = "read",
        !.result = BranchResult, !.identity = BranchIdentity]

CreateMergeRequest ==
    [OnGitLab("opened merge request", "create") EXCEPT
        !.any = TRUE, !.partial = "read", !.twin = "read",
        !.result = MergeRequestResult, !.identity = MergeRequestIdentity]

CommitChanges(does) ==
    [OnGitLab("file", does) EXCEPT
        !.looks = "head", !.pins = does # "create", !.preview = "after",
        !.partial = "read", !.result = CommitResult, !.identity = CommitIdentity]

-----------------------------------------------------------------------------
(* Jira: what is not JSON is a doubt; a doubt may be settled by a read.    *)

OnJira(on, does) == Plain(on, does, "write_ambiguous")

CreateIssue == [OnJira("issue", "add") EXCEPT !.partial = "error"]
AssignIssue == [OnJira("assignee", "edit") EXCEPT
                   !.partial = "created", !.junk = "read", !.doubt = "read"]
UpdateFields == [OnJira("fields", "edit") EXCEPT !.partial = "created"]
ManageLabels == [OnJira("labels", "edit") EXCEPT
                   !.partial = "created", !.junk = "read", !.doubt = "read"]
Transition(expected) ==
    IF expected
    THEN [OnJira("status", "edit") EXCEPT
             !.partial = "created", !.junk = "read", !.doubt = "read"]
    ELSE [OnJira("status", "edit") EXCEPT !.partial = "created"]
LinkIssues == [OnJira("link", "add") EXCEPT !.partial = "created"]
AddJiraComment ==
    [OnJira("comment", "add") EXCEPT
        !.looks = "duplicate", !.partial = "read", !.junk = "read",
        !.twin = "read", !.doubt = "read"]

-----------------------------------------------------------------------------
(* The others: an answer that is no evidence is an error that does not say *)
(* whether the request has been carried out.                               *)

CreatePage == Plain("title", "create", "error")
AddPageComment == Plain("page comment", "add", "error")
UpdatePage == [Plain("page", "edit", "error") EXCEPT
                  !.looks = "version", !.preview = "after"]

Deploy == [Plain("artifact", "put", "error") EXCEPT !.looks = "probe"]
DeleteArtifact ==
    [Plain("artifact", "remove", "created") EXCEPT
        !.twin = "reused", !.preview = "after"]

OnSharePoint(does) == [Plain("item", does, "error") EXCEPT !.preview = "never"]

\* A version named for a new folder is its parent's.
CreateFolder(existOk) == OnSharePoint(IF existOk THEN "put" ELSE "create")
MoveItem == [OnSharePoint("edit") EXCEPT !.pins = TRUE, !.partial = "created"]
CopyItem == [OnSharePoint("add") EXCEPT !.partial = "created"]
RecycleItem == [OnSharePoint("remove") EXCEPT
                   !.pins = TRUE, !.partial = "created", !.junk = "created"]
Upload(conflict) ==
    OnSharePoint(CASE conflict = "fail" -> "create"
                   [] conflict = "replace" -> "put"
                   [] conflict = "rename" -> "add")

\* Every exception and every status from 400 on is reported in the same way.
\* (Graph is taken not to redirect: an empty redirect would pass for a success.)
OnTeams == [Plain("message", "add", "error") EXCEPT
               !.partial = "created", !.preview = "never", !.doubt = "error"]

TeamsSend == OnTeams
TeamsReply == OnTeams

-----------------------------------------------------------------------------
Operation ==
    {RetryJob, PlayJob, RetryPipeline, CreateMrNote, ReplyToDiscussion,
     ResolveDiscussion, ApproveMergeRequest, MergeMergeRequest, UpdateMergeRequest,
     CreateBranch, CreateNamedBranch, CreateMergeRequest,
     CommitChanges("create"), CommitChanges("edit"), CommitChanges("remove"),
     CreateIssue, AssignIssue, UpdateFields, ManageLabels,
     Transition(TRUE), Transition(FALSE), LinkIssues, AddJiraComment,
     CreatePage, AddPageComment, UpdatePage, Deploy, DeleteArtifact,
     CreateFolder(TRUE), CreateFolder(FALSE), MoveItem, CopyItem, RecycleItem,
     Upload("fail"), Upload("replace"), Upload("rename"),
     TeamsSend, TeamsReply}
=============================================================================
