--------------------------- MODULE ListingOperations ---------------------------
(***************************************************************************)
(* The operations of the connectors that list something, as the control    *)
(* flow of their handlers: how they page, where they stop, and what they   *)
(* say of the entries they leave out.  RemoteListings runs them.           *)
(***************************************************************************)
EXTENDS Naturals

(* What a service may put where an entry should be: something "odd", an     *)
(* entry without what it is known by ("nameless"), or one of which some     *)
(* other part is unusable ("spoilt").  It is "kept" with the part left      *)
(* blank, "dropped" without a word, or the call "fails"; or the list it is  *)
(* in counts as "unread".                                                   *)

Shapes == {"odd", "nameless", "spoilt"}
Strict == [shape \in Shapes |-> "fails"]

\* Only what is no object is left out.
Mappings == [odd |-> "dropped", nameless |-> "kept", spoilt |-> "kept"]

\* What cannot be decoded is left blank.
Text == [shape \in Shapes |-> "kept"]

\* An entry is spoilt by a part that nothing may be wrong with.
With(entry, parts) ==
    [entry EXCEPT !.spoilt = IF \E part \in parts : part.odd = "fails" THEN "fails" ELSE @]

NormalizeUser == Strict
NormalizePosition == Strict
NormalizeCommit == Strict
NormalizeCommitComment == With(Strict, {NormalizeUser})
NormalizeNote == With(Strict, {NormalizeUser, NormalizePosition})
NormalizeDiscussion == With(Strict, {NormalizeNote})
NormalizeMergeRequest == With(Strict, {NormalizeUser})
NormalizeGroup == Strict
NormalizeGroupProject == Strict
VariableMetadata == Strict

\* A file with an include that is no include is not read at all; an include of
\* an unknown kind is left out.
IncludeSpecs == [odd |-> "unread", nameless |-> "dropped", spoilt |-> "fails"]

NormalizeIssue == Strict
LinkType == Strict
IssueComment == [odd |-> "fails", nameless |-> "kept", spoilt |-> "fails"]
NamedEntries == [odd |-> "dropped", nameless |-> "dropped", spoilt |-> "fails"]
FieldEntry == [odd |-> "dropped", nameless |-> "dropped", spoilt |-> "fails"]
TransitionEntry == [odd |-> "dropped", nameless |-> "dropped", spoilt |-> "kept"]
UserEntry == [odd |-> "dropped", nameless |-> "dropped", spoilt |-> "fails"]

SafeRemoteWebUrl == Strict
ListRow == With([odd |-> "fails", nameless |-> "fails", spoilt |-> "kept"], {SafeRemoteWebUrl})
OwnedGroup == [odd |-> "dropped", nameless |-> "dropped", spoilt |-> "fails"]
Normalized == Mappings

-----------------------------------------------------------------------------
(***************************************************************************)
(*  walk     what is read: one "flat" list, a "tree" of folders, or "each" *)
(*           of several lists                                              *)
(*  more     how another page is recognised: by the announced "total", by  *)
(*           a page that is not "short", by a "header" that names it or a  *)
(*           full page, by a "link" to it; or "no", there is only one; or  *)
(*           there is one, and a "count" tells what it leaves out          *)
(*  asks     for a fixed page size ("page"), for the "limit", or for "all" *)
(*  stop     when the limit stops it: when it is "reached", when there is  *)
(*           an entry that would be "exceeded" by, "after" everything was  *)
(*           read, or "never": there is none                               *)
(*  cuts     whether no more than so much is looked at in the first place  *)
(*  bounds   what the limit bounds: "rows" given, or entries "examined"    *)
(*  beyond   at a bound the list is "cut", or the operation must "fail"    *)
(*  filters  whether entries are chosen after they were read               *)
(*  resumes  whether it may be continued from a page and an offset         *)
(*  skips    what is passed over, and reported, when it cannot be read: an *)
(*           "entry", a "source"; or an entry that is too "heavy"          *)
(*  weighs   whether the size of what is given is bounded too              *)
(*  late     whether the page after the last is read, and thrown away      *)
(*  total    whether the "announced" total is given, what was "counted",   *)
(*           or "none"                                                     *)
(*  keeps    which end of what is too long is kept, "head" or "tail"       *)
(*  resolves whether a project is looked up first                          *)
(*  reads    what becomes of an entry that is not as it should be          *)
(***************************************************************************)
Once(asks) ==
    [walk |-> "flat", more |-> "no", asks |-> asks, stop |-> "after",
     cuts |-> FALSE, bounds |-> "rows", beyond |-> "cut", filters |-> FALSE, resumes |-> FALSE,
     skips |-> {}, weighs |-> FALSE, late |-> FALSE, total |-> "counted",
     keeps |-> "head", resolves |-> FALSE, reads |-> Mappings]

\* The parts of one thing, as many of them as are looked at.
Parts(reads) ==
    [Once("all") EXCEPT !.stop = "never", !.cuts = TRUE, !.total = "none", !.reads = reads]

-----------------------------------------------------------------------------
(* Artifactory: one request.                                               *)

ListRepositories == Once("all")
ArtifactInfo == [Once("all") EXCEPT !.total = "none"]
SearchArtifacts == [Once("limit") EXCEPT !.total = "none"]
GetProperties == Parts([odd |-> "dropped", nameless |-> "kept", spoilt |-> "kept"])

-----------------------------------------------------------------------------
(* Jira: one request, or pages until the announced total.                  *)

GetProject == Parts(NamedEntries)
GetIssue == [Parts(IssueComment) EXCEPT !.keeps = "tail"]
ListFields == [Once("all") EXCEPT !.filters = TRUE, !.reads = FieldEntry]
ListTransitions == [Once("all") EXCEPT !.reads = TransitionEntry]
ListLinkTypes == [Once("all") EXCEPT !.reads = LinkType]
SearchAssignableUsers == [Once("limit") EXCEPT !.filters = TRUE, !.reads = UserEntry]

SearchIssues(filters) ==
    [Once(IF filters THEN "page" ELSE "limit") EXCEPT
        !.more = "total", !.stop = "reached", !.filters = filters,
        !.reads = NormalizeIssue,
        !.total = IF filters THEN "counted" ELSE "announced"]

MyTickets == SearchIssues(FALSE)

-----------------------------------------------------------------------------
(* Confluence: pages until a short one; a total may be announced.          *)

Paged == [Once("limit") EXCEPT !.more = "short", !.total = "announced"]

\* The titles of the pages above; the text of a page, in pieces.
GetPage == Parts([odd |-> "dropped", nameless |-> "dropped", spoilt |-> "kept"])
GetPageBody == [Once("all") EXCEPT !.cuts = TRUE, !.total = "none", !.reads = Text]

Search == Paged
ListSpaces == Paged
ListChildren == Paged
ListComments == Paged

-----------------------------------------------------------------------------
(* GitLab: numbered pages of a fixed size.                                 *)

Paginate ==
    [Once("page") EXCEPT !.more = "header", !.stop = "exceeded", !.total = "none",
                         !.reads = Strict]

ListRepositoryTree == Paginate
ListPipelines == Paginate
CiPages == Paginate

ResolveProject == [Paginate EXCEPT !.resolves = TRUE]
Continued(reads) == [ResolveProject EXCEPT !.resumes = TRUE, !.reads = reads]

ListCommits == Continued(NormalizeCommit)
ListCommitComments == Continued(NormalizeCommitComment)
ListCommitDiscussions == Continued(NormalizeDiscussion)
ListMergeRequests == Continued(NormalizeMergeRequest)
ListMergeRequestCommits == Continued(NormalizeCommit)
ListMergeRequestDiscussions == Continued(NormalizeDiscussion)

\* The two lists of a group; projects are chosen after they were counted.
DescendantGroups == Continued(NormalizeGroup)
GroupProjects ==
    [Continued(NormalizeGroupProject) EXCEPT !.filters = TRUE, !.bounds = "examined"]

\* Branches and tags are needed in full, or not at all.
ListNamedRefs == [Paginate EXCEPT !.stop = "reached", !.beyond = "fail"]

\* A link names the longest of them that its path starts with.
ResolveLinkRef == [ListNamedRefs EXCEPT !.resolves = TRUE]

\* One answer holds the changes, and may say that there are more.
ReadMergeRequest ==
    [Once("all") EXCEPT !.more = "count", !.stop = "exceeded", !.weighs = TRUE,
                        !.total = "none", !.reads = Strict]

MergeRequestApprovals ==
    [Once("all") EXCEPT !.total = "none", !.resolves = TRUE, !.reads = With(Strict, {NormalizeUser})]

\* Texts, as the pieces they consist of.  A file is given whole or not at all;
\* of the log of a job the end is kept.
ReadFile == [Once("all") EXCEPT !.stop = "exceeded", !.beyond = "fail", !.total = "none", !.reads = Strict]
CiTextFile == ReadFile
JobLog == [Once("all") EXCEPT !.keeps = "tail", !.total = "none", !.resolves = TRUE, !.reads = Text]

\* The variables of a project and of the groups it is in.
CollectVariableEndpoint == [Paginate EXCEPT !.reads = VariableMetadata]
CollectCiVariables ==
    [CollectVariableEndpoint EXCEPT !.walk = "each", !.skips = {"source"}]

\* The branches with pipelines that are still alive; only so many are inspected.
SelectCiBranches == [Paginate EXCEPT !.stop = "after", !.filters = TRUE]

\* The files included by the pipeline definitions of several branches, which
\* share a budget of files and bytes.
ResolveCiIncludes ==
    [Once("all") EXCEPT !.walk = "each", !.stop = "exceeded", !.bounds = "examined",
                        !.skips = {"source", "entry", "heavy"}, !.weighs = TRUE,
                        !.total = "none", !.reads = IncludeSpecs]

\* Every branch that was selected is inspected, whatever the budget.
InspectCi == [ResolveCiIncludes EXCEPT !.resolves = TRUE]

-----------------------------------------------------------------------------
(* SharePoint: pages by link.                                              *)

Linked ==
    [Once("page") EXCEPT !.more = "link", !.stop = "exceeded", !.total = "none",
                         !.reads = Strict]

ListItems(recursive) ==
    [Linked EXCEPT !.walk = IF recursive THEN "tree" ELSE "flat",
                   !.bounds = "examined", !.filters = TRUE, !.weighs = TRUE,
                   !.reads = ListRow]

ListOwnedSites ==
    [Linked EXCEPT !.skips = {"entry"}, !.weighs = TRUE, !.late = TRUE,
                   !.reads = OwnedGroup]

\* The one drive of that name: all must be seen to know that it is the one.
ResolveDrive ==
    [Linked EXCEPT !.bounds = "examined", !.filters = TRUE,
                   !.beyond = "fail", !.late = TRUE]

\* Categories of sites.  What is too much of one is cut, or dropped whole.
CategoryPages == [Linked EXCEPT !.stop = "after", !.reads = Normalized]
AuditSites ==
    [CategoryPages EXCEPT !.walk = "each", !.skips = {"source"}, !.weighs = TRUE]

-----------------------------------------------------------------------------
Listing ==
    {ListRepositories, ArtifactInfo, SearchArtifacts, GetProperties,
     GetProject, GetIssue,
     ListFields, ListTransitions, ListLinkTypes, SearchAssignableUsers,
     SearchIssues(TRUE), SearchIssues(FALSE), MyTickets,
     Search, ListSpaces, ListChildren, ListComments, GetPage, GetPageBody,
     ListRepositoryTree, ListPipelines, CiPages, ListCommits, ListCommitComments,
     ListCommitDiscussions, ListMergeRequests, ListMergeRequestCommits,
     ListMergeRequestDiscussions, DescendantGroups, GroupProjects, ListNamedRefs,
     ResolveLinkRef, ReadMergeRequest, MergeRequestApprovals, ReadFile, CiTextFile,
     JobLog, CollectCiVariables, SelectCiBranches, InspectCi,
     ListItems(TRUE), ListItems(FALSE), ListOwnedSites, ResolveDrive, AuditSites}
=============================================================================
