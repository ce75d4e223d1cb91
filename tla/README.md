# A verification project for ericsson-capabilities

TLA+ modules that model the stateful parts of this repository, TLC configurations that check them on small instances, and
TLAPS proofs of the properties that matter most. Paths below are relative to `src/`.

- `WorkflowRun`, `WorkflowScan`, `WorkflowStore`: the control script of the workflow orchestrator.
- `BoundedClient`, `ConnectorExchange`: the HTTP client every connector shares, and the exchanges the connectors build on it.
- `WriteOperations` with `ConnectorWrites`: every operation of a connector that changes something remote.
- `ListingOperations` with `RemoteListings`, and `PagedListing`: every operation that lists or reads in parts.
- `Checkpoint`, `WindowsCheckpoint`: the onboarding checkpoint and its archive, on POSIX and on Windows.
- `LocalFiles` with `BoundedDocument`: the local files that are read and written, and the documents in them.

To check one configuration: `tlc -workers 2 -config run_edits.cfg MCWorkflowRun`. To check one proof module:
`tlapm Workflow_proofs.tla`. `PROJECT.json` maps every definition to the lines it models, lists the runs, and says of every
hazard which property would catch it.

## 1. Inventory

The repository packages skills (documents and small Python scripts), connector plugins for Ericsson services, an Outlook MCP
server and a connector command line. Nothing runs as a daemon. State lives in files under the user's home, in remote services,
or in one process for the length of one operation; what is hard is therefore who touches a file or a service *between* two
steps, what a failure leaves behind, and what the caller is told.

| Component | State | Operations | What is hard | What makes it correct |
|---|---|---|---|---|
| **Workflow run** `skills/ericsson/workflow-orchestrator/scripts/workflow_ctl.py` | `state.json` of a run: run status, hash and node order of the adopted YAML file, inputs, a record per node | start, next, record, approve, reject, resume, skip, cancel, clean, set-kanban | commands of several agent sessions and a human in any order; edits of the YAML file in mid-run; an agent that dies, or reports late | one node engaged at a time; node and run statuses agree; a node runs only after its dependencies; no silent repeat of an outward action; the loop never gets stuck |
| **Workflow run storage** (same file, `load_state`, `save_state`) | `state.json`, `state.json.tmp`, quarantined copies | load, quarantine, save | no lock; a process killed between two file operations; nothing flushed | an update happens whole or not at all; an answered update is kept until the machine fails |
| **Shared client** `shared/ericsson_common/{client,transport,errors}.py`, copied into each connector | deadline, retry counter and breaker counters of one operation | one request with retries | a lost, late or oversized answer; deadline and cancellation at any point; retries | a write takes effect at most once and its caller is told the truth; sends are bounded; an open breaker is silent |
| **Onboarding checkpoint** `skills/ericsson/onboard-ericsson-capabilities/scripts/onboarding_state.py` | `current.json`, `history/`, recovery files, a lock file | save, show, complete, clear | archive-then-remove across kills, I/O errors and power failures; programs that ignore the lock | no journey is lost; a reported archive stays |
| same on Windows, `onboarding_state_windows.py` | the same, through handles | the same | sharing modes and deletion marks instead of names; the deletion happens when a handle is closed, by whomever | the same, and answers that are true |
| **GitLab connector** `plugins/ericsson-gitlab/` | none of its own; continuations travel through the caller | bounded listings, file and log reads, CI inspection; branches, commits, merge requests, notes, CI actions | listings cut by item, page and byte limits; looks before writes, reads after doubtful ones | following continuations gives everything, "complete" is said only then; a write is answered truly |
| **Confluence connector** `plugins/ericsson-confluence/` | remote pages with a version | page reads, searches, page and comment writes | a version read before a write; searches without a total | no overwritten edit; a cut is told |
| **Artifactory connector** `plugins/ericsson-arm/` | remote artifacts | searches, checksum deploy with fallback upload, delete, properties | two requests of which one may be ambiguous; a local file hashed, then sent | a truthful verdict on the pair; what is published is what was hashed |
| **Jira connector** `plugins/ericsson-jira/` | the served interface version, once resolved | search, reads, issue writes, comments, transitions | two transports, two interface versions, packed bodies, comments with no identity | a missing version is not a missing issue; a body is read as meant; a write is answered truly |
| **SharePoint connector** `plugins/ericsson-sharepoint/` | none | folder walk, audit, owned sites, download, upload, folder and page writes | four limits at once; a local file that changes under the upload; a download cut in the middle | bounds hold and a cut is told; no half file under a name |
| **Teams connector** `plugins/ericsson-teams/` | token cache file; one pending device flow | sign-in, message tools | the cache written back without a lock; one global flow | the cache is replaced whole or not at all; a write is answered truly |
| **Bounded source reader** `…/scripts/bounded_source.py` | handles of one call | open a file through its directories, read it within bounds, compose it, look at it again | a handle per directory, each closed once whatever fails; graphs with aliases | handles balance, the first failure is told, exactly the documents within bounds are accepted |
| **Connector CLI** `plugins/ericsson-connector-cli/` | none that outlives a call | parse, read an input file, call, render | the input file | it is read within bounds |
| **Catalog**, **opportunity visuals**, **shared copy script**, **Outlook server** | none that outlives a call | validate, render, copy, bridge | little: sequential code and data conversion | input/output behaviour, which the repository's unit tests cover |

Interaction: a skill makes an agent loop over `workflow_ctl.py next` and `record` (each a process of its own); a connector
operation makes one or a few calls, each an exchange of one or a few requests by `BoundedClient.request` under one deadline per
operation; the onboarding skill calls `onboarding_state.py`, which reads its checkpoint through directory handles;
`scripts/sync_shared.py` copies the shared client into the connectors, so one model of it stands for all copies. The layers of a
connector are modelled one above the other: `BoundedClient` has the time, the retries and the breaker of one request;
`ConnectorExchange` takes the retry loop as short as it can be and has what one call is made of; `ConnectorWrites` and
`RemoteListings` take a call as one step with the outcomes the exchange can have, and have what one operation is made of. The
two lower layers and the write operations are each shown to implement the same abstract `RemoteWrite`.

## 2. Modules

```
WorkflowDoc       <- WorkflowRun  <- WorkflowRunProps  <- MCWorkflowRun
                  <- WorkflowScan <- MCWorkflowScan
WorkflowCell      <. WorkflowStore     <- MCWorkflowStore
RemoteWrite       <. BoundedClient     <- MCBoundedClient
                  <. ConnectorExchange <- MCConnectorExchange
                  <. ConnectorWrites   -> WriteOperations
ListingOperations <- RemoteListings    <- MCRemoteListings
PagedListing      <- MCPagedListing
Checkpoint        <- MCCheckpoint
WindowsCheckpoint <- MCWindowsCheckpoint
BoundedDocument   <- LocalFiles        <- MCLocalFiles
                                  (<- EXTENDS, <. refined by: INSTANCE ... WITH)

proofs: Workflow_proofs          of WorkflowRunProps, WorkflowStore and WorkflowScan, with lemmas on WorkflowDoc
        BoundedClient_proofs, ConnectorExchange_proofs
        ConnectorRequests_proofs of ConnectorWrites and PagedListing
        RemoteListings_proofs, with lemmas on the rows of ListingOperations
        Checkpoint_proofs, WindowsCheckpoint_proofs, LocalFiles_proofs
```

### WorkflowDoc, WorkflowRun, WorkflowRunProps, WorkflowScan

`WorkflowDoc` has no state. It says what a YAML document declares (`DocDef`: ids, file order, dependencies, kinds, side effects,
conditions), when `validate_workflow` accepts it, how a `when` condition is evaluated, and what one scan of `compute_next` does:
the nodes it stops at (`Stops`, `FirstStop`) and the nodes it skips on its way (`PassSkips` in the pass that stops; `AllSkips`
when it stops nowhere). These are closed forms; `WorkflowScan` holds the two loops of the source, one visited node per step, and
shows that they compute the closed forms.

`WorkflowRun` is the state machine. Each variable is a field of `state.json` (`status`, `nodeStatus`, `kind`, `sideEffects`,
`attempts`, `startedAt`, `summary`, `inputs`, `kanban`, and `adopted`, the content whose hash and node order the state holds), the
YAML file itself (`yaml`), the last answer (`reply`) and where each session is in the loop of `SKILL.md` (`at`: the node it
executes, about to call `next` again, or out of the loop). Each command that changes
`state.json` is one action that loads, decides, saves and answers: `Start`, `NextActive`, `NextPark`, `NextDispatch`,
`NextExhausted`, `NextTerminal`, `RecordOk`, `RecordFailed`, `Approve`, `Reject`, `ResumeNode`, `ResumeNothing`, `Skip`, `Cancel`,
`Clean`, `SetKanban`. `restart` is `Start` again on a directory of its own; `status`, `list` and `validate` change nothing.
The environment edits the YAML file, lets agents die and lets time pass. `Stop` and `GoesOn` are the loop itself: after "ok" was
recorded a session calls `next` again; every answer other than "execute", a failed or refused record and an error
(`NextRefused`) end it for good, as `SKILL.md:44-54` says. Any session may start the loop again at any time, but nothing assumes that one does.
`tended` and `forced` are history: whether a human, an edit or a death has interfered since a node was handed out, and how often a
node with side effects was forced.

Assumptions: commands do not overlap (`WorkflowStore` drops this, and section 7 says what happens when they do); an agent records
only the node it was given; `started_at` is told apart only as older than the stale limit or not, the default limit being used by
`next` and `skip` alike; a file that lists a dependency twice, which validation refuses, is none of `WorkflowRun`'s contents
(`WorkflowScan` has them).

### WorkflowStore, WorkflowCell

`WorkflowStore` looks under one command: `Call`, `Load`, `Open` (truncates or creates `state.json.tmp`), `Write`, `Replace`,
`Answer` are the steps of a process; `Kill` ends it between any two. Files are inodes behind names, so a process that writes
to a file another has renamed is seen for what it is. The state is abstracted to the set of commands whose effect it holds.
`save_state` flushes nothing, so `PowerFails` takes `state.json` back to any version it has had since the last failure, leaves it
unreadable, or takes it away. Nothing keeps processes apart: `overlapped` (history) has the commands that ran while another was
under way. Two processes then write to one temporary file, and a rename moves whatever has that name by then.

`WorkflowCell` is the abstract specification: a cell that commands update one after the other,
that keeps what it has answered until the machine fails, and that then goes back to a whole earlier state or is lost for good. The
store implements it until two commands overlap; from then on the cell counts as lost.

### BoundedClient, RemoteWrite

`BoundedClient` is one operation: requests one after the other (`Call`), each with attempts (`Send`, `Receive`,
`TransportFails`), the order of the checks on what came back (`AmbiguousWrite`, `StopRead`, `LateRead`, `Retry`, `RetryTooLate`,
`RetriesExhausted`, `Conclude`), the shared deadline, a cancellation, and the breaker's counters per path. The service (`Serve`,
`ServeLate`) may act on a copy of a request long after its caller has given up. Statuses are abstracted to the classes that the
code tells apart. `RemoteWrite` is the abstract specification: at most one effect per write, "ok" only after it, "failed" only
when it has not happened and never will, and otherwise "ambiguous".

Assumptions: a 2xx answer means that the write took effect and a 4xx that it did not (which is how `client.py` reads them); the
breaker lives as long as the client object, that is one operation, and never half-opens; time is in units of half a second.

### ConnectorExchange

The calls of one connector client. A kind of call is a row (`plan`, `read`, `empty`, `unusable`) taken from the method that makes
it: `GitLabJson`, `ConfluenceJson`, `ArmJson`, `ChecksumProbe`, and for Jira `RestJson` (version 3, then 2), `RestV2`,
`RestV2Mutation`, `VersionedMutation` (the version is resolved by a read of its own, and kept) and `ResolvedRead`. A call is one
attempt after the other (`Begin`, `Attempt`, `Refuse`), natively (`Dispatch`, `TransportFails`, `Headers`, `Part`, `BodyBreaks`,
`EndOfBody`) or through a curl process and its files (`WriteFiles`, `FilesFail`, `StartCurl`, `CurlStopped`, `CurlFails`,
`CurlAnswers`), judged (`TryCurl`, `JudgeFailure`, `JudgeAnswer`, `JudgeProbe`) and read (`FallBack`, `Resolve`, `Conclude`). A
body is a number of parts; packed as "deflate" it may be zlib or raw, both are tried, and the part from which on they differ
(`twin`) is the body's. An answer may break off after its status, which for a client error still counts.

Assumptions: a service answers of itself what its class of status means (2xx: done, 4xx: not done, others: either); the edge in
front of Jira or Artifactory lets nothing through that it refuses; the client is used by one operation at a time. The delays
between attempts and the breaker are in `BoundedClient`.

### WriteOperations, ConnectorWrites

`WriteOperations` has one row per operation that writes (38 of them: GitLab 15 with the three forms of a commit, Jira, Confluence,
Artifactory, SharePoint, Teams): what its handler reads first, what its request asks for, whether the caller may name a version,
how a dry run ends, and what becomes of a complete, an incomplete or an unusable success, of "exists already", and of doubt.
`ConnectorWrites` runs them: a caller's `job`, the first read (`Look`, with what it finds acceptable, already done or refused),
the request as the service sees it (`Serve`, `Refuse`, `ServeLate`), the upload after a refused checksum probe, the judgement and
the second read (`HearYes`, `HearTwin`, `HearNo`, `Doubt`, `Upgrade`, `Confirm`); `GiveUp`, `Preview` and `Stop` are the ends before the request. Other people change the same thing at any time (`Meddle`).

Assumptions: the thing an operation is about is one remote thing with a value and a version; `took` and `held` are history.

### ListingOperations, RemoteListings, PagedListing

`ListingOperations` has one row per operation that lists (45): what it walks (one list, a tree of folders, several lists), how it
recognises another page, what its limits are, what becomes of an entry that is odd, has no name or is spoilt, and what its envelope
says. `RemoteListings` is one call of such an operation: `Resolve` and `Open` what is to be listed, `Fetch` a page, then `Examine`,
`Drop`, `Refuse` or skip each entry (`SkipEntry`, `SkipHeavy`), `TurnPage`, and the ends (`Overflow`, `HitPageLimit`, `EndList`,
`EndCategory`, `Stop`, `GiveUp`, `FetchFails`, `Unreadable`, `Answer`). The service chooses
how full a page is where a row leaves that open, and whether it announces a total or the next page. Texts (files, logs, page
bodies) are lists of pieces.

`PagedListing` is the continuation protocol of GitLab, over several calls: `list_group_projects` reads its sources (groups, then
projects) with `_paginate`; a session repeats the call with the continuation it is given. A page may end because the item limit
strikes (`FillUp`, continued at a page and an offset), because the list ends (`EndSource`), because the page ceiling strikes
(`Ceiling`, continued at the page beyond it), or it leads to the next page (`NextPage`). `PastCeiling` is a source continued
beyond the ceiling, whose loop reads nothing. A call that fails gives nothing and the session keeps its continuation. With one
source it is the listing of the repository tree, branches, tags and so on.

Assumptions: what is listed does not change during a call (`RemoteListings`) or a session (`PagedListing`); a service whose
short page means the end fills its pages; the limit per category of the audit is no tighter than its total; an entry weighs one
unit of bytes; Jira always announces a total. A source that has ended is read again from its start when another one is
continued, as in the code, so a later call may repeat entries. `max_groups = 1` leaves no room for descendants and never yields
"complete". `SelectCiBranches` leaves out the item limit of the pipelines and its second inventory (of live branches), which is
read in the same way; `ResolveLinkRef` has one of its two lists of refs.

### Checkpoint

`save`, `show`, `complete` and `clear` as the sequences of system calls they are. `pc` names the next call; a label is left by
success or by the failure branch of the source (`Unlink` may fail and go to `restore`, `SyncArchive` may fail and leave a
partial archive). `Quarantine`, `Verify`, `Unlink` and `Confirm` are `_remove_snapshot`; `KeepBoth`, `LinkBack`, `SyncRestored`,
`DropRecovery` and `KeepRecovery` are `_restore_quarantine`. A file is an inode with a content; a directory is a function from
names to files. A change of a directory is visible at once and lasting only when the directory is synced: `rootImages` and
`historyImages` hold every directory that a power failure may leave, that is any choice of the operations since the last sync
that keeps the order of those on one name.

Assumptions: the other program (`Meddle`, `Edit`) touches only `current.json`, not the history and the recovery names;
`_write_temp` flushes the data of a file before it is linked or renamed, so a name never refers to half a file; a command that
does not get the lock within half a second answers "busy" and has changed nothing, so it is no step; the checks of modes,
symbolic links and directory identities are calls that may fail. `RecoverByHand` is what the error messages ask a person to do.

### WindowsCheckpoint

The same commands through Win32 handles: `Enter`, `GivesUp` and `Leave` around them, `Absent`, `Show` and `Read` for what they find,
`WriteTemp`, `Publish`, `Reopen` and `Settle` for a save, `Archive`, `Remove`, `Close` and `FlushRemoval` for a completion, and the
failures (`WriteFails`, `RenameFails`, `RemoveFails`; other calls fail within their action). A file that a command holds cannot be renamed, replaced or removed, because no
opener of the code shares deletion; a deletion is a mark (`deleting`) that comes true when the last handle is closed, be it by the
process, by its death (`Kill`) or by another program (`CloseOutside`). `moments` holds what a power failure may leave of the two
directories: the volume goes back to some moment since the last flush. A process outside opens, edits, replaces and removes
`current.json` (`OpenOutside`, `Edit`, `WriteBack`, `Displace`). `disturbed` records that it did so under a command, `changed` that the command
itself did something.

A close may fail: that of current.json after the mark (`CloseFails`: the `finally` repeats it, and the second may work or not), those
of the other handles, in the middle of a command and at its end (`Breaks`, within `Ends` and `RenameFails`), and so may the
verification and the release of the lock after the command's work is done (`Unreleased`). `closing` remembers what became of the
handle; one that is stuck keeps its file in place until the process ends (`Leave`, `Kill`).

Assumptions: the volume keeps metadata in order (it goes back as a whole); private ACLs, reparse points, owners and the home path
are checks that may fail; what `_close_profile` cannot close (it ignores errors) are directory handles that go with the process.

### BoundedDocument, LocalFiles

`LocalFiles` is one call of one of nine readers (the four openers of `bounded_source.py`, those of Artifactory and SharePoint
uploads, the input of the command line, the token cache, `current.json`) or two writers (a SharePoint download, the token cache),
system call by system call. A reader is a row again: which directory it opens first, whether it looks by name before or after,
whether it must read as much as it saw, which handles it keeps. Each call may fail; `due` is what the code still has to close
and `open` what is open; `first` is the first failure and `told` the one under way. Other programs replace, lengthen and edit the
file (`Replace`, `Edit`), and a writer may die (`Kill`). `Verify` is the second look by name of an upload; `noted` keeps what a look
by name saw, and `GivenIsRight` wants the file that is given to be that one. A failed writer removes its temporary (`Tidy`), the cache's
before its directory is closed, so that a failing removal leaves that handle open.

`BoundedDocument` is what is accepted: a document is a graph of nodes, looked at while it is composed (entry by entry, with depth,
entries, aliases and keys) and once more by `validate_graph` (for cycles, and for the same limits again); a checkpoint is judged by
`onboarding_state.py`'s own limits. `Acceptable`, `AcceptableState`, `Cyclic` and `DeepSomewhere` are the reference definitions.
They know no stack: they speak of the ways from the root that pass no node twice (`Way`), of what is reached on them (`Reached`) and
of the places where a node is written (`Places`, which count the entries; in a tree no node has two).

Assumptions: directories and links stand still; syntax, encoding, repeated fields and the checkpoint's schema are one
verdict that may be "invalid"; a failing close is thought of only in `bounded_source.py` (the rows marked `Careful`).

## 3. Runs

| Run | Instance | What it shows |
|---|---|---|
| `run_edits` | three nodes (work, gate, outward action), two sessions, three contents of the YAML file (original; reordered, thinned and retyped; cyclic) and its absence, two attempts | at most one node is engaged, run and node statuses agree, an engaged node has its dependencies, nothing stalls, an outward action is repeated only by force, a closed run stays closed, and nobody leaves a run that needs them: whatever commands and edits come in whatever order |
| `run_fixed` | the same nodes declared backwards, file never edited | a run that sessions are on comes to an end or to a gate, unless a human or a death interferes |
| `scan` | all 512 dependency graphs on three nodes, cycles and self-dependencies included, conditions on every subset of nodes (for graphs without self-dependencies), a dependency on the first node listed twice by the second or the third, every possible state of the nodes | Kahn's algorithm and the scan loop compute the closed forms; a repeated dependency is refused, a cycle never accepted |
| `store_crash` | two processes that overlap anywhere, one start, two next, one record, four inodes; kill and power failure anywhere | `state.json` implements `WorkflowCell` until commands overlap; a node is handed out twice only by calls of which the first overlapped another command |
| `client` | two requests (each a read or a write, on one or two paths), two retries, threshold 1, a budget of three time units, Retry-After 0, 1 and 20 | the client implements `RemoteWrite`, is silent when open, and returns |
| `exchange` | a Jira client natively with two calls for every combination of configured and served versions, and with one call over every transport and edge; one call of the other clients, which keep nothing between calls; one retry; ten bodies of up to three parts, two being accepted | the exchange implements `RemoteWrite`; versions, "not found" and bodies are right |
| `writes` | two callers of any of the 38 operations, two contents, two versions, other people at any time | every operation implements `RemoteWrite`, what callers are told was true, nothing unseen is overwritten |
| `listings` | each of the 45 operations once, up to three lists or folders, pages of two, limits 1, 3 and 4, three pages, one level of depth, three units of weight, one odd entry | "complete" means everything once, totals and envelopes are true, bounds are kept, the listing ends |
| `listing` | two lists of up to six entries, pages of two, two pages (so that lists of five and six go beyond the ceiling), limits 0 to 3, two failing calls | "complete" only when all that is under the ceiling is there and a cut has been told before, and at last |
| `checkpoint` | two processes, two valid journeys and one broken content, three inodes, one recovery name, one second of completion time | nothing is lost, now or at a power failure; a reported archive stays |
| `windows` | two processes, two valid journeys and one broken content, three inodes, two seconds, a program outside, failing closes and a failing release of the lock | what a command has read stays while it holds it, answers are true, nothing is put at risk |
| `files` | nine readers and two writers, the file or its directory missing, a link, odd or regular, small or too large, every call failing or interrupted, two changes from outside; every YAML document of three nodes and JSON tree of four in quiet surroundings | handles balance, the first failure is told, what is given is one whole content of the file seen by name, exactly the documents within bounds pass, and a published file is whole |

Why the bounds are enough:

- Three nodes give a chain, a fork, a join, a skip that travels against file order and a gate between two nodes; two
  sessions give every overlap of execution, since only one node is engaged. `MaxAttempts = 2` allows a forced repeat.
- Two retries distinguish the first attempt, a retry in the middle and the last; threshold 1 opens the breaker within two
  requests, and makes a failure in the first one close the second; Retry-After 20 is beyond what the client honours. Everything
  `client`, `exchange` and `writes` check of writes is also proved for any number of requests.
- In `exchange`, `Probe = 1` and `MaxParts = 2` put the part at which two readings differ before, at and after the decision, and
  the end of a body before, at and after the limit. `Reasons = {"cancelled"}` only, because what follows a deadline is the same.
  Two calls show what the kept version does to the next one.
- In `writes` two versions let somebody else write once between any two steps; two callers are two calls on the same thing.
- In `listings` a limit of 1 cuts within the first page, 3 within the second and 4 at the end of it; `MaxPages = 3` lets the page
  ceiling strike before and after the list ends. In `listing` a limit of one or three cuts within a page and one of two between
  pages; lists of four entries end exactly at the ceiling, of five within a page beyond it and of six with that page.
- In `store_crash` two processes are enough for a write into a file another has renamed, for a lost update and for two grants; a
  third command (`record`) may come between or after. Four inodes are one file per command that saves.
- In `checkpoint` and `windows` two processes are needed to see the lock at work; two journeys tell the one that was read from the
  newer one; one name in `history/` makes the second completion meet the first. `Unsynced = 3` (`Unflushed = 2`) lets a command
  or a program outside start only while a power failure may leave at most that many directories. It bounds what precedes a
  command; every step of the command itself adds to what may be left without a bound.
- In `files` three nodes are enough for a node shared by two parents, an alias to an ancestor and one to a finished node, and for
  every limit (depth 2, five entries, two aliases, one entry in a list or object of a checkpoint) to be met and exceeded; two changes let a file grow
  while it is read and be replaced as well.

`CHECK_DEADLOCK FALSE` is set where the system may really stop: an operation whose requests are done, a listing that has
answered, a session that has been told "complete", a run directory whose commands are all issued, loops that have ended, a
checkpoint bounded by `Unsynced`. `run_edits` and `run_fixed` are checked for deadlock.

Every property has a mutant in `PROJECT.json`: a plausible slip in a mapped definition (it stands before the definition, marked as
a slip) with which TLC finds that property violated.

## 4. Fairness

- `run_fixed` (`Fairness` in `WorkflowRunProps`): a session that has recorded "ok" calls `next` again, and one that executes a node
  records, unless it dies. That is the loop of `SKILL.md:37-54` and no more: no session is assumed to enter the loop, to poll, or to
  come back after an answer that ends it ("in_progress" is one, `SKILL.md:49`); no human is required to act, and time need not
  pass. `RunSettles` therefore says nothing after a death: the run then waits for a human or for a new session.
- `client` (`FairSpec`): the client itself goes on, because each socket read of `transport.py` has a timeout. Neither the
  service, nor the clock, nor the cancellation is fair.
- `listing`: the session follows its continuations and calls are answered (`WF(Step)`), and at most `MaxFailures` of them fail.
- `listings` (`FairSpec`): the handler runs on and the client answers or fails every request, which is what `client` shows.
- The other runs assume nothing: any process may stop at any step.

## 5. Proofs

Proved for every value of the constants that satisfies the named assumptions (`DocAssumption`, `RunAssumption`,
`ScanAssumption`, `StoreAssumption`, `ClientAssumption`, `ExchangeAssumption`, `SettingsAssumption`, `WritesAssumption`,
`ListingAssumption`, `CheckpointAssumption`, `WindowsAssumption`, `DocumentAssumption`, `CasesAssumption`; TLC evaluates them in
the runs). `CasesAssumption` says what the world of `LocalFiles` is: a name is taken by a file that was there before, and a document
is a graph, which is a tree where it is written as JSON (a parser of JSON shares nothing).

**Workflow_proofs**, of `WorkflowRun` (lemmas on the operators of `WorkflowDoc` first). `TypeCorrect` first. The invariant `Consistent` is the
conjunction of `AtMostOneEngaged`, `StatusAgrees`, `RecordsMatchFile`, `EngagedDepsOk`, `InFileOrder`, `AdoptedIsValid` and
`NoRecordNoHistory`. None is inductive alone: that `next` engages no second node rests on `FirstStop` and on the records being
those of the adopted file; that `skip` restores the right run status rests on there being one engaged node; that `approve` wakes
the right run rests on `StatusAgrees`. `NeverStalled` adds the argument that an acyclic file always has a node without a pending
dependency, which the scan then hands out, parks or skips (`Valid` includes acyclicity as the existence of such a node in every
non-empty set). `SideEffectsNeedForceAlways` uses `ForcedAhead`: a pending node with side effects has been executed at most as
often as it was forced. `AttendedAlways` adds `OnTheFile` (a tended run's file is the adopted one): a session that is told to stop was
not the one that the run depends on, because the one running node has a session of its own. `ClosedStaysClosedAlways` and
`OkPermanent` are action properties from the same invariant.

**Workflow_proofs**, of `WorkflowStore`, for any number of processes, commands, kills and power failures. For `StoreImplementsCell`
the invariant `Sequential` says what a failure may bring back (`Whole`: `past` holds whole states, the last of them the present one,
and never the temporary file) and what a command has read and written (`UnderWay`); it holds as long as nothing has overlapped
(`Ordered`), and the step that makes two commands overlap is the one that loses the cell. No premise keeps commands apart.
`GrantedOnceAlways` is about overlapping commands and so has an invariant of its own: `Solo` says of a command that has overlapped
nobody that the temporary file is its own, and `Guarded` that what such a `next` was granted is `Recorded` in whatever can still
become `state.json`, in the temporary file and in the memory of every process.

**Workflow_proofs**, of `WorkflowScan`. For Kahn's algorithm `Counting` says that `indeg` is what is left of the listed
dependencies, repeated entries included, and that every set of consumed nodes has a member that depends on none of them (the one
consumed first); hence `KahnFindsCyclesAlways` for every finite file: what is accepted has no cycle and no repeated entry, and what is
refused has one or the other.
For the scan, `LeastOfPass` says that what a pass has skipped is the least set that is closed as far as it has come, `InLeast` that
all passes together stay within the least closed set, and `Unchanging` that a pass without a skip has reached it;
`LoopComputesScanAlways` follows, so that `WorkflowRun` may use the closed forms for files of any size.

**BoundedClient_proofs.** `SendsAreAttempts` ties the history of sends to the attempt counter; `WritesAreKnown` is a ledger: for
each write, copies still in the network plus effects are at most one, and what the client has seen fixes them. `WritesAreHonest`
is the refinement: every step of the client, the service and the network maps to a step of `RemoteWrite` or to a stutter.
`OpenIsSilentAlways` is the breaker.

**ConnectorExchange_proofs.** The invariant `Sound` says what is known of an answer at each point of an attempt (`Staged`), which
version is asked for and why (`Versions`, `Kept`), what a status means for the thing and for the write (`Truthful`), what may still
happen to a write (`Ledger`), and how a body is read (`Unpacking`). `ClientSteps` puts the 21 actions of a client into three shapes
(it goes on, it ends with a category, it settles a version) and the fallback, so that all but types, stages and bodies is shown
once a shape. `VersionHoldsAlways`, `BodyIsRightAlways`, `WritesAreHonest` and `NotFoundIsTrueAlways` follow. That "not found" is
true rests on `Truthful` and `Versions` together: version 2 is asked for only when version 3 was seen not to be served.

**ConnectorRequests_proofs**, of `ConnectorWrites`. `TruthInv` adds to the type that each caller's answer so far agrees with what has happened, row by row
of `WriteOperations`; from it `WritesAreHonest` (the refinement) and `AnswerWasTrueAlways`. `VersionInv` adds that a version number
names one value, so that `NoLostUpdateAlways` holds for the operations that look and for those that are given a version. A version
that was given is compared with what is replaced in every row; an update that became a creation (`Recreates`) is the one exception.

**ConnectorRequests_proofs**, of `PagedListing`. `CompleteMeansAllAlways` has no premise on the length of the lists: what lies
beyond the ceiling (`Ceil`) is its stated exception, and a list that is cut there was continued beyond it (`All`). The invariant `Covered` says that up to the place where a
source is to be continued the session has its entries or is about to be given them (`Between` calls and `UnderWay`), and that no
call collects more than was asked for (`Collected`), without which the place within a page could lie before its beginning.

**RemoteListings_proofs.** One invariant, `Listed`, serves all 45 rows: nothing in it is said row by row, only by the columns of a
row, and `RowOK` (lemma `Rows`) collects which columns go together. While a call is under way it says where it is (`Placed`), how
many pages have been read and where they end (`Turned`), what the last page tells of the rest of the list (`Told`), that no list is
queued twice and no row lies beyond the place that has been reached (`Apart`), what the limits leave (`Kept`), that everything
before that place has been given, dropped by rule or queued as a folder (`Covered`), and that what is already called truncated is
(`CutIsTrue`); once it is over, it is the three properties. `CompleteIsTrueAlways` takes `Covered` from the place reached to the end
of the list: a call that is not truncated ends where `Told` leaves nothing behind the page. `EnvelopeIsTrueAlways` counts: by `Apart`
the rows are as many as the set they come from (`OnceEach`). `BoundsKeptAlways` is `Kept` and `Turned`; the audit, which reads
a site category by category and gives up what it has read of a category that fails, is a case of its own (`KeptOfCategories`). The attempt
showed that two cases of `Brings`, what a service may put on a page, overlapped where a row with a `count` has its
total announced (TLC takes the first, the definition leaves it open); the cases are disjoint now.

**Checkpoint_proofs.** `Typed` adds to the type that a snapshot is a valid journey. `Archiving` adds to `ReportedIsArchived` that a
`complete` past its archive has it, synced, in every image (`ArchivedFirst`). `Careful` conjoins `OneInside` (the lock),
`MovedIsApart` (a file that was moved away is not also `current.json`, and at its unlink it is the one that was read), `Removes`
(only `complete` and `clear` archive and remove) and `ReadIsStillCurrent`. `NothingForgottenAlways` follows: one case per action
that takes a file away from a name. `NothingAtRiskAlways` adds what a power failure may leave (`Outlasting`): the present is one of
the images, and an image of the history lacks entries but has no others (`ImagesCurrent`); a file under both its names is edited
under both (`SamePlace`); and once a restored `current.json` is synced, every image has the same under
both names (`Relinked`), which is what makes dropping the recovery name safe.

**WindowsCheckpoint_proofs.** `Sound` conjoins the type, the lock (`OneInside`), that the present is one of the moments a power
failure may leave, `PromisesKept` (a flushed archive is in every moment) and per process `Fit`: what its label implies (`Labelled`),
what it has written and not yet published (`Writing`), what its handles keep in place (`Holding`), what its answer may be
(`Answering`). `HeldIsCurrentAlways` and `AnswerIsTrueAlways` are parts of it
(an "error" about a handle says nothing of the rest and is promised nothing but that a completion which has changed anything has
archived; a clear whose second close worked answers "failed" although the file has gone, which is the exception of `AnswerIsTrue`); `NothingAtRiskAlways` takes a case for every step
that takes a journey out of a moment.

**LocalFiles_proofs.** `Held` (what is open is due, and due once, but for what a failed removal has stranded) and `Clearing` (the
temporary is closed before it is removed) give `HandlesAreBalancedAlways`; `Telling` (the failure under way
is the first) gives `FirstFailureIsToldAlways`; `Publishing` (a name denotes only a file that was finished) gives
`PublishedIsWholeAlways`. `SoundReading` gives `GivenIsRightAlways`: what is `held` is the file that was `noted` by name, before it was opened or after, no part that was
read is newer than the file, and as long as all parts are of the revision it has now (`Uniform`) no more was read than there is and,
at the end, no less.

**LocalFiles_proofs**, of `BoundedDocument`. `DocumentsAreJudgedAlways` says that the walks with a stack find out what the
reference definitions say of the ways, for graphs of any size and shape. `Judged` says at each point of a call what the walk under
way knows:

- The first look (`FirstLook`): by `Walked`, what has been entered was reached on a way of no more levels than allowed; by
  `Counted`, the children of what has been entered have been entered or are on the stack, so that an empty stack means that all
  that is reached was entered (`FirstLookEnds`), and every place has been counted once or is on the stack, so that the counts are
  those of `Occurrences` at the end and never beyond them before it. That a refusal for too many aliases is right before the end
  rests on `Beyond`: every node that has not been met yet has a place of its own still to come.
- The look at a checkpoint (`StateLook`) has the same two parts. It keeps no set of what was entered; in a tree there is one,
  because no node comes twice.
- The second look (`SecondLook`): the nodes that are being looked at lie on one way, in the order of their marks on the stack, and
  their children have been left or lie above the mark (`Pending`); the children of what has been left have been left too, and of
  any such nodes the one that was left first has none of them for a child (`Finished`), which an empty stack turns into "no
  cycle". That this look never refuses for a limit, a key or a level, which `DocumentsAreJudged` implies, is not true of it alone:
  an entry's depth on the stack depends on the order of the walk. It holds because this look goes where the first has been.
  `FirstLook` therefore keeps a record of its own steps (`Looked`, a sequence that exists, no variable of the model), and
  `Retraced` says that the stack of the second look, its marks left aside, is the stack the first look had at some moment, with
  the same nodes met; there the depth was allowed.

The induction over ways and subsets of nodes is done with the least element of a non-empty set of numbers (`Least`, from the
library's `WFMin`), since the theorems of induction take an operator.

**Only model-checked.** Liveness (`RunSettles`, `RequestReturns`, `EventuallyComplete`, `ListingEnds`),
which is out of the prover's reach. Every invariant and every action property of the runs is a theorem.

## 6. What is worth knowing

Consequences of the design that no document denies:

- After a power failure a run may go back to an earlier version of `state.json` (no flush in `save_state`), so a node may be handed
  out that was handed out before, outward actions included. `GrantedOnce` therefore speaks of the commands answered since the
  machine last failed.
- `complete` may be repeated after an error and then archives the same journey a second time, or is refused when it falls into
  the same second; nothing is lost either way.
- With `auto` versions, a version 3 answer of 404 whose body was lost (`transport.py:930-950`,
  `client.py:118` of the Jira plugin) no longer tells "not served" from "not there", so a read is told "not found" although
  version 2 has the issue. `NotFoundIsTrue` makes this its one exception.
- Artifactory's AQL search is a POST and therefore treated as a write: never retried, and ambiguous in doubt. `checksum_probe`
  with its time up is ambiguous even after a refusal, and after a 3xx or 5xx followed by a refused upload the category is definite
  although the artifact may be published. Confluence, Artifactory, Jira's `create_issue` and SharePoint raise a definite-sounding
  error after a success with an unusable body, where GitLab says `write_ambiguous`; Teams errors never say whether the message was
  sent.
- On Windows a file that another program keeps open stays until that program closes it, although `complete` has reported success; an edit in
  place between the read and the delete is lost (the handle's identity is compared, where POSIX compares the digest);
  directory flushes that fail are ignored (`onboarding_state_windows.py:519-526`).
- On Windows an error at the end is reported although the command has committed: the checks after the body (`:1013`), the release and
  the close of the lock (`:1018-1033`). A close that fails after the deletion was marked is repeated in the `finally`; if that
  works the file has gone, and clear still answers "Unable to clear onboarding state safely." (`:1363-1378`). The temporary is closed
  outside any handler (`:1211`, `:1291`, `:1312`): when that fails, it is neither removed nor named.
- Jira, Artifactory and SharePoint lists, and the audit, drop entries they cannot read without a word, where GitLab refuses the
  whole call and Confluence says "truncated". Some reads are cut silently: Jira `get_issue` keeps the last five comments,
  `get_project` 200 named entries, Artifactory its properties. A Confluence page that is exactly full, with no total, is read as
  the last one (`TakenForAll` in `CompleteIsTrue`); a body beyond 100,000 characters is cut before its conversion and `truncated`
  may still be false (`CutUnseen`). `teams_list` and `teams_channels` read one page.
- Failing closes: `_open_from_anchor` of Artifactory (`operations.py:418-437`) and `_open_home` of the checkpoint
  (`onboarding_state.py:522-537`) close the old handle twice and leave the new one open; the token cache leaves its directory open
  when closing the file fails (`graph_auth.py:152-155`, `265-284`), and, with no close failing, when the temporary of a
  write that failed cannot be removed (`:276-284`: the removal comes before `os.close(directory_fd)`), which is the exception in
  `HandlesAreBalanced`. For rows that are not `Careful`, `HandlesAreBalanced`
  claims nothing once a close has failed.
- SharePoint upload staging notices a change of size, not an edit in place of the same size; the POSIX path openers follow links in
  all but the last component.

## 7. Where code and documents differ

Met while modelling and read off the code; the properties of section 3 are stated so that they hold of the code as it is.

- Listings: `_paginate` of GitLab answers `next_page = max_pages + 1` at its page ceiling (`operations.py:2334`, `2365-2368`); passed
  back, the continuation reads nothing and is answered "complete", against `docs/connector-porting/gitlab-behavior-map.md:113`.
  `CompleteMeansAll` has this as its stated exception, and holds the code to having told of the cut one answer before.
  `list_merge_request_discussions` says `summary_complete` of a continued call.
- `skills/…/workflow-orchestrator/SKILL.md:51` says that a cancelled run is closed; `approve` of a gate that was waiting sets it to
  running again (`workflow_ctl.py:607`), and a late `record --status failed` or `reject` closes it otherwise. `ClosedStaysClosed`
  admits these and nothing else.
- `next` loads, decides and saves without a lock (`workflow_ctl.py:330`): of two that overlap, both are told to execute the node, and one
  may write over what the other recorded. `GrantedOnce` says how far the guard reaches all the same.
- After a death nothing calls `next` again: the session that meets the dead node within the stale limit is told "in_progress" and
  stops for good (`SKILL.md:49`), so the run waits for a human or a new session.
- A dependency listed twice makes validation report a cycle that is not there (`workflow_ctl.py:143`); `KahnFindsCycles` says so.
- `resume --accept-changes` keeps the kind and the side effects of a pending node that the edit changed (`workflow_ctl.py:653`).
- `client.py:103` says that only service-health signals count against the breaker; failures caused by the caller (a cancellation, a
  deadline) of a write count too (`client.py:265`). The breaker lives as long as one operation.
- GitLab `last_commit_id` is dropped when an update turns out to be a create (`operations.py:3168-3170`), against
  `docs/connector-porting/gitlab-behavior-map.md:91` (the exception `Recreates` of `NoLostUpdate`); several files in one commit are pinned one by one.
- Windows: a save reopens the published file while the temporary's handle with DELETE access is open, and shares only reading and
  writing (`onboarding_state_windows.py:54`, `1197`), and flushes a handle without write access (`:1202`). By the documentation of
  Win32 both fail, and the answer is "saved, unconfirmed"; `complete` likewise ends with a partial archive. The native tests have
  not been run (`docs/onboarding/test-strategy-and-results.md:213-215`), so the model lets these calls succeed or fail.

## 8. Not modelled

- The capability catalog, the opportunity visuals and the shared copy script: no state that outlives a call and no concurrency;
  validation and rendering of data, which the unit tests cover.
- The Outlook server: a bridge to COM objects whose behaviour is not in the repository.
- The device sign-in of Teams: one global pending flow and a token cache read and written back without a lock. Its outcome is
  decided by MSAL and the identity service, which are not in the repository; the replacement of the cache file is modelled.
- SharePoint's retries and upload sessions: they belong to the host's Graph client.
- In the modelled parts: formatting of answers, argument and path validation, headers, file modes and symbolic-link refusals, the
  private ACLs of Windows, the wording of `when` (its parsed form is modelled), the conversion of Confluence's storage format, the text of
  queries, the sidecar's scan of flow depth, `_persist_portable` (the token cache on systems without directory handles), power
  failures of the writers in `LocalFiles`.

## 9. Plan

All modules of the plan are present. What would come next:

1. Two commands on one `state.json` that overlap, as soon as the script has a lock to verify.
2. The device sign-in, as soon as the repository says what is to happen to the first of two.
