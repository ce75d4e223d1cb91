---------------------- MODULE RemoteListings_proofs -----------------------
(***************************************************************************)
(* Every listing operation, for holdings, limits and pages of any size.    *)
(***************************************************************************)
EXTENDS RemoteListings, FiniteSetTheorems, TLAPS

-----------------------------------------------------------------------------
(* What the rows of ListingOperations have in common.                      *)

NoneDropped(o) == \A shape \in Shapes : o.reads[shape] # "dropped"

RowOK(o) ==
    /\ o.walk \in {"flat", "tree", "each"}
    /\ o.more \in {"no", "count", "total", "short", "header", "link"}
    /\ o.asks \in {"page", "limit", "all"}
    /\ o.stop \in {"reached", "exceeded", "after", "never"}
    /\ o.bounds \in {"rows", "examined"} /\ o.beyond \in {"cut", "fail"}
    /\ o.total \in {"announced", "counted", "none"}
    /\ o.bounds = "examined" => o.stop = "exceeded"
    /\ o.stop = "reached" =>
          /\ o.walk = "flat" /\ ~o.weighs /\ o.more \in {"total", "header"}
          /\ o.beyond = "cut" => o.more = "total"
    /\ o.stop = "never" => o.cuts /\ ~o.weighs
    /\ o.stop = "after" /\ o.walk # "each" => o.walk = "flat" /\ ~o.weighs /\ o.more \in {"no", "short", "header"}
    /\ o.stop = "after" /\ o.walk = "each" =>
          /\ o.more = "link" /\ o.skips = {"source"} /\ o.weighs
          /\ \A shape \in Shapes : o.reads[shape] \notin {"fails", "unread"}
    /\ o.walk = "tree" => o.more = "link" /\ o.skips = {} /\ NoneDropped(o) /\ ~o.late /\ o.stop = "exceeded"
    /\ o.walk = "each" => o.beyond = "cut" /\ ~o.late /\ o.total = "none" /\ o.more \in {"no", "header", "link"}
    /\ o.more = "no" => o.asks = "all" \/ (o.asks = "limit" /\ o.walk = "flat" /\ o.stop = "after")
    /\ o.more = "count" => o.walk = "flat" /\ o.asks = "all" /\ o.stop = "exceeded" /\ o.beyond = "cut"
    /\ o.more = "total" =>
          /\ o.walk = "flat" /\ o.stop = "reached" /\ o.beyond = "cut" /\ o.asks # "all"
          /\ NoneDropped(o)
    /\ o.more = "short" =>
          /\ o.walk = "flat" /\ o.stop = "after" /\ o.asks = "limit" /\ o.total = "announced"
    /\ o.more \in {"header", "link"} => o.asks = "page"
    /\ o.cuts => o.walk = "flat" /\ o.more = "no" /\ o.asks = "all" /\ o.total = "none"
    /\ o.resumes => o.walk = "flat" /\ o.more = "header" /\ ~o.late
    /\ o.late => o.walk = "flat" /\ o.more = "link"
    /\ o.total = "announced" => ~o.filters /\ o.more \in {"short", "total"}
    /\ o.total = "counted" => (o.more = "no" /\ o.stop = "after" /\ ~o.cuts) \/ o.more = "total"
    /\ o.reads.odd = "unread" => o.walk = "each" /\ o.bounds = "examined"
    /\ o.skips # {} => o.walk = "each" \/ o.late
    /\ "heavy" \in o.skips => o.walk = "each"
    /\ o.keeps = "tail" => o.walk = "flat" /\ o.more = "no"

-----------------------------------------------------------------------------
(* A call under way.                                                       *)

Flat == op.walk = "flat"
Busy == pc \in {"fetch", "examine"}

\* Lists that are queued, and those that are not done.
Waiting == {queue[k].list : k \in 1 .. Len(queue)}
Pending == Waiting \cup (IF Busy THEN {Here} ELSE {})

JobOK ==
    /\ op \in Listing /\ RowOK(op)
    /\ job.holds \in [Source -> Seq(0 .. Lists)]
    /\ job.limit \in Nat \ {0}
    /\ job.wanted \subseteq PlacesOf(job.holds)
    /\ ~op.filters => job.wanted = PlacesOf(job.holds)
    /\ job.from \in Start
    /\ ~op.resumes => job.from = 0
    /\ Suits(op, job.holds)

\* Where the call is.
Placed ==
    /\ answer = "none"
    /\ Flat => /\ Here = 1 /\ Waiting \subseteq {1} /\ Len(queue) <= 1
               /\ Busy => queue = <<>>
               /\ truncated => pc = "open" /\ queue = <<>>
               /\ pc = "resolve" \/ queue # <<>> =>
                     rows = <<>> /\ weight = 0 /\ examined = 0 /\ total = Unknown /\ pages = 0
    /\ op.walk # "tree" => seen = {1}
    /\ left > 0 => pos + left <= Size(Here)
    /\ pc = "fetch" => left = 0
    /\ got <= Size(Here)
    /\ op.skips = {} /\ op.reads.odd # "unread" => ~warned

\* How many pages have been read, and where in the list they end.
Turned ==
    /\ pages <= IF op.late THEN MaxPages + 1 ELSE MaxPages
    /\ pc = "fetch" => pages <= MaxPages /\ (pages = MaxPages => op.late)
    /\ pc = "examine" => pages <= MaxPages
    /\ op.resumes /\ pc = "fetch" => pages >= PagesBefore /\ (pages = PagesBefore => pos = pages * PageSize)
    /\ op.resumes /\ pc = "examine" => pages > PagesBefore
    /\ op.more \in {"no", "count"} /\ pc = "fetch" => pos = 0 /\ got = 0 /\ total = Unknown
    /\ op.more \in {"no", "count"} /\ pc = "fetch" /\ Flat => rows = <<>>

Ends == pos + left >= Size(Here)

\* What the page that was read tells of the list.
Told ==
    /\ total # Unknown => op.more \in {"count", "total", "short"} /\ total = Size(1)
    /\ op.more = "count" => pos <= got
    /\ pc = "examine" =>
        /\ op.more = "no" => Ends \/ FullAnswer \/ CutUnseen
        /\ op.more = "count" => pos + left <= got /\ (Ends \/ (total # Unknown /\ total > got))
        /\ op.more = "total" => total # Unknown /\ (got = 0 => Ends)
        /\ op.more = "short" => (got = 0 \/ (total = Unknown /\ Short) => Ends)
        /\ op.more = "header" => (~next /\ Short => Ends)
        /\ op.more = "link" => (~next => Ends)

\* No list is read twice, and what is given is of lists that are not queued.
Apart ==
    /\ \A i, j \in 1 .. Len(queue) : queue[i].list = queue[j].list => i = j
    /\ Busy => Here \notin Waiting
    /\ \A i, j \in 1 .. Len(rows) : rows[i] = rows[j] => i = j
    /\ \A k \in 1 .. Len(rows) :
          /\ rows[k] \in job.wanted \ dropped /\ rows[k][1] \notin Waiting
          /\ Busy /\ rows[k][1] = Here => rows[k][2] <= pos
    /\ \A place \in dropped :
          /\ place[1] \notin Waiting
          /\ Busy /\ place[1] = Here => place[2] <= pos
    /\ op.walk = "tree" =>
          /\ Pending \subseteq seen /\ dropped = {}
          /\ \A k \in 1 .. Len(rows) : rows[k][1] \in seen

\* What has been taken is within the limits.
Kept ==
    /\ Flat => Len(rows) <= pos
    /\ op.stop = "exceeded" /\ op.bounds = "rows" => Len(rows) <= job.limit
    /\ op.bounds = "examined" => Len(rows) <= examined /\ examined <= job.limit
    /\ op.stop = "reached" => Len(rows) <= job.limit /\ (Busy => Len(rows) < job.limit)
    /\ op.stop = "never" =>
          /\ Len(rows) <= MaxWeight
          /\ pc = "examine" => Len(rows) + left <= MaxWeight
    /\ op.weighs /\ op.stop = "exceeded" => Len(rows) <= weight /\ weight <= MaxWeight
    /\ Categories =>
          /\ Busy => /\ pos <= examined /\ examined - pos <= job.limit
                     /\ Len(Before) <= examined - pos /\ Len(Before) <= weight
          /\ ~Busy => Len(rows) <= examined /\ examined <= job.limit /\ Len(rows) <= weight
          /\ weight <= MaxWeight

Through(s, n) ==
    \A i \in 1 .. Size(s) :
        job.from < i /\ i <= n /\ <<s, i>> \in job.wanted \ dropped => Given(s, i)
Followed(s, n) ==
    op.walk = "tree" => \A i \in 1 .. Size(s) : i <= n => job.holds[s][i] \in seen \cup {0}

\* Where a listing that has ended may not have seen all, it knows.
Excused ==
    \/ op.more = "no" /\ FullAnswer
    \/ op.more = "count" /\ total # Unknown /\ total > got
    \/ op.more = "short" /\ MoreAnnounced
    \/ op.more = "short" /\ total = Unknown /\ (Len(rows) >= job.limit \/ (pages >= MaxPages /\ ~Short))

\* What has been left behind has been given.
Covered ==
    ~truncated /\ ~warned /\ ~CutUnseen =>
        /\ \A s \in ToRead \ Pending :
              (Through(s, Size(s)) /\ Followed(s, Size(s))) \/ (Flat /\ Excused)
        /\ Busy => Through(Here, pos) /\ Followed(Here, pos)

\* What is called truncated so far, is.
CutIsTrue ==
    /\ Flat /\ truncated /\ (op.more = "total" \/ op.asks = "all") => pos < Size(1)
    /\ Flat /\ op.stop = "after" /\ op.more \in {"no", "short"} => ~truncated

Underway == Placed /\ Turned /\ Told /\ Apart /\ Kept /\ Covered /\ CutIsTrue

\* What is promised once the call is over.
Ended == CompleteIsTrue /\ EnvelopeIsTrue /\ BoundsKept

Listed ==
    /\ JobOK /\ TypeOK
    /\ pc # "done" => Underway
    /\ pc = "done" => Ended

-----------------------------------------------------------------------------
LEMMA Rows == \A o \in Listing : RowOK(o)
<1>1. RowOK(ListRepositories)
  BY DEF RowOK, NoneDropped, Shapes, Mappings, Once, ListRepositories
<1>2. RowOK(ArtifactInfo)
  BY DEF RowOK, NoneDropped, Shapes, Mappings, Once, ArtifactInfo
<1>3. RowOK(SearchArtifacts)
  BY DEF RowOK, NoneDropped, Shapes, Mappings, Once, SearchArtifacts
<1>4. RowOK(GetProperties)
  BY DEF RowOK, NoneDropped, Shapes, Mappings, Once, GetProperties, Parts
<1>5. RowOK(GetProject)
  BY DEF RowOK, NoneDropped, Shapes, Mappings, Once, GetProject, Parts, NamedEntries
<1>6. RowOK(GetIssue)
  BY DEF RowOK, NoneDropped, Shapes, Mappings, Once, GetIssue, Parts, IssueComment
<1>7. RowOK(ListFields)
  BY DEF RowOK, NoneDropped, Shapes, Mappings, Once, ListFields, FieldEntry
<1>8. RowOK(ListTransitions)
  BY DEF RowOK, NoneDropped, Shapes, Mappings, Once, ListTransitions, TransitionEntry
<1>9. RowOK(ListLinkTypes)
  BY DEF RowOK, NoneDropped, Shapes, Mappings, Once, ListLinkTypes, LinkType, Strict
<1>10. RowOK(SearchAssignableUsers)
  BY DEF RowOK, NoneDropped, Shapes, Mappings, Once, SearchAssignableUsers, UserEntry
<1>11. RowOK(SearchIssues(TRUE))
  BY DEF RowOK, NoneDropped, Shapes, Mappings, Once, SearchIssues, NormalizeIssue,
     Strict
<1>12. RowOK(SearchIssues(FALSE))
  BY DEF RowOK, NoneDropped, Shapes, Mappings, Once, SearchIssues, NormalizeIssue,
     Strict
<1>13. RowOK(MyTickets)
  BY DEF RowOK, NoneDropped, Shapes, Mappings, Once, MyTickets, SearchIssues,
     NormalizeIssue, Strict
<1>14. RowOK(Search)
  BY DEF RowOK, NoneDropped, Shapes, Mappings, Once, Search, Paged
<1>15. RowOK(ListSpaces)
  BY DEF RowOK, NoneDropped, Shapes, Mappings, Once, ListSpaces, Paged
<1>16. RowOK(ListChildren)
  BY DEF RowOK, NoneDropped, Shapes, Mappings, Once, ListChildren, Paged
<1>17. RowOK(ListComments)
  BY DEF RowOK, NoneDropped, Shapes, Mappings, Once, ListComments, Paged
<1>18. RowOK(GetPage)
  BY DEF RowOK, NoneDropped, Shapes, Mappings, Once, GetPage, Parts
<1>19. RowOK(GetPageBody)
  BY DEF RowOK, NoneDropped, Shapes, Mappings, Once, GetPageBody, Text
<1>20. RowOK(ListRepositoryTree)
  BY DEF RowOK, NoneDropped, Shapes, Mappings, Once, ListRepositoryTree, Paginate,
     Strict
<1>21. RowOK(ListPipelines)
  BY DEF RowOK, NoneDropped, Shapes, Mappings, Once, ListPipelines, Paginate, Strict
<1>22. RowOK(CiPages)
  BY DEF RowOK, NoneDropped, Shapes, Mappings, Once, CiPages, Paginate, Strict
<1>23. RowOK(ListCommits)
  BY DEF RowOK, NoneDropped, Shapes, Mappings, Once, ListCommits, ResolveProject,
     Paginate, Continued, NormalizeCommit, Strict
<1>24. RowOK(ListCommitComments)
  BY DEF RowOK, NoneDropped, Shapes, Mappings, Once, ListCommitComments, ResolveProject,
     Paginate, Continued, NormalizeCommitComment, With, NormalizeUser, Strict
<1>25. RowOK(ListCommitDiscussions)
  BY DEF RowOK, NoneDropped, Shapes, Mappings, Once, ListCommitDiscussions,
     ResolveProject, Paginate, Continued, NormalizeDiscussion, NormalizeNote,
     NormalizePosition, NormalizeUser, With, Strict
<1>26. RowOK(ListMergeRequests)
  BY DEF RowOK, NoneDropped, Shapes, Mappings, Once, ListMergeRequests, ResolveProject,
     Paginate, Continued, NormalizeMergeRequest, With, NormalizeUser, Strict
<1>27. RowOK(ListMergeRequestCommits)
  BY DEF RowOK, NoneDropped, Shapes, Mappings, Once, ListMergeRequestCommits,
     ResolveProject, Paginate, Continued, NormalizeCommit, Strict
<1>28. RowOK(ListMergeRequestDiscussions)
  BY DEF RowOK, NoneDropped, Shapes, Mappings, Once, ListMergeRequestDiscussions,
     ResolveProject, Paginate, Continued, NormalizeDiscussion, NormalizeNote,
     NormalizePosition, NormalizeUser, With, Strict
<1>29. RowOK(DescendantGroups)
  BY DEF RowOK, NoneDropped, Shapes, Mappings, Once, DescendantGroups, ResolveProject,
     Paginate, Continued, NormalizeGroup, Strict
<1>30. RowOK(GroupProjects)
  BY DEF RowOK, NoneDropped, Shapes, Mappings, Once, GroupProjects, ResolveProject,
     Paginate, Continued, NormalizeGroupProject, Strict
<1>31. RowOK(ListNamedRefs)
  BY DEF RowOK, NoneDropped, Shapes, Mappings, Once, ListNamedRefs, Paginate, Strict
<1>32. RowOK(ResolveLinkRef)
  BY DEF RowOK, NoneDropped, Shapes, Mappings, Once, ResolveLinkRef, ListNamedRefs,
     Paginate, Strict
<1>33. RowOK(ReadMergeRequest)
  BY DEF RowOK, NoneDropped, Shapes, Mappings, Once, ReadMergeRequest, Strict
<1>34. RowOK(MergeRequestApprovals)
  BY DEF RowOK, NoneDropped, Shapes, Mappings, Once, MergeRequestApprovals, With,
     NormalizeUser, Strict
<1>35. RowOK(ReadFile)
  BY DEF RowOK, NoneDropped, Shapes, Mappings, Once, ReadFile, Strict
<1>36. RowOK(CiTextFile)
  BY DEF RowOK, NoneDropped, Shapes, Mappings, Once, CiTextFile, ReadFile, Strict
<1>37. RowOK(JobLog)
  BY DEF RowOK, NoneDropped, Shapes, Mappings, Once, JobLog, Text
<1>38. RowOK(CollectCiVariables)
  BY DEF RowOK, NoneDropped, Shapes, Mappings, Once, CollectCiVariables,
     CollectVariableEndpoint, Paginate, VariableMetadata, Strict
<1>39. RowOK(SelectCiBranches)
  BY DEF RowOK, NoneDropped, Shapes, Mappings, Once, SelectCiBranches, Paginate, Strict
<1>40. RowOK(InspectCi)
  BY DEF RowOK, NoneDropped, Shapes, Mappings, Once, InspectCi, ResolveCiIncludes,
     IncludeSpecs
<1>41. RowOK(ListItems(TRUE))
  BY DEF RowOK, NoneDropped, Shapes, Mappings, Once, ListItems, Linked, ListRow, With,
     SafeRemoteWebUrl, Strict
<1>42. RowOK(ListItems(FALSE))
  BY DEF RowOK, NoneDropped, Shapes, Mappings, Once, ListItems, Linked, ListRow, With,
     SafeRemoteWebUrl, Strict
<1>43. RowOK(ListOwnedSites)
  BY DEF RowOK, NoneDropped, Shapes, Mappings, Once, ListOwnedSites, Linked, OwnedGroup
<1>44. RowOK(ResolveDrive)
  BY DEF RowOK, NoneDropped, Shapes, Mappings, Once, ResolveDrive, Linked, Strict
<1>45. RowOK(AuditSites)
  BY DEF RowOK, NoneDropped, Shapes, Mappings, Once, AuditSites, CategoryPages, Linked,
     Normalized
<1> QED
  BY <1>1, <1>2, <1>3, <1>4, <1>5, <1>6, <1>7, <1>8, <1>9, <1>10, <1>11, <1>12, <1>13,
     <1>14, <1>15, <1>16, <1>17, <1>18, <1>19, <1>20, <1>21, <1>22, <1>23, <1>24, <1>25,
     <1>26, <1>27, <1>28, <1>29, <1>30, <1>31, <1>32, <1>33, <1>34, <1>35, <1>36, <1>37,
     <1>38, <1>39, <1>40, <1>41, <1>42, <1>43, <1>44, <1>45 DEF Listing

-----------------------------------------------------------------------------
(* Where a call starts.                                                    *)

LEMMA Division ==
    ASSUME NEW n \in Nat, NEW d \in Nat \ {0}
    PROVE  /\ n \div d \in Nat /\ n % d \in Nat /\ n % d < d
           /\ n = (n \div d) * d + (n % d)
<1>1. n \div d \in Nat
  OBVIOUS
<1>2. n % d \in 0 .. d - 1
  OBVIOUS
<1>3. n = (n \div d) * d + (n % d)
  OBVIOUS
<1> QED
  BY <1>1, <1>2, <1>3

LEMMA Below ==
    ASSUME NEW q \in Nat, NEW d \in Nat \ {0}, NEW m \in Nat, NEW r \in Nat,
           q * d + r < m * d
    PROVE  q < m
<1> SUFFICES ASSUME q >= m PROVE FALSE
  OBVIOUS
<1>1. PICK k \in Nat : q = m + k
  <2>1. q - m \in Nat /\ q = m + (q - m)
    OBVIOUS
  <2> QED
    BY <2>1
<1>2. q * d = m * d + k * d
  BY <1>1
<1>3. k * d \in Nat /\ m * d \in Nat
  OBVIOUS
<1> QED
  BY <1>2, <1>3

LEMMA Times ==
    ASSUME NEW n \in Nat, NEW d \in Nat
    PROVE  n * d \in Nat
OBVIOUS

LEMMA Origin ==
    ASSUME JobOK
    PROVE  /\ PagesBefore \in Nat /\ PagesBefore < MaxPages
           /\ PagesBefore * PageSize \in Nat
           /\ job.from \in Nat /\ job.from % PageSize \in Nat
           /\ job.from = PagesBefore * PageSize + (job.from % PageSize)
           /\ ~op.resumes => job.from = 0 /\ PagesBefore = 0 /\ PagesBefore * PageSize = 0
                             /\ job.from % PageSize = 0
<1> USE ListingAssumption
<1>0. MaxPages \in Nat /\ PageSize \in Nat \ {0}
  OBVIOUS
<1>1. job.from \in Start
  BY DEF JobOK
<1>2. PageSize * MaxPages \in Nat /\ PageSize * MaxPages = MaxPages * PageSize
  BY Times
<1>3. job.from \in Nat /\ job.from < MaxPages * PageSize
  BY <1>1, <1>2 DEF Start
<1>4. /\ PagesBefore \in Nat /\ job.from % PageSize \in Nat
      /\ job.from = PagesBefore * PageSize + (job.from % PageSize)
  BY <1>3, Division DEF PagesBefore
<1>5. PagesBefore < MaxPages
  <2>1. PagesBefore * PageSize + (job.from % PageSize) < MaxPages * PageSize
    BY <1>3, <1>4
  <2> QED
    BY ONLY <1>0, <1>4, <2>1, Below, Zenon
<1>6. PagesBefore * PageSize \in Nat
  BY <1>4, Times
<1>7. ASSUME ~op.resumes
      PROVE  /\ job.from = 0 /\ PagesBefore = 0 /\ PagesBefore * PageSize = 0
             /\ job.from % PageSize = 0
  <2>1. job.from = 0
    BY <1>7 DEF JobOK
  <2>2. 0 \div PageSize = 0
    BY ONLY ListingAssumption
  <2>3. 0 % PageSize = 0
    BY ONLY ListingAssumption
  <2>4. 0 * PageSize = 0
    OBVIOUS
  <2> QED
    BY <2>1, <2>2, <2>3, <2>4 DEF PagesBefore
<1> QED
  BY <1>3, <1>4, <1>5, <1>6, <1>7

-----------------------------------------------------------------------------
(* Sequences, and what the operators return.                               *)

\* The numbers up to n are n.
LEMMA UpTo == ASSUME NEW n \in Nat PROVE IsFiniteSet(1 .. n) /\ Cardinality(1 .. n) = n
<1>1. n + 1 - 1 = n /\ 1 - 1 = 0
  OBVIOUS
<1>2. IsFiniteSet(1 .. n) /\ Cardinality(1 .. n) = IF 1 > n THEN 0 ELSE n - 1 + 1
  BY FS_Interval
<1>3. (IF 1 > n THEN 0 ELSE n - 1 + 1) = n
  OBVIOUS
<1> QED
  BY <1>2, <1>3

LEMMA Prefix ==
    ASSUME NEW S, NEW s \in Seq(S), NEW n \in 0 .. Len(s)
    PROVE  /\ SubSeq(s, 1, n) \in Seq(S) /\ Len(SubSeq(s, 1, n)) = n
           /\ \A k \in 1 .. n : SubSeq(s, 1, n)[k] = s[k]
OBVIOUS

LEMMA Suffix ==
    ASSUME NEW S, NEW s \in Seq(S), NEW n \in 0 .. Len(s)
    PROVE  /\ SubSeq(s, Len(s) - n + 1, Len(s)) \in Seq(S)
           /\ Len(SubSeq(s, Len(s) - n + 1, Len(s))) = n
           /\ \A k \in 1 .. n : SubSeq(s, Len(s) - n + 1, Len(s))[k] = s[Len(s) - n + k]
OBVIOUS

LEMMA NormalBounds ==
    ASSUME TypeOK
    PROVE  /\ Normal \in Nat /\ Normal <= Len(rows)
           /\ Before \in Seq(Source \X Nat) /\ Len(Before) = Len(rows) - Normal
           /\ \A k \in 1 .. Len(Before) : Before[k] = rows[k]
<1> DEFINE ofHere == {k \in 1 .. Len(rows) : rows[k][1] = Here}
<1>1. rows \in Seq(Source \X Nat) /\ Len(rows) \in Nat
  BY DEF TypeOK
<1>2. IsFiniteSet(1 .. Len(rows)) /\ Cardinality(1 .. Len(rows)) = Len(rows)
  BY <1>1, UpTo
<1>3. ofHere \in SUBSET (1 .. Len(rows))
  OBVIOUS
<1>4. IsFiniteSet(ofHere) /\ Cardinality(ofHere) <= Cardinality(1 .. Len(rows))
  <2> HIDE DEF ofHere
  <2> QED
    BY <1>2, <1>3, FS_Subset
<1>5. Cardinality(ofHere) \in Nat
  <2> HIDE DEF ofHere
  <2> QED
    BY <1>4, FS_CardinalityType
<1>6. Normal = Cardinality(ofHere)
  BY DEF Normal
<1>7. Normal \in Nat /\ Normal <= Len(rows)
  BY <1>2, <1>4, <1>5, <1>6
<1>8. Len(rows) - Normal \in 0 .. Len(rows)
  BY <1>1, <1>7
<1> QED
  BY <1>1, <1>7, <1>8, Prefix DEF Before

\* An entry that is given adds one to what the list has brought.
LEMMA NormalGrows ==
    ASSUME TypeOK, here' = here, NEW i \in Nat, rows' = Append(rows, <<Here, i>>)
    PROVE  Normal' = Normal + 1
<1> DEFINE ofHere == {k \in 1 .. Len(rows) : rows[k][1] = Here}
           last == Len(rows) + 1
<1>1. rows \in Seq(Source \X Nat) /\ Len(rows) \in Nat /\ <<Here, i>> \in Source \X Nat
  BY DEF TypeOK, Here, Visit
<1>2. /\ Len(rows') = last /\ rows'[last] = <<Here, i>>
      /\ \A k \in 1 .. Len(rows) : rows'[k] = rows[k]
  BY <1>1
<1>3. {k \in 1 .. Len(rows') : rows'[k][1] = Here'} = ofHere \cup {last}
  <2>1. Here' = Here
    BY DEF Here
  <2>2. rows'[last][1] = Here
    BY <1>2
  <2>3. 1 .. Len(rows') = (1 .. Len(rows)) \cup {last}
    BY <1>1, <1>2
  <2> QED
    BY <1>1, <1>2, <2>1, <2>2, <2>3
<1>4. IsFiniteSet(ofHere) /\ last \notin ofHere
  <2>1. IsFiniteSet(1 .. Len(rows))
    BY <1>1, FS_Interval
  <2>2. ofHere \in SUBSET (1 .. Len(rows)) /\ last \notin ofHere
    BY <1>1
  <2> HIDE DEF ofHere
  <2> QED
    BY <2>1, <2>2, FS_Subset
<1>5. Cardinality(ofHere \cup {last}) = Cardinality(ofHere) + 1
  <2> HIDE DEF ofHere, last
  <2> QED
    BY <1>4, FS_AddElement
<1> QED
  BY <1>3, <1>5 DEF Normal

LEMMA AskedPositive ==
    ASSUME JobOK, TypeOK
    PROVE  /\ Size(Here) \in Nat /\ Asked \in Nat
           /\ op.asks = "page" => Asked = PageSize /\ Asked > 0
           /\ op.asks = "limit" => Asked = job.limit /\ Asked > 0
           /\ op.asks = "all" => Asked = Size(Here)
<1>1. Here \in Source
  BY DEF TypeOK, Here, Visit
<1>2. Size(Here) \in Nat
  BY <1>1 DEF JobOK, Size
<1>3. op.asks \in {"page", "limit", "all"}
  BY DEF JobOK, RowOK
<1> QED
  BY <1>2, <1>3, ListingAssumption DEF Asked, JobOK

LEMMA Brought ==
    ASSUME JobOK, TypeOK, NEW n \in Nat, NEW announced \in BOOLEAN, NEW g \in Brings(n, announced)
    PROVE  /\ g \in Nat /\ g <= n /\ g <= Asked
           /\ op.more \in {"no", "header"} /\ ~announced => g = n \/ g = Asked
           /\ op.more = "count" /\ ~announced => g = n \/ g = Asked
           /\ op.more = "short" /\ ~announced => g = n \/ g = Asked
           /\ op.more = "short" /\ announced /\ g = 0 => n = 0
           /\ op.more = "total" /\ g = 0 => n = 0
<1>1. Asked \in Nat
  BY AskedPositive
<1>2. /\ Smaller(Asked, n) \in Nat /\ Smaller(Asked, n) <= n /\ Smaller(Asked, n) <= Asked
      /\ Smaller(Asked, n) = n \/ Smaller(Asked, n) = Asked
  BY <1>1 DEF Smaller
<1>3. op.more \in {"no", "count", "total", "short", "header", "link"}
  BY DEF JobOK, RowOK
<1>4. g \in Brings(n, announced)
  OBVIOUS
<1>5. CASE op.more = "link" \/ (op.more = "count" /\ announced)
  <2>1. g \in 0 .. Smaller(Asked, n)
    BY <1>4, <1>5 DEF Brings
  <2> QED
    BY <1>1, <1>2, <1>5, <2>1
<1>6. CASE op.more = "total" \/ (op.more = "short" /\ announced)
  <2>1. IF n = 0 THEN g = 0 ELSE g \in 1 .. Smaller(Asked, n)
    BY <1>4, <1>6 DEF Brings
  <2> QED
    BY <1>1, <1>2, <1>6, <2>1
<1>7. CASE op.more \in {"no", "header"} \/ (op.more \in {"count", "short"} /\ ~announced)
  <2>1. g = Smaller(Asked, n)
    BY <1>4, <1>7 DEF Brings
  <2> QED
    BY <1>1, <1>2, <1>7, <2>1
<1> QED
  BY <1>3, <1>5, <1>6, <1>7

LEMMA BehindNat ==
    ASSUME TypeOK, NEW n \in Nat
    PROVE  Behind(n) \in Nat /\ Behind(n) <= n /\ pos + Behind(n) >= n
           /\ (Behind(n) > 0 => pos + Behind(n) = n)
BY DEF TypeOK, Behind

-----------------------------------------------------------------------------
(* The first state.                                                        *)

LEMMA InitJob == ASSUME Init PROVE JobOK
<1>1. PICK o \in Listing, h \in Holdings, limit \in Limits :
        /\ Suits(o, h)
        /\ \E wanted \in IF o.filters THEN SUBSET PlacesOf(h) ELSE {PlacesOf(h)} :
           \E from \in IF o.resumes THEN Start ELSE {0} :
            job = [op |-> o, holds |-> h, wanted |-> wanted, limit |-> limit, from |-> from]
  BY DEF Init
<1>2. PICK wanted \in IF o.filters THEN SUBSET PlacesOf(h) ELSE {PlacesOf(h)},
           from \in IF o.resumes THEN Start ELSE {0} :
        job = [op |-> o, holds |-> h, wanted |-> wanted, limit |-> limit, from |-> from]
  BY <1>1
<1>3. op = o /\ job.holds = h /\ job.wanted = wanted /\ job.limit = limit /\ job.from = from
  BY <1>2 DEF op
<1>4. RowOK(op)
  BY <1>3, Rows
<1>5. 0 \in Start
  <2>1. PageSize * MaxPages \in Nat \ {0}
    BY ListingAssumption
  <2> QED
    BY <2>1 DEF Start
<1>6. job.holds \in [Source -> Seq(0 .. Lists)] /\ job.limit \in Nat \ {0}
  BY <1>3, ListingAssumption
<1>7. job.wanted \subseteq PlacesOf(job.holds) /\ (~op.filters => job.wanted = PlacesOf(job.holds))
  BY <1>2, <1>3
<1>8. job.from \in Start /\ (~op.resumes => job.from = 0)
  BY <1>2, <1>3, <1>5
<1>9. Suits(op, job.holds)
  BY <1>1, <1>3
<1> QED
  BY <1>3, <1>4, <1>6, <1>7, <1>8, <1>9 DEF JobOK

LEMMA InitQueue ==
    ASSUME Init
    PROVE  /\ JobOK /\ queue \in Seq(Visit)
           /\ op.walk # "each" => queue = <<[list |-> 1, depth |-> 0]>> /\ Waiting = {1}
           /\ op.walk = "each" =>
                 /\ \A i, j \in 1 .. Len(queue) : queue[i].list = queue[j].list => i = j
                 /\ Lists <= MaxSources => Waiting = Source
<1> USE ListingAssumption
<1>1. JobOK /\ queue = Chosen(op)
  BY InitJob DEF Init
<1>2. CASE op.walk # "each"
  <2>1. queue = <<[list |-> 1, depth |-> 0]>>
    BY <1>1, <1>2 DEF Chosen
  <2>2. 1 \in Source
    BY DEF Source
  <2>3. Len(queue) = 1 /\ queue[1].list = 1 /\ queue[1] \in Visit
    BY <2>1, <2>2 DEF Visit
  <2> QED
    BY <1>1, <1>2, <2>1, <2>3 DEF Waiting
<1>3. CASE op.walk = "each"
  <2> DEFINE n == Smaller(Lists, MaxSources)
  <2>1. n \in Nat /\ n <= Lists /\ (Lists <= MaxSources => n = Lists)
    BY DEF Smaller
  <2>2. queue = [s \in 1 .. n |-> [list |-> s, depth |-> 0]]
    BY <1>1, <1>3 DEF Chosen
  <2>3. \A s \in 1 .. n : s \in Source
    BY <2>1 DEF Source
  <2> HIDE DEF n
  <2>4. queue \in Seq(Visit) /\ Len(queue) = n
    BY <2>1, <2>2, <2>3 DEF Visit
  <2>5. \A i \in 1 .. Len(queue) : queue[i].list = i
    BY <2>2, <2>4
  <2>6. ASSUME Lists <= MaxSources PROVE Waiting = Source
    <3>1. Len(queue) = Lists
      BY <2>1, <2>4, <2>6
    <3>2. \A s \in Source : s \in 1 .. Len(queue) /\ queue[s].list = s
      BY <2>5, <3>1 DEF Source
    <3>3. Source \subseteq Waiting
      BY <3>2 DEF Waiting
    <3>4. Waiting \subseteq Source
      BY <2>5, <3>1 DEF Waiting, Source
    <3> QED
      BY <3>3, <3>4
  <2>7. \A i, j \in 1 .. Len(queue) : queue[i].list = queue[j].list => i = j
    BY <2>5
  <2> QED
    BY <1>1, <1>3, <2>4, <2>6, <2>7
<1> QED
  BY <1>2, <1>3

LEMMA Starts == ASSUME Init PROVE Listed
<1> USE ListingAssumption
<1>1. /\ JobOK /\ RowOK(op) /\ queue \in Seq(Visit)
      /\ op.walk # "each" => queue = <<[list |-> 1, depth |-> 0]>> /\ Waiting = {1}
      /\ op.walk = "each" =>
            /\ \A i, j \in 1 .. Len(queue) : queue[i].list = queue[j].list => i = j
            /\ Lists <= MaxSources => Waiting = Source
  BY InitQueue DEF JobOK
<1>2. /\ pc \in {"resolve", "open"} /\ here = [list |-> 1, depth |-> 0] /\ Here = 1
      /\ pos = 0 /\ left = 0 /\ got = 0 /\ next = FALSE /\ pages = 0 /\ seen = {1}
      /\ rows = <<>> /\ dropped = {} /\ examined = 0 /\ weight = 0 /\ total = Unknown
      /\ truncated \in BOOLEAN /\ (truncated <=> op.walk = "each" /\ Lists > MaxSources)
      /\ warned = FALSE /\ answer = "none"
  BY DEF Init, Here
<1>3. Size(1) \in Nat /\ 1 \in Source /\ Size(Here) \in Nat /\ job.limit \in Nat \ {0}
  BY <1>1, <1>2 DEF JobOK, Size, Source
<1>4. ~Busy /\ Pending = Waiting
  BY <1>2 DEF Busy, Pending
<1>5. TypeOK
  <2>1. here \in Visit /\ rows \in Seq(Source \X Nat)
    BY <1>2, <1>3 DEF Visit
  <2> QED
    BY ONLY <1>1, <1>2, <1>3, <2>1 DEF TypeOK
<1>6. Placed
  <2>1. Flat => op.walk # "each" /\ Len(queue) <= 1 /\ Waiting \subseteq {1} /\ ~truncated
    <3> SUFFICES ASSUME Flat
                 PROVE  op.walk # "each" /\ Len(queue) <= 1 /\ Waiting \subseteq {1} /\ ~truncated
      OBVIOUS
    <3>1. op.walk = "flat"
      BY DEF Flat
    <3>2. Len(queue) = 1 /\ Waiting = {1}
      BY <1>1, <3>1
    <3>3. ~truncated
      BY <1>2, <3>1
    <3> QED
      BY <3>1, <3>2, <3>3
  <2> QED
    BY ONLY <1>1, <1>2, <1>3, <1>4, <2>1 DEF Placed
<1>7. Turned
  BY <1>2 DEF Turned
<1>8. Told
  BY <1>2 DEF Told
<1>9. Apart
  <2>1. \A i, j \in 1 .. Len(queue) : queue[i].list = queue[j].list => i = j
    BY <1>1
  <2>2. op.walk = "tree" => Pending \subseteq seen
    BY <1>1, <1>2, <1>4
  <2> QED
    BY <1>2, <1>4, <2>1, <2>2 DEF Apart
<1>10. Kept
  <2>1. Len(rows) = 0
    BY <1>2
  <2> QED
    BY <1>2, <1>3, <1>4, <2>1 DEF Kept
<1>11. Covered
  <2>1. ~truncated => ToRead \ Pending = {}
    <3>1. CASE op.walk = "each"
      <4>1. ~truncated => Lists <= MaxSources
        BY <1>2, <3>1
      <4> QED
        BY <1>1, <1>4, <3>1, <4>1 DEF ToRead
    <3>2. CASE op.walk # "each"
      BY <1>1, <1>2, <1>4, <3>2 DEF ToRead
    <3> QED
      BY <3>1, <3>2
  <2> QED
    BY <1>4, <2>1 DEF Covered
<1>12. CutIsTrue
  BY <1>2 DEF CutIsTrue, Flat
<1> QED
  BY <1>1, <1>2, <1>5, <1>6, <1>7, <1>8, <1>9, <1>10, <1>11, <1>12 DEF Listed, Underway

-----------------------------------------------------------------------------
(* Steps: the job stays, and so do the types.                              *)

LEMMA Moves ==
    ASSUME Listed, Next
    PROVE  /\ JobOK /\ TypeOK /\ RowOK(op) /\ Underway /\ pc # "done"
           /\ job' = job /\ op' = op
<1>1. pc # "done"
  BY DEF Next, Resolve, Open, Stop, Fetch, FetchFails, GiveUp, Unreadable, Overflow,
     SkipEntry, SkipHeavy, Drop, Refuse, Examine, TurnPage, HitPageLimit, EndList,
     EndCategory, PageDone, Answer
<1>2. job' = job
  BY DEF Next, Resolve, Open, Stop, Fetch, FetchFails, GiveUp, Unreadable, Overflow,
     SkipEntry, SkipHeavy, Drop, Refuse, Examine, TurnPage, HitPageLimit, EndList,
     EndCategory, Answer
<1> QED
  BY <1>1, <1>2 DEF Listed, JobOK, op

LEMMA JobStep == ASSUME JobOK, job' = job, op' = op PROVE JobOK'
BY DEF JobOK, Suits

\* What a page may leave out at its beginning.
LEMMA SkippedAtStart ==
    ASSUME JobOK, TypeOK
    PROVE  /\ Skipped \in Nat
           /\ Skipped > 0 => op.resumes /\ pages = PagesBefore /\ Skipped = job.from % PageSize
           /\ \A g \in Nat : /\ Looked(g) \in Nat /\ Looked(g) <= g
                             /\ Skipped <= g => Skipped <= Looked(g)
                             /\ ~op.cuts => Looked(g) = g
                             /\ op.cuts => Looked(g) <= MaxWeight /\ (g <= MaxWeight => Looked(g) = g)
<1>1. Skipped \in Nat /\ (Skipped > 0 => op.resumes /\ pages = PagesBefore /\ Skipped = job.from % PageSize)
  BY Origin DEF Skipped, JobOK
<1>2. op.cuts => Skipped = 0
  BY <1>1 DEF JobOK, RowOK
<1> QED
  BY <1>1, <1>2, ListingAssumption DEF Looked, Smaller

\* A page with the announced total t and g entries, as the service may send it,
\* and what reading it does.
PageHolds(t, g) ==
    /\ t \in Announces /\ t \in Nat \cup {Unknown}
    /\ g \in Nat /\ g <= Behind(Size(Here)) /\ g <= Asked
    /\ op.more \in {"no", "header"} \/ (op.more \in {"count", "short"} /\ t = Unknown) =>
          g = Behind(Size(Here)) \/ g = Asked
    /\ op.more = "total" \/ (op.more = "short" /\ t # Unknown) => (g = 0 => Behind(Size(Here)) = 0)

PageRead(t, g) ==
    /\ got' = g
    /\ total' = IF op.more = "short" /\ t = Unknown THEN total ELSE t
    /\ next' \in Names(Behind(Size(Here)) - g)
    /\ pages' = pages + 1
    /\ UNCHANGED <<job, here, seen, rows, dropped, examined, weight, warned>>
    /\ \/ op.late /\ pages >= MaxPages /\ Cut /\ UNCHANGED <<pos, left>>
       \/ Skipped > g /\ Fail /\ UNCHANGED <<queue, truncated, pos, left>>
       \/ /\ ~(op.late /\ pages >= MaxPages) /\ Skipped <= g
          /\ pc' = "examine"
          /\ left' = Looked(g) - Skipped
          /\ pos' = pos + Skipped + (IF op.keeps = "tail" THEN g - Looked(g) ELSE 0)
          /\ UNCHANGED <<queue, truncated, answer>>

LEMMA Fetched ==
    ASSUME JobOK, TypeOK, Fetch
    PROVE  \E t \in Nat \cup {Unknown}, g \in Nat : PageHolds(t, g) /\ PageRead(t, g)
<1>1. Size(Here) \in Nat /\ Behind(Size(Here)) \in Nat
  BY AskedPositive, BehindNat
<1>2. PICK t \in Announces : \E g \in Brings(Behind(Size(Here)), t # Unknown) :
        /\ got' = g
        /\ total' = IF op.more = "short" /\ t = Unknown THEN total ELSE t
        /\ next' \in Names(Behind(Size(Here)) - g)
        /\ IF op.late /\ pages >= MaxPages
           THEN Cut /\ UNCHANGED <<pos, left>>
           ELSE IF Skipped > g THEN Fail /\ UNCHANGED <<queue, truncated, pos, left>>
           ELSE /\ pc' = "examine"
                /\ left' = Looked(g) - Skipped
                /\ pos' = pos + Skipped + (IF op.keeps = "tail" THEN g - Looked(g) ELSE 0)
                /\ UNCHANGED <<queue, truncated, answer>>
  BY DEF Fetch
<1>3. PICK g \in Brings(Behind(Size(Here)), t # Unknown) :
        /\ got' = g
        /\ total' = IF op.more = "short" /\ t = Unknown THEN total ELSE t
        /\ next' \in Names(Behind(Size(Here)) - g)
        /\ IF op.late /\ pages >= MaxPages
           THEN Cut /\ UNCHANGED <<pos, left>>
           ELSE IF Skipped > g THEN Fail /\ UNCHANGED <<queue, truncated, pos, left>>
           ELSE /\ pc' = "examine"
                /\ left' = Looked(g) - Skipped
                /\ pos' = pos + Skipped + (IF op.keeps = "tail" THEN g - Looked(g) ELSE 0)
                /\ UNCHANGED <<queue, truncated, answer>>
  BY <1>2
<1>4. t \in Nat \cup {Unknown} /\ (t # Unknown) \in BOOLEAN
  BY <1>1, <1>2 DEF Announces
<1>5. PageHolds(t, g)
  <2>1. /\ g \in Nat /\ g <= Behind(Size(Here)) /\ g <= Asked
        /\ op.more \in {"no", "header"} /\ t = Unknown => g = Behind(Size(Here)) \/ g = Asked
        /\ op.more \in {"count", "short"} /\ t = Unknown => g = Behind(Size(Here)) \/ g = Asked
        /\ op.more = "short" /\ t # Unknown /\ g = 0 => Behind(Size(Here)) = 0
        /\ op.more = "total" /\ g = 0 => Behind(Size(Here)) = 0
    BY <1>1, <1>4, Brought
  <2>2. op.more \in {"no", "header"} => t = Unknown
    BY <1>2 DEF Announces
  <2> QED
    BY <1>2, <1>4, <2>1, <2>2 DEF PageHolds
<1>6. Skipped \in Nat /\ g \in Nat
  BY <1>5, SkippedAtStart DEF PageHolds
<1>7. pages' = pages + 1 /\ UNCHANGED <<job, here, seen, rows, dropped, examined, weight, warned>>
  BY DEF Fetch, Counted, kept
<1>8. PageRead(t, g)
  BY <1>3, <1>6, <1>7 DEF PageRead
<1> QED
  BY <1>4, <1>5, <1>6, <1>8

\* A cut fails, or goes on without what is beyond it.
LEMMA Cuts ==
    ASSUME JobOK, TypeOK, Cut
    PROVE  /\ queue' \in Seq(Visit) /\ truncated' \in BOOLEAN
           /\ \/ pc' = "done" /\ answer' = "failed"
              \/ /\ pc' = "open" /\ answer' = answer /\ truncated'
                 /\ queue' = IF op.walk = "each" THEN queue ELSE <<>>
<1>1. CASE op.beyond = "fail"
  BY <1>1 DEF Cut, Fail, TypeOK
<1>2. CASE op.beyond # "fail"
  <2>1. /\ pc' = "open" /\ answer' = answer /\ truncated' = TRUE
        /\ queue' = IF op.walk = "each" THEN queue ELSE <<>>
    BY <1>2 DEF Cut
  <2> QED
    BY <2>1 DEF TypeOK
<1> QED
  BY <1>1, <1>2

LEMMA Item == ASSUME NEW S, NEW s \in Seq(S), NEW i \in 1 .. Len(s) PROVE s[i] \in S
OBVIOUS

\* What looking at an entry does.
EntryRead ==
    /\ pc = "examine" /\ left > 0 /\ ~Exceeds /\ ~TooHeavy
    /\ Here \in Source /\ pos + 1 \in 1 .. Size(Here)
    /\ rows' = IF Wanted(pos + 1) THEN Append(rows, <<Here, pos + 1>>) ELSE rows
    /\ pos' = pos + 1 /\ left' = left - 1 /\ examined' = examined + 1
    /\ weight' = IF op.weighs /\ ~Categories /\ Wanted(pos + 1) THEN weight + 1 ELSE weight
    /\ \/ /\ Follows /\ Fresh /\ Folder \in Source
          /\ queue' = Append(queue, [list |-> Folder, depth |-> here.depth + 1])
          /\ [list |-> Folder, depth |-> here.depth + 1] \in Visit
          /\ seen' = seen \cup {Folder}
       \/ ~(Follows /\ Fresh) /\ queue' = queue /\ seen' = seen
    /\ \/ Reaches(rows') /\ op.beyond = "fail" /\ pc' = "done" /\ answer' = "failed" /\ truncated' = truncated
       \/ /\ Reaches(rows') /\ op.beyond = "cut" /\ pc' = "open" /\ answer' = answer
          /\ truncated' \in BOOLEAN /\ (~truncated' => ~(pos + 1 < total)) /\ (truncated' => pos + 1 < total)
       \/ /\ ~Reaches(rows') /\ pc' = "examine" /\ answer' = answer
          /\ truncated' \in BOOLEAN /\ (~truncated' => ~truncated /\ ~(Follows /\ ~Fresh))
          /\ (truncated' => truncated \/ Follows)
    /\ UNCHANGED <<job, here, got, next, pages, dropped, total, warned>>

LEMMA Examined ==
    ASSUME JobOK, TypeOK, Placed, Told, Examine
    PROVE  EntryRead
<1>1. Here \in Source /\ Size(Here) \in Nat /\ pos \in Nat /\ left \in Nat
  BY AskedPositive DEF TypeOK, Here, Visit
<1>2. pos + 1 \in 1 .. Size(Here)
  BY <1>1 DEF Examine, Placed
<1>3. /\ rows' = IF Wanted(pos + 1) THEN Append(rows, <<Here, pos + 1>>) ELSE rows
      /\ pos' = pos + 1 /\ left' = left - 1 /\ examined' = examined + 1
      /\ weight' = IF op.weighs /\ ~Categories /\ Wanted(pos + 1) THEN weight + 1 ELSE weight
      /\ UNCHANGED <<job, here, got, next, pages, dropped, total, warned>>
      /\ pc = "examine" /\ left > 0 /\ ~Exceeds /\ ~TooHeavy
  BY DEF Examine
<1>4. \/ /\ Follows /\ Fresh /\ Folder \in Source
         /\ queue' = Append(queue, [list |-> Folder, depth |-> here.depth + 1])
         /\ [list |-> Folder, depth |-> here.depth + 1] \in Visit
         /\ seen' = seen \cup {Folder}
      \/ ~(Follows /\ Fresh) /\ queue' = queue /\ seen' = seen
  <2>1. CASE Follows /\ Fresh
    <3>1. job.holds[Here] \in Seq(0 .. Lists) /\ pos + 1 \in 1 .. Len(job.holds[Here])
      BY <1>1, <1>2 DEF JobOK, Size
    <3>2. Folder \in 0 .. Lists
      BY <3>1, Item DEF Folder
    <3>3. Folder \in Source
      BY <2>1, <3>2, ListingAssumption DEF Follows, Source
    <3>4. [list |-> Folder, depth |-> here.depth + 1] \in Visit
      BY <3>3 DEF TypeOK, Visit
    <3>5. /\ queue' = Append(queue, [list |-> Folder, depth |-> here.depth + 1])
          /\ seen' = seen \cup {Folder}
      BY <2>1 DEF Examine
    <3> QED
      BY <2>1, <3>3, <3>4, <3>5
  <2>2. CASE ~(Follows /\ Fresh)
    BY <2>2 DEF Examine
  <2> QED
    BY <2>1, <2>2
<1>5. \/ Reaches(rows') /\ op.beyond = "fail" /\ pc' = "done" /\ answer' = "failed" /\ truncated' = truncated
      \/ /\ Reaches(rows') /\ op.beyond = "cut" /\ pc' = "open" /\ answer' = answer
         /\ truncated' \in BOOLEAN /\ (~truncated' => ~(pos + 1 < total)) /\ (truncated' => pos + 1 < total)
      \/ /\ ~Reaches(rows') /\ pc' = "examine" /\ answer' = answer
         /\ truncated' \in BOOLEAN /\ (~truncated' => ~truncated /\ ~(Follows /\ ~Fresh))
         /\ (truncated' => truncated \/ Follows)
  <2>1. op.beyond \in {"cut", "fail"}
    BY DEF JobOK, RowOK
  <2>2. CASE Reaches(rows') /\ op.beyond = "fail"
    BY <1>3, <2>2 DEF Examine, Fail
  <2>3. CASE Reaches(rows') /\ op.beyond = "cut"
    <3>1. truncated' = (pos + 1 < total) /\ pc' = "open" /\ answer' = answer
      BY <1>3, <2>3 DEF Examine
    <3>0. pos \in Nat /\ total \in Nat
      <4>1. op.more = "total"
        BY <2>3 DEF Reaches, JobOK, RowOK
      <4> QED
        BY <1>3, <4>1 DEF Told, TypeOK
    <3>2. truncated' \in BOOLEAN /\ (~truncated' => ~(pos + 1 < total)) /\ (truncated' => pos + 1 < total)
      <4>1. CASE pos + 1 < total
        BY <3>0, <3>1, <4>1
      <4>2. CASE ~(pos + 1 < total)
        <5>1. (pos + 1 < total) = FALSE
          BY <3>0, <4>2
        <5>2. truncated' = FALSE
          BY <3>1, <5>1, Zenon
        <5> QED
          BY <4>2, <5>2
      <4> QED
        BY <4>1, <4>2
    <3> QED
      BY <2>3, <3>1, <3>2
  <2>4. CASE ~Reaches(rows')
    <3>1. truncated' = (truncated \/ (Follows /\ ~Fresh)) /\ UNCHANGED <<pc, answer>>
      BY <1>3, <2>4 DEF Examine
    <3>2. truncated \in BOOLEAN
      BY DEF TypeOK
    <3> QED
      BY <1>3, <3>1, <3>2, <2>4
  <2> QED
    BY <2>1, <2>2, <2>3, <2>4
<1> QED
  BY <1>1, <1>2, <1>3, <1>4, <1>5 DEF EntryRead

LEMMA NamesBoolean == ASSUME NEW n \in Int, NEW b \in Names(n) PROVE b \in BOOLEAN
<1>1. b = (n > 0) \/ b = FALSE
  <2>1. CASE op.more = "link"
    BY <2>1 DEF Names
  <2>2. CASE op.more = "header"
    BY <2>2 DEF Names
  <2>3. CASE op.more \notin {"link", "header"}
    BY <2>3 DEF Names
  <2> QED
    BY <2>1, <2>2, <2>3
<1>2. (n > 0) \in BOOLEAN
  OBVIOUS
<1> QED
  BY <1>1, <1>2, Zenon

LEMMA TypeStep == ASSUME Listed, Next PROVE TypeOK'
<1> USE DEF reading, kept, outcome
<1>1. JobOK /\ TypeOK /\ RowOK(op) /\ Underway /\ job' = job /\ op' = op
  BY Moves
<1>2. Placed /\ Kept
  BY <1>1 DEF Underway
<1>3. CASE Resolve
  BY <1>1, <1>3 DEF Resolve, Fail, TypeOK
<1>4. CASE Open
  <2>1. here' \in Visit /\ queue' \in Seq(Visit)
    BY <1>1, <1>4 DEF Open, TypeOK
  <2> QED
    BY <1>1, <1>4, <2>1, Origin DEF Open, TypeOK
<1>5. CASE Stop
  BY <1>1, <1>5 DEF Stop, TypeOK
<1>6. CASE Fetch
  <2>1. PICK t \in Nat \cup {Unknown}, g \in Nat : PageHolds(t, g) /\ PageRead(t, g)
    BY <1>1, <1>6, Fetched
  <2>2. /\ Skipped \in Nat /\ Looked(g) \in Nat /\ Looked(g) <= g
        /\ Skipped <= g => Skipped <= Looked(g)
    BY <1>1, SkippedAtStart
  <2>3. pos' \in Nat /\ left' \in Nat
    <3>1. pos \in Nat /\ left \in Nat
      BY <1>1 DEF TypeOK
    <3> QED
      BY <2>1, <2>2, <3>1 DEF PageRead
  <2>4. next' \in BOOLEAN
    <3>1. Behind(Size(Here)) - g \in Int
      BY <1>1, <2>1, AskedPositive, BehindNat
    <3> QED
      BY <2>1, <3>1, NamesBoolean DEF PageRead
  <2>5. /\ pc' \in {"open", "examine", "done"} /\ answer' \in {"none", "given", "failed"}
        /\ queue' \in Seq(Visit) /\ truncated' \in BOOLEAN
    BY <1>1, <2>1, Cuts DEF PageRead, TypeOK, Fail
  <2>6. total' \in Nat \cup {Unknown} /\ got' \in Nat /\ pages' \in Nat
    BY <1>1, <2>1 DEF PageRead, TypeOK
  <2> QED
    BY <1>1, <2>1, <2>3, <2>4, <2>5, <2>6 DEF PageRead, TypeOK
<1>7. CASE FetchFails
  <2>1. rows' \in Seq(Source \X Nat) /\ examined' \in Nat
    <3>1. CASE Categories
      <4>1. rows' = Before /\ examined' = examined - pos /\ Busy
        BY <1>7, <3>1 DEF FetchFails, Busy
      <4>2. pos <= examined
        BY <1>2, <3>1, <4>1 DEF Kept
      <4> QED
        BY <1>1, <4>1, <4>2, NormalBounds DEF TypeOK
    <3>2. CASE ~Categories
      BY <1>1, <1>7, <3>2 DEF FetchFails, TypeOK
    <3> QED
      BY <3>1, <3>2
  <2>2. /\ pc' \in {"open", "done"} /\ answer' \in {"none", "given", "failed"} /\ warned' \in BOOLEAN
    BY <1>1, <1>7 DEF FetchFails, TypeOK, Fail, Passed
  <2> QED
    BY <1>1, <1>7, <2>1, <2>2 DEF FetchFails, TypeOK
<1>8. CASE GiveUp
  BY <1>1, <1>8 DEF GiveUp, Fail, TypeOK
<1>9. CASE Unreadable
  BY <1>1, <1>9 DEF Unreadable, Passed, TypeOK
<1>10. CASE Overflow
  <2>1. /\ queue' \in Seq(Visit) /\ truncated' \in BOOLEAN
        /\ pc' \in {"open", "done"} /\ answer' \in {"none", "given", "failed"}
    BY <1>1, <1>10, Cuts DEF Overflow, TypeOK
  <2> QED
    BY <1>1, <1>10, <2>1 DEF Overflow, TypeOK
<1>11. CASE SkipEntry
  BY <1>1, <1>11 DEF SkipEntry, TypeOK
<1>12. CASE SkipHeavy
  BY <1>1, <1>12 DEF SkipHeavy, TypeOK
<1>13. CASE Drop
  <2>1. <<Here, pos + 1>> \in PlacesOf(job.holds)
    <3>1. Here \in Source /\ Size(Here) \in Nat /\ pos \in Nat /\ left \in Nat
      BY <1>1, AskedPositive DEF TypeOK, Here, Visit
    <3>2. pos + 1 \in 1 .. Len(job.holds[Here])
      BY <1>2, <1>13, <3>1 DEF Drop, Placed, Size
    <3> QED
      BY <3>1, <3>2 DEF PlacesOf
  <2> QED
    BY <1>1, <1>13, <2>1 DEF Drop, TypeOK
<1>14. CASE Refuse
  <2>1. rows' \in Seq(Source \X Nat) /\ examined' \in Nat
    <3>1. CASE Unknowns
      BY <1>1, <1>14, <3>1, NormalBounds DEF Refuse, TypeOK, Smaller, JobOK
    <3>2. CASE ~Unknowns
      BY <1>1, <1>14, <3>2 DEF Refuse, TypeOK
    <3> QED
      BY <3>1, <3>2
  <2> QED
    BY <1>1, <1>14, <2>1 DEF Refuse, Passed, Fail, TypeOK
<1>15. CASE Examine
  <2>1. EntryRead
    BY <1>1, <1>2, <1>15, Examined DEF Underway
  <2>2. rows' \in Seq(Source \X Nat)
    <3>1. rows \in Seq(Source \X Nat) /\ <<Here, pos + 1>> \in Source \X Nat
      BY <1>1 DEF TypeOK, Here, Visit
    <3> QED
      BY <2>1, <3>1 DEF EntryRead
  <2>3. queue' \in Seq(Visit) /\ seen' \subseteq Source
    <3>1. queue \in Seq(Visit) /\ seen \subseteq Source
      BY <1>1 DEF TypeOK
    <3>2. CASE Follows /\ Fresh
      <4> DEFINE folder == [list |-> Folder, depth |-> here.depth + 1]
      <4>1. queue' = Append(queue, folder) /\ folder \in Visit /\ seen' = seen \cup {Folder} /\ Folder \in Source
        BY <2>1, <3>2 DEF EntryRead
      <4> HIDE DEF folder
      <4> QED
        BY <3>1, <4>1
    <3>3. CASE ~(Follows /\ Fresh)
      BY <2>1, <3>1, <3>3 DEF EntryRead
    <3> QED
      BY <3>2, <3>3
  <2>4. /\ pc' \in {"examine", "open", "done"} /\ answer' \in {"none", "given", "failed"}
        /\ truncated' \in BOOLEAN
    BY <1>1, <2>1 DEF EntryRead, TypeOK
  <2>5. examined' \in Nat /\ weight' \in Nat /\ pos' \in Nat /\ left' \in Nat
    BY <1>1, <2>1 DEF EntryRead, TypeOK
  <2> QED
    BY <1>1, <2>1, <2>2, <2>3, <2>4, <2>5 DEF EntryRead, TypeOK
<1>16. CASE TurnPage
  BY <1>1, <1>16 DEF TurnPage, TypeOK
<1>17. CASE HitPageLimit
  <2>1. /\ queue' \in Seq(Visit) /\ truncated' \in BOOLEAN
        /\ pc' \in {"open", "done"} /\ answer' \in {"none", "given", "failed"}
    BY <1>1, <1>17, Cuts DEF HitPageLimit, TypeOK
  <2> QED
    BY <1>1, <1>17, <2>1 DEF HitPageLimit, TypeOK
<1>18. CASE EndList
  BY <1>1, <1>18 DEF EndList, TypeOK
<1>19. CASE EndCategory
  <2> DEFINE room == Smaller(Normal, job.limit - (examined - pos))
  <2>1. /\ Normal \in Nat /\ Normal <= Len(rows) /\ Len(Before) = Len(rows) - Normal
        /\ Before \in Seq(Source \X Nat)
    BY <1>1, NormalBounds
  <2>2. /\ examined - pos \in Nat /\ examined - pos <= job.limit
    BY <1>1, <1>2, <1>19 DEF EndCategory, PageDone, Kept, Busy, TypeOK
  <2>3. room \in Nat /\ room <= Normal
    BY <1>1, <2>1, <2>2 DEF Smaller, JobOK
  <2>4. /\ rows' = SubSeq(rows, 1, Len(Before) + room) \/ rows' = Before
        /\ weight' = weight + room \/ weight' = weight
        /\ examined' = examined - pos + room
        /\ truncated' \in BOOLEAN
    BY <1>19 DEF EndCategory
  <2> HIDE DEF room
  <2>5. Len(Before) + room \in 0 .. Len(rows) /\ rows \in Seq(Source \X Nat)
    BY <1>1, <2>1, <2>3 DEF TypeOK
  <2>6. rows' \in Seq(Source \X Nat)
    BY <2>1, <2>4, <2>5, Prefix
  <2>7. weight' \in Nat /\ examined' \in Nat
    BY <1>1, <2>2, <2>3, <2>4 DEF TypeOK
  <2> QED
    BY <1>1, <1>19, <2>4, <2>6, <2>7 DEF EndCategory, TypeOK
<1>20. CASE Answer
  <2>1. rows \in Seq(Source \X Nat) /\ Smaller(Len(rows), job.limit) \in 0 .. Len(rows)
    BY <1>1 DEF TypeOK, Smaller, JobOK
  <2>2. rows' \in Seq(Source \X Nat)
    BY <1>20, <2>1, Prefix, Suffix DEF Answer
  <2>3. total' \in Nat \cup {Unknown}
    BY <1>1, <1>20 DEF Answer, Total, TotalOfGiven, TypeOK
  <2>4. truncated' \in BOOLEAN
    BY <1>1, <1>20 DEF Answer, IsCut, TypeOK
  <2> QED
    BY <1>1, <1>20, <2>2, <2>3, <2>4 DEF Answer, TypeOK
<1> QED
  BY <1>3, <1>4, <1>5, <1>6, <1>7, <1>8, <1>9, <1>10, <1>11, <1>12, <1>13, <1>14, <1>15,
     <1>16, <1>17, <1>18, <1>19, <1>20 DEF Next

-----------------------------------------------------------------------------
(* Steps: where the call is.                                               *)

LEMMA PlacedStep == ASSUME Listed, Next, pc' # "done" PROVE Placed'
<1> USE DEF reading, kept, outcome, Here, Size
<1>1. /\ JobOK /\ TypeOK /\ RowOK(op) /\ Placed /\ Told /\ job' = job /\ op' = op
      /\ (Flat' <=> Flat)
  BY Moves DEF Underway, Flat
<1>2. ASSUME queue' = queue PROVE Waiting' = Waiting
  BY <1>2 DEF Waiting
<1>3. CASE Resolve
  BY <1>1, <1>2, <1>3 DEF Resolve, Fail, Placed, Busy
<1>4. CASE Open
  <2>1. pc' = "fetch" /\ here' = Head(queue) /\ queue' = Tail(queue) /\ pos' = PagesBefore * PageSize
        /\ left' = 0 /\ got' = 0 /\ UNCHANGED <<seen, rows, truncated, warned, answer>>
    BY <1>4 DEF Open
  <2>2. queue # <<>> /\ queue \in Seq(Visit)
    BY <1>1, <1>4 DEF Open, TypeOK
  <2>3. Head(queue).list \in Waiting /\ Len(queue) \in Nat /\ Len(queue) >= 1 /\ Len(queue') = Len(queue) - 1
    <3>1. Len(queue) \in Nat /\ Len(queue) >= 1 /\ Head(queue) = queue[1] /\ Len(queue') = Len(queue) - 1
      BY <2>1, <2>2
    <3> QED
      BY <3>1 DEF Waiting
  <2>4. queue' = <<>> \/ Len(queue') > 0
    BY <2>1, <2>2
  <2>5. Flat => Here' = 1 /\ queue' = <<>> /\ ~truncated /\ Waiting' \subseteq {1}
    <3>1. Flat => Here' = 1 /\ queue' = <<>> /\ ~truncated
      BY <1>1, <2>1, <2>2, <2>3, <2>4 DEF Placed
    <3> QED
      BY <3>1 DEF Waiting
  <2>6. Size(Here)' \in Nat
    BY <1>1, <2>1, <2>2 DEF JobOK, Visit
  <2> QED
    BY <1>1, <2>1, <2>5, <2>6 DEF Placed, Busy
<1>5. CASE Stop
  <2>1. Flat => pages = 0
    BY <1>1, <1>5 DEF Stop, Placed
  <2>2. ~Flat
    BY <1>1, <1>5, <2>1, ListingAssumption DEF Stop, Stopped, Flat
  <2> QED
    BY <1>1, <1>5, <2>2 DEF Stop, Placed, Busy
<1>6. CASE Fetch
  <2>1. PICK t \in Nat \cup {Unknown}, g \in Nat : PageHolds(t, g) /\ PageRead(t, g)
    BY <1>1, <1>6, Fetched
  <2>2. /\ Skipped \in Nat /\ Looked(g) \in Nat /\ Looked(g) <= g
        /\ Skipped <= g => Skipped <= Looked(g)
    BY <1>1, SkippedAtStart
  <2>3. /\ Size(Here) \in Nat /\ Behind(Size(Here)) \in Nat /\ Behind(Size(Here)) <= Size(Here)
        /\ Behind(Size(Here)) > 0 => pos + Behind(Size(Here)) = Size(Here)
        /\ pos \in Nat /\ left = 0
    BY <1>1, <1>6, AskedPositive, BehindNat DEF Fetch, Placed, TypeOK
  <2>4. g <= Behind(Size(Here)) /\ got' = g /\ here' = here /\ seen' = seen /\ rows' = rows /\ warned' = warned
    BY <2>1 DEF PageHolds, PageRead
  <2>5. CASE Cut /\ UNCHANGED <<pos, left>>
    <3>1. pc' = "open" /\ answer' = answer /\ queue' = IF op.walk = "each" THEN queue ELSE <<>>
      BY <1>1, <2>5, Cuts
    <3>2. queue' = <<>> => Waiting' = {}
      BY DEF Waiting
    <3> QED
      BY <1>1, <2>3, <2>4, <2>5, <3>1, <3>2 DEF Placed, Busy, Flat
  <2>6. CASE /\ pc' = "examine"
             /\ left' = Looked(g) - Skipped
             /\ pos' = pos + Skipped + (IF op.keeps = "tail" THEN g - Looked(g) ELSE 0)
             /\ UNCHANGED <<queue, truncated, answer>>
             /\ Skipped <= g
    <3>1. left' > 0 => pos' + left' <= pos + g /\ g > 0
      BY <2>2, <2>3, <2>4, <2>6
    <3>2. left' > 0 => pos' + left' <= Size(Here)
      <4> SUFFICES ASSUME left' > 0 PROVE pos' + left' <= Size(Here)
        OBVIOUS
      <4>1. pos' + left' \in Nat /\ pos + g \in Nat /\ Size(Here) \in Nat
        BY <2>1, <2>2, <2>3, <2>6
      <4>2. pos' + left' <= pos + g /\ pos + g <= Size(Here)
        BY <2>1, <2>3, <2>4, <3>1
      <4> QED
        BY ONLY <4>1, <4>2
    <3> QED
      BY <1>1, <1>2, <1>6, <2>3, <2>4, <2>6, <3>2 DEF Placed, Busy, Fetch
  <2> QED
    BY <2>1, <2>5, <2>6 DEF PageRead, Fail
<1>7. CASE FetchFails
  <2>1. /\ pc' = "open" /\ answer' = answer /\ op.skips # {} /\ (Flat => rows' = rows /\ examined' = examined)
        /\ UNCHANGED <<job, queue, here, pos, left, got, next, pages, seen, dropped, weight, total, truncated>>
    BY <1>1, <1>7 DEF FetchFails, Passed, Fail, Categories, RowOK, Flat
  <2> QED
    BY <1>1, <1>2, <1>7, <2>1 DEF FetchFails, Placed, Busy
<1>8. CASE GiveUp
  BY <1>8 DEF GiveUp, Fail
<1>9. CASE Unreadable
  <2>1. ~Flat
    BY <1>1, <1>9 DEF Unreadable, RowOK, Flat
  <2> QED
    BY <1>1, <1>9, <2>1 DEF Unreadable, Passed, Placed
<1>10. CASE Overflow
  <2>1. /\ pc' = "open" /\ answer' = answer /\ queue' = IF op.walk = "each" THEN queue ELSE <<>>
        /\ UNCHANGED <<job, here, pos, left, got, next, pages, seen, rows, dropped, examined, weight, total, warned>>
    BY <1>1, <1>10, Cuts DEF Overflow
  <2>2. queue' = <<>> => Waiting' = {}
    BY DEF Waiting
  <2> QED
    BY <1>1, <2>1, <2>2 DEF Placed, Busy, Flat
<1>11. CASE SkipEntry
  <2>1. op.skips # {} /\ pos \in Nat /\ left \in Nat
    BY <1>1, <1>11 DEF SkipEntry, TypeOK
  <2> QED
    BY <1>1, <1>2, <1>11, <2>1 DEF SkipEntry, Placed, Busy
<1>12. CASE SkipHeavy
  <2>1. op.skips # {} /\ ~Flat /\ pos \in Nat /\ left \in Nat
    BY <1>1, <1>12 DEF SkipHeavy, TypeOK, RowOK, Flat
  <2> QED
    BY <1>1, <1>2, <1>12, <2>1 DEF SkipHeavy, Placed, Busy
<1>13. CASE Drop
  <2>1. pos \in Nat /\ left \in Nat
    BY <1>1 DEF TypeOK
  <2> QED
    BY <1>1, <1>2, <1>13, <2>1 DEF Drop, Placed, Busy
<1>14. CASE Refuse
  <2>1. /\ pc' = "open" /\ answer' = answer /\ op.skips # {} /\ (Flat => rows' = rows /\ examined' = examined)
        /\ UNCHANGED <<job, queue, here, pos, left, got, next, pages, seen, dropped, weight, total, truncated>>
    BY <1>1, <1>14 DEF Refuse, Passed, Fail, RowOK, Flat, Unknowns
  <2> QED
    BY <1>1, <1>2, <1>14, <2>1 DEF Refuse, Placed, Busy
<1>15. CASE Examine
  <2>1. EntryRead
    BY <1>1, <1>15, Examined
  <2>2. op.walk # "tree" => queue' = queue /\ seen' = seen
    BY <2>1 DEF EntryRead, Follows
  <2>3. pos \in Nat /\ left \in Nat /\ (op.walk # "tree" /\ truncated' /\ pc' = "examine" => truncated)
    BY <1>1, <2>1 DEF TypeOK, EntryRead, Follows
  <2>4. /\ answer' = answer /\ pc' \in {"open", "examine"} /\ pc = "examine" /\ left > 0
        /\ pos' = pos + 1 /\ left' = left - 1
        /\ UNCHANGED <<job, here, got, next, pages, dropped, total, warned>>
    BY <2>1 DEF EntryRead
  <2>5. Flat => Placed'
    BY <1>1, <1>2, <2>2, <2>3, <2>4 DEF Placed, Busy, Flat
  <2>6. ~Flat => Placed'
    BY <1>1, <2>2, <2>3, <2>4 DEF Placed
  <2> QED
    BY <2>5, <2>6
<1>16. CASE TurnPage
  BY <1>1, <1>2, <1>16 DEF TurnPage, PageDone, Placed, Busy
<1>17. CASE HitPageLimit
  <2>1. /\ pc = "examine" /\ pc' = "open" /\ answer' = answer /\ queue' \in {queue, <<>>}
        /\ UNCHANGED <<job, here, pos, left, got, next, pages, seen, rows, dropped, examined, weight, total, warned>>
    BY <1>1, <1>17, Cuts DEF HitPageLimit, PageDone
  <2>2. queue' = <<>> => Waiting' = {}
    BY DEF Waiting
  <2>3. Flat => queue' = <<>>
    BY <1>1, <2>1 DEF Placed, Busy
  <2> QED
    BY <1>1, <2>1, <2>2, <2>3 DEF Placed, Busy
<1>18. CASE EndList
  BY <1>1, <1>2, <1>18 DEF EndList, PageDone, Placed, Busy
<1>19. CASE EndCategory
  <2>1. ~Flat
    BY <1>19 DEF EndCategory, Categories, Flat
  <2> QED
    BY <1>1, <1>19, <2>1 DEF EndCategory, Placed
<1>20. CASE Answer
  BY <1>20 DEF Answer
<1> QED
  BY <1>3, <1>4, <1>5, <1>6, <1>7, <1>8, <1>9, <1>10, <1>11, <1>12, <1>13, <1>14, <1>15,
     <1>16, <1>17, <1>18, <1>19, <1>20 DEF Next

-----------------------------------------------------------------------------
(* Steps: pages, and what they tell.                                       *)

\* A list is left, or an entry is done with.
Leaves ==
    /\ pc' = "open"
    /\ UNCHANGED <<job, here, pos, left, got, next, pages, seen, dropped, total>>
    /\ queue' = queue \/ queue' = <<>>

Looks ==
    /\ pc = "examine" /\ left > 0
    /\ pc' \in {"examine", "open"}
    /\ pos' = pos + 1 /\ left' = left - 1
    /\ UNCHANGED <<job, here, got, next, pages, total>>

LEMMA Kinds ==
    ASSUME Listed, Next, pc' # "done"
    PROVE  Open \/ Fetch \/ TurnPage \/ Leaves \/ Looks
<1> USE DEF reading, kept, outcome
<1>1. JobOK /\ TypeOK /\ Placed /\ Told
  BY Moves DEF Underway
<1>2. Resolve \/ Stop => Leaves
  BY DEF Resolve, Stop, Leaves, Fail
<1>3. FetchFails => Leaves
  BY DEF FetchFails, Leaves, Fail, Passed
<1>4. Unreadable \/ Refuse => Leaves
  BY DEF Unreadable, Refuse, Leaves, Fail, Passed
<1>5. Overflow => Leaves
  BY <1>1, Cuts DEF Overflow, Leaves
<1>6. HitPageLimit => Leaves
  BY <1>1, Cuts DEF HitPageLimit, Leaves
<1>7. EndList \/ EndCategory => Leaves
  BY DEF EndList, EndCategory, Leaves
<1>8. SkipEntry \/ SkipHeavy \/ Drop => Looks
  BY DEF SkipEntry, SkipHeavy, Drop, Looks
<1>9. Examine => Looks
  BY <1>1, Examined DEF EntryRead, Looks
<1>10. ~GiveUp /\ ~Answer
  BY DEF GiveUp, Answer, Fail
<1> QED
  BY <1>2, <1>3, <1>4, <1>5, <1>6, <1>7, <1>8, <1>9, <1>10 DEF Next

LEMMA TurnedStep == ASSUME Listed, Next, pc' # "done" PROVE Turned'
<1>1. /\ JobOK /\ TypeOK /\ RowOK(op) /\ Placed /\ Turned /\ Told /\ job' = job /\ op' = op
      /\ (Flat' <=> Flat) /\ PagesBefore' = PagesBefore /\ pages \in Nat /\ pc # "done"
  BY Moves DEF Underway, Flat, PagesBefore, TypeOK
<1>2. MaxPages \in Nat
  BY ListingAssumption
<1>3. /\ PagesBefore \in Nat /\ PagesBefore < MaxPages
      /\ ~op.resumes => PagesBefore * PageSize = 0
  BY <1>1, Origin
<1>4. CASE Open
  <2>1. /\ pc' = "fetch" /\ queue # <<>> /\ ~Stopped
        /\ pages' = IF op.walk = "tree" THEN pages ELSE PagesBefore
        /\ pos' = PagesBefore * PageSize /\ got' = 0 /\ total' = total /\ rows' = rows
    BY <1>4 DEF Open, kept
  <2>2. op.walk = "tree" => pages < MaxPages /\ ~op.late /\ ~op.resumes /\ op.more = "link"
    BY <1>1, <1>2, <2>1 DEF Stopped, RowOK
  <2>3. op.more \in {"no", "count"} => ~op.resumes /\ total = Unknown
    BY <1>1, <2>1 DEF RowOK, Told, Placed, Flat
  <2>4. Flat => rows = <<>>
    BY <1>1, <2>1 DEF Placed
  <2>5. pages' < MaxPages /\ pages' \in Nat /\ (op.walk # "tree" => pages' = PagesBefore)
    BY <1>1, <1>3, <2>1, <2>2
  <2>6. op.resumes => pages' = PagesBefore
    BY <2>2, <2>5
  <2> QED
    BY <1>1, <1>2, <1>3, <2>1, <2>3, <2>4, <2>5, <2>6 DEF Turned
<1>5. CASE Fetch
  <2>1. PICK t \in Nat \cup {Unknown}, g \in Nat : PageHolds(t, g) /\ PageRead(t, g)
    BY <1>1, <1>5, Fetched
  <2>2. pages' = pages + 1 /\ pages <= MaxPages /\ (pages = MaxPages => op.late)
        /\ (op.resumes => pages >= PagesBefore)
    BY <1>1, <1>5, <2>1 DEF PageRead, Turned, Fetch
  <2>3. pc' = "open" \/ (pc' = "examine" /\ ~(op.late /\ pages >= MaxPages))
    BY <1>1, <2>1, Cuts DEF PageRead, Fail
  <2> QED
    BY <1>1, <1>2, <1>3, <2>2, <2>3 DEF Turned
<1>6. CASE TurnPage
  <2>1. /\ pc = "examine" /\ pc' = "fetch" /\ ~Exhausted /\ ~AtPageLimit
        /\ pages' = pages /\ pos' = pos /\ got' = got /\ total' = total
    BY <1>6 DEF TurnPage, PageDone, reading
  <2>2. op.more \notin {"no", "count"}
    BY <2>1 DEF Exhausted
  <2> QED
    BY <1>1, <1>2, <1>3, <2>1, <2>2 DEF Turned, AtPageLimit
<1>7. CASE Leaves
  BY <1>1, <1>7 DEF Leaves, Turned
<1>8. CASE Looks
  BY <1>1, <1>8 DEF Looks, Turned
<1> QED
  BY <1>4, <1>5, <1>6, <1>7, <1>8, Kinds

\* How a page that was just read tells of the list.
LEMMA PageTells ==
    ASSUME JobOK, TypeOK, Placed, Turned, Told, pc = "fetch", pc' = "examine",
           NEW t \in Nat \cup {Unknown}, NEW g \in Nat, PageHolds(t, g), PageRead(t, g)
    PROVE  /\ got' = g /\ total' = (IF op.more = "short" /\ t = Unknown THEN total ELSE t)
           /\ here' = here /\ job' = job /\ Size(Here) \in Nat
           /\ pos' \in Nat /\ left' \in Nat
           /\ pos' + left' <= pos + g
           /\ ~op.cuts => pos' + left' = pos + g
           /\ op.cuts /\ ~CutUnseen => pos' + left' = pos + g
           /\ Behind(Size(Here)) = g => pos + g >= Size(Here)
           /\ g = 0 /\ Behind(Size(Here)) = 0 => pos + g >= Size(Here)
           /\ op.more = "link" /\ ~next' => pos + g >= Size(Here)
           /\ ~CutUnseen => Looked(g) = g
<1>1. /\ Skipped \in Nat /\ Looked(g) \in Nat /\ Looked(g) <= g /\ (Skipped <= g => Skipped <= Looked(g))
      /\ ~op.cuts => Looked(g) = g
      /\ op.cuts /\ g <= MaxWeight => Looked(g) = g
  BY SkippedAtStart
<1>2. /\ Size(Here) \in Nat /\ Behind(Size(Here)) \in Nat /\ pos + Behind(Size(Here)) >= Size(Here)
      /\ Behind(Size(Here)) <= Size(Here) /\ g <= Behind(Size(Here)) /\ pos \in Nat
  BY AskedPositive, BehindNat DEF PageHolds, TypeOK
<1>3. /\ got' = g /\ total' = (IF op.more = "short" /\ t = Unknown THEN total ELSE t)
      /\ here' = here /\ job' = job /\ Skipped <= g
      /\ left' = Looked(g) - Skipped
      /\ pos' = pos + Skipped + (IF op.keeps = "tail" THEN g - Looked(g) ELSE 0)
      /\ next' \in Names(Behind(Size(Here)) - g)
  <2>1. ~Fail /\ ~Cut
    BY Cuts DEF Fail
  <2> QED
    BY <2>1 DEF PageRead
<1>4. pos' \in Nat /\ left' \in Nat /\ pos' + left' <= pos + g
      /\ (Looked(g) = g => pos' + left' = pos + g)
  BY <1>1, <1>2, <1>3
<1>5. op.cuts /\ ~CutUnseen => Looked(g) = g
  <2>1. ASSUME op.cuts, ~CutUnseen PROVE g <= MaxWeight
    <3>1. Here = 1 /\ Size(1) <= MaxWeight
      <4>1. Here = 1
        BY <2>1 DEF Placed, Flat, JobOK, RowOK
      <4>2. Size(1) \in Nat /\ MaxWeight \in Nat
        BY <1>2, <4>1, ListingAssumption
      <4> QED
        BY <2>1, <4>1, <4>2 DEF CutUnseen
    <3>2. g <= Size(Here) /\ MaxWeight \in Nat
      BY <1>2, ListingAssumption
    <3> QED
      BY <1>2, <3>1, <3>2
  <2> QED
    BY <1>1, <2>1
<1>6. op.more = "link" /\ ~next' => pos + g >= Size(Here)
  <2> SUFFICES ASSUME op.more = "link", ~next' PROVE pos + g >= Size(Here)
    OBVIOUS
  <2>1. next' = (Behind(Size(Here)) - g > 0)
    BY <1>3 DEF Names
  <2>2. ~(Behind(Size(Here)) - g > 0)
    BY <2>1
  <2> QED
    BY <1>2, <2>2
<1> QED
  BY <1>1, <1>2, <1>3, <1>4, <1>5, <1>6

LEMMA Addend == ASSUME NEW a \in Nat, NEW b \in Nat, NEW c \in Nat, a + b = c PROVE a <= c
OBVIOUS

LEMMA ToldStep == ASSUME Listed, Next, pc' # "done" PROVE Told'
<1>1. /\ JobOK /\ TypeOK /\ RowOK(op) /\ Placed /\ Turned /\ Told /\ job' = job /\ op' = op
      /\ (Flat' <=> Flat) /\ pc # "done" /\ (CutUnseen' <=> CutUnseen)
      /\ pos \in Nat /\ left \in Nat /\ got \in Nat
      /\ Size(1)' = Size(1)
  BY Moves DEF Underway, Flat, TypeOK, CutUnseen, Size
<1>2. ASSUME here' = here PROVE Size(Here)' = Size(Here) /\ Asked' = Asked
  BY <1>1, <1>2 DEF Size, Here, Asked
<1>3. CASE Open
  <2>1. /\ pc' = "fetch" /\ pos' = PagesBefore * PageSize /\ got' = 0 /\ total' = total
    BY <1>3 DEF Open
  <2>2. op.more = "count" => pos' = 0
    BY <1>1, <2>1, Origin DEF RowOK
  <2> QED
    BY <1>1, <2>1, <2>2 DEF Told
<1>4. CASE Fetch
  <2>1. PICK t \in Nat \cup {Unknown}, g \in Nat : PageHolds(t, g) /\ PageRead(t, g)
    BY <1>1, <1>4, Fetched
  <2>2. pc' = "open" \/ pc' = "examine"
    BY <1>1, <2>1, Cuts DEF PageRead, Fail
  <2>3. pc = "fetch" /\ here' = here /\ got' = g
        /\ total' = (IF op.more = "short" /\ t = Unknown THEN total ELSE t)
    BY <1>4, <2>1 DEF Fetch, PageRead
  <2>4. /\ op.more \in {"count", "total", "short"} => Flat /\ Here = 1
        /\ t # Unknown => op.more \in {"count", "total", "short"} /\ t = Size(1)
        /\ op.more = "total" => t = Size(1)
    <3>1. op.more \in {"count", "total", "short"} => Flat /\ Here = 1
      BY <1>1 DEF RowOK, Flat, Placed
    <3> QED
      BY <3>1, <2>1 DEF PageHolds, Announces
  <2>5. Size(1) \in Nat /\ Unknown \notin Nat
    <3>1. 1 \in Source
      BY ListingAssumption DEF Source
    <3> QED
      BY <1>1, <3>1, ListingAssumption DEF JobOK, Size
  <2>6. total' # Unknown => op.more \in {"count", "total", "short"} /\ total' = Size(1)
    BY <1>1, <2>3, <2>4 DEF Told
  <2>7. CASE pc' = "open"
    <3>1. op.more # "count"
      BY <1>1, <2>1, <2>7 DEF PageRead, RowOK, Fail
    <3> QED
      BY <1>1, <2>6, <2>7, <3>1 DEF Told
  <2>8. CASE pc' = "examine"
    <3>1. /\ Size(Here) \in Nat
          /\ pos' \in Nat /\ left' \in Nat
          /\ pos' + left' <= pos + g
          /\ ~op.cuts => pos' + left' = pos + g
          /\ op.cuts /\ ~CutUnseen => pos' + left' = pos + g
          /\ Behind(Size(Here)) = g => pos + g >= Size(Here)
          /\ g = 0 /\ Behind(Size(Here)) = 0 => pos + g >= Size(Here)
          /\ op.more = "link" /\ ~next' => pos + g >= Size(Here)
      BY <1>1, <2>1, <2>3, <2>8, PageTells
    <3>2. /\ Ends' <=> pos' + left' >= Size(Here)
          /\ Short' <=> g < Asked
          /\ FullAnswer' <=> op.asks = "limit" /\ g >= job.limit
      BY <1>1, <1>2, <2>3 DEF Ends, Short, FullAnswer
    <3>3. /\ op.asks = "limit" => Asked = job.limit /\ Asked > 0
          /\ op.asks = "all" => Asked = Size(Here)
          /\ op.asks = "page" => Asked > 0
          /\ Asked \in Nat
      BY <1>1, AskedPositive
    <3>4. /\ op.more \in {"no", "header"} \/ (op.more \in {"count", "short"} /\ t = Unknown) =>
                 g = Behind(Size(Here)) \/ g = Asked
          /\ op.more = "total" \/ (op.more = "short" /\ t # Unknown) => (g = 0 => Behind(Size(Here)) = 0)
          /\ g <= Asked
      BY <2>1 DEF PageHolds
    <3>5. op.more \in {"no", "count"} => pos = 0 /\ pos + g = g
      <4>1. pos = 0 => pos + g = g
        OBVIOUS
      <4> QED
        BY <1>1, <2>3, <4>1 DEF Turned
    <3>6. CASE op.more = "no"
      <4>1. ~CutUnseen => pos' + left' = g
        BY <1>1, <3>1, <3>5, <3>6
      <4>2. op.asks = "all" \/ op.asks = "limit"
        BY <1>1, <3>6 DEF RowOK
      <4>3. CASE g = Asked
        <5>1. op.asks = "all" => g = Size(Here)
          BY <3>3, <4>3
        <5>2. op.asks = "limit" => FullAnswer'
          BY <3>2, <3>3, <4>3
        <5> QED
          BY <1>1, <2>6, <3>1, <3>2, <3>6, <4>1, <4>2, <5>1, <5>2 DEF Told
      <4>4. CASE g # Asked
        <5>1. g >= Size(Here)
          BY <3>1, <3>4, <3>5, <3>6, <4>4
        <5> QED
          BY <1>1, <2>6, <3>1, <3>2, <3>6, <4>1, <5>1 DEF Told
      <4> QED
        BY <4>3, <4>4
    <3>7. CASE op.more = "count"
      <4>1. op.asks = "all" /\ ~op.cuts /\ Here = 1
        BY <1>1, <2>4, <3>7 DEF RowOK
      <4>2. pos' + left' = g /\ pos' <= g
        <5>1. pos' + left' = g
          BY <3>1, <3>5, <3>7, <4>1
        <5>2. g \in Nat /\ pos' \in Nat /\ left' \in Nat
          BY <2>1, <3>1
        <5>3. pos' <= g
          BY <5>1, <5>2, Addend
        <5> QED
          BY <5>1, <5>3
      <4>3. t = Unknown => g >= Size(Here)
        BY <3>1, <3>3, <3>4, <3>5, <3>7, <4>1
      <4>4. t # Unknown => total' = t /\ t = Size(Here) /\ g <= t
        BY <2>3, <2>4, <3>3, <3>4, <3>7, <4>1
      <4>5. g >= Size(Here) \/ (total' # Unknown /\ total' > g)
        BY <2>1, <3>1, <4>3, <4>4
      <4>6. Ends' \/ (total' # Unknown /\ total' > got')
        BY <2>3, <3>2, <4>2, <4>5
      <4> QED
        BY <1>1, <2>3, <2>6, <3>2, <3>7, <4>2, <4>5, <4>6 DEF Told
    <3>8. CASE op.more = "total"
      <4>1. ~op.cuts /\ total' # Unknown
        BY <1>1, <2>3, <2>4, <2>5, <3>8 DEF RowOK
      <4> QED
        BY <1>1, <2>3, <2>6, <3>1, <3>2, <3>4, <3>8, <4>1 DEF Told
    <3>9. CASE op.more = "short"
      <4>1. ~op.cuts /\ op.asks = "limit"
        BY <1>1, <3>9 DEF RowOK
      <4>2. g = 0 => Ends'
        <5>1. g = 0 => g = Behind(Size(Here))
          BY <3>3, <3>4, <3>9, <4>1
        <5> QED
          BY <3>1, <3>2, <4>1, <5>1
      <4>3. total' = Unknown /\ Short' => Ends'
        <5>1. total' = Unknown => t = Unknown
          BY <2>3, <2>1
        <5>2. t = Unknown /\ g < Asked => g = Behind(Size(Here))
          BY <3>3, <3>4, <3>9
        <5> QED
          BY <3>1, <3>2, <4>1, <5>1, <5>2
      <4> QED
        BY <1>1, <2>3, <2>6, <3>9, <4>2, <4>3 DEF Told
    <3>10. CASE op.more = "header"
      <4>1. ~op.cuts
        BY <1>1, <3>10 DEF RowOK
      <4>2. Short' => g = Behind(Size(Here))
        BY <3>2, <3>3, <3>4, <3>10
      <4> QED
        BY <1>1, <2>6, <3>1, <3>2, <3>10, <4>1, <4>2 DEF Told
    <3>11. CASE op.more = "link"
      <4>1. ~op.cuts
        BY <1>1, <3>11 DEF RowOK
      <4> QED
        BY <1>1, <2>6, <3>1, <3>2, <3>11, <4>1 DEF Told
    <3> QED
      BY <1>1, <3>6, <3>7, <3>8, <3>9, <3>10, <3>11 DEF RowOK
  <2> QED
    BY <2>2, <2>7, <2>8
<1>5. CASE TurnPage
  BY <1>1, <1>5 DEF TurnPage, Told, reading
<1>6. CASE Leaves
  BY <1>1, <1>6 DEF Leaves, Told
<1>7. CASE Looks
  <2>1. pos' + left' = pos + left /\ here' = here /\ got' = got /\ next' = next /\ total' = total
        /\ pc = "examine"
    BY <1>1, <1>7 DEF Looks
  <2>2. /\ Ends' <=> Ends
        /\ Short' <=> Short
        /\ FullAnswer' <=> FullAnswer
    BY <1>1, <1>2, <2>1 DEF Ends, Short, FullAnswer
  <2>3. op.more = "count" => pos' <= got
    BY <1>1, <1>7 DEF Looks, Told
  <2> QED
    BY <1>1, <2>1, <2>2, <2>3 DEF Told
<1> QED
  BY <1>3, <1>4, <1>5, <1>6, <1>7, Kinds

-----------------------------------------------------------------------------
(* Steps: what is cut off.                                                 *)

LEMMA CutIsTrueStep == ASSUME Listed, Next, pc' # "done" PROVE CutIsTrue'
<1>1. /\ JobOK /\ TypeOK /\ RowOK(op) /\ Placed /\ Told /\ job' = job /\ op' = op
      /\ (Flat' <=> Flat) /\ Size(1)' = Size(1)
  BY Moves DEF Underway, Flat, Size
<1>2. CASE ~Flat
  BY <1>1, <1>2 DEF CutIsTrue
<1>3. ASSUME Flat, ~truncated'
      PROVE  CutIsTrue'
  BY <1>1, <1>3 DEF CutIsTrue
<1>4. ASSUME Flat, truncated'
      PROVE  \/ op.more \notin {"no", "short", "total"} /\ op.asks # "all"
             \/ op.stop # "after" /\ pos' < Size(1)
  <2>1. op.walk = "flat" /\ ~Categories
    BY <1>4 DEF Flat, Categories
  <2>2. /\ Size(1) \in Nat /\ pos \in Nat /\ left \in Nat
        /\ Busy => Here = 1 /\ ~truncated
        /\ pc = "examine" /\ left > 0 => pos < Size(1)
        /\ pc \in {"resolve"} \/ queue # <<>> => ~truncated
    <3>1. 1 \in Source
      BY ListingAssumption DEF Source
    <3>2. Size(1) \in Nat /\ pos \in Nat /\ left \in Nat
      BY <1>1, <3>1 DEF JobOK, Size, TypeOK
    <3>3. /\ Here = 1 /\ (truncated => pc = "open" /\ queue = <<>>)
          /\ left > 0 => pos + left <= Size(1)
      BY <1>1, <1>4 DEF Placed
    <3> QED
      BY <3>2, <3>3 DEF Busy
  <2>3. CASE Resolve \/ Open \/ TurnPage \/ EndList \/ SkipEntry
    BY <1>4, <2>2, <2>3 DEF Resolve, Open, TurnPage, EndList, SkipEntry, PageDone, Busy, outcome
  <2>4. CASE Stop
    BY <1>1, <2>1, <2>4 DEF Stop, Stopped, RowOK
  <2>5. CASE Fetch
    <3>1. PICK t \in Nat \cup {Unknown}, g \in Nat : PageHolds(t, g) /\ PageRead(t, g)
      BY <1>1, <2>5, Fetched
    <3>2. ~truncated
      BY <2>2, <2>5 DEF Fetch, Busy
    <3>3. op.late
      BY <1>4, <3>1, <3>2 DEF PageRead
    <3> QED
      BY <1>1, <2>1, <3>3 DEF RowOK
  <2>6. CASE FetchFails
    BY <1>4, <2>2, <2>6 DEF FetchFails, Busy
  <2>7. CASE Unreadable \/ SkipHeavy
    BY <1>1, <2>1, <2>7 DEF Unreadable, SkipHeavy, RowOK
  <2>8. CASE Overflow
    BY <2>2, <2>8 DEF Overflow, Exceeds, TooHeavy, reading
  <2>9. CASE Drop
    BY <1>4, <2>2, <2>9 DEF Drop, Busy, outcome
  <2>10. CASE Refuse
    BY <1>4, <2>2, <2>10 DEF Refuse, Busy
  <2>11. CASE Examine
    <3>1. EntryRead
      BY <1>1, <2>11, Examined
    <3>2. ~truncated /\ ~Follows
      BY <2>1, <2>2, <2>11 DEF Examine, Busy, Follows
    <3>3. Reaches(rows') /\ op.beyond = "cut" /\ pos + 1 < total /\ pos' = pos + 1 /\ pc = "examine"
      BY <1>4, <3>1, <3>2 DEF EntryRead
    <3>4. op.stop = "reached" /\ op.more = "total" /\ total = Size(1)
      BY <1>1, <3>3 DEF Reaches, RowOK, Told
    <3> QED
      BY <3>3, <3>4
  <2>12. CASE HitPageLimit
    <3>1. ~truncated /\ pc = "examine" /\ pos' = pos /\ ~Exhausted
      BY <2>2, <2>12 DEF HitPageLimit, PageDone, Busy, reading
    <3>2. op.more # "short"
      BY <1>4, <2>12, <3>1 DEF HitPageLimit
    <3>3. op.more \notin {"no", "count"}
      BY <3>1 DEF Exhausted
    <3>4. CASE op.more = "total"
      <4>1. total = Size(1) /\ op.stop = "reached"
        BY <1>1, <3>1, <3>4 DEF Told, RowOK
      <4>2. ~(pos >= total)
        BY <3>1, <3>4 DEF Exhausted
      <4> QED
        BY <2>2, <3>1, <4>1, <4>2
    <3>5. CASE op.more \in {"header", "link"}
      BY <1>1, <3>5 DEF RowOK
    <3> QED
      BY <1>1, <3>2, <3>3, <3>4, <3>5 DEF RowOK
  <2>13. ~EndCategory /\ ~GiveUp /\ ~Answer
    BY <2>1 DEF EndCategory, Categories, GiveUp, Fail, Answer
  <2> QED
    BY <2>3, <2>4, <2>5, <2>6, <2>7, <2>8, <2>9, <2>10, <2>11, <2>12, <2>13 DEF Next
<1> QED
  BY <1>1, <1>2, <1>3, <1>4 DEF CutIsTrue

-----------------------------------------------------------------------------
(* Steps: nothing twice.                                                   *)

Distinct == \A i, j \in 1 .. Len(queue) : queue[i].list = queue[j].list => i = j

LEMMA Opened ==
    ASSUME TypeOK, Distinct, queue # <<>>, here' = Head(queue), queue' = Tail(queue)
    PROVE  Here' \in Waiting /\ Waiting = Waiting' \cup {Here'} /\ Here' \notin Waiting' /\ Distinct'
<1>1. queue \in Seq(Visit) /\ Len(queue) \in Nat \ {0}
  BY DEF TypeOK
<1>2. Here' = queue[1].list /\ Len(queue') = Len(queue) - 1
      /\ \A k \in 1 .. Len(queue') : queue'[k] = queue[k + 1]
  BY <1>1 DEF Here
<1>3. Waiting = Waiting' \cup {Here'}
  <2>1. \A s \in Waiting' \cup {Here'} : s \in Waiting
    BY <1>1, <1>2 DEF Waiting
  <2>2. ASSUME NEW k \in 1 .. Len(queue) PROVE queue[k].list \in Waiting' \cup {Here'}
    <3>1. CASE k = 1
      BY <1>2, <3>1
    <3>2. CASE k # 1
      <4>1. k - 1 \in 1 .. Len(queue') /\ queue'[k - 1] = queue[k]
        BY <1>1, <1>2, <3>2
      <4> QED
        BY <4>1 DEF Waiting
    <3> QED
      BY <3>1, <3>2
  <2> QED
    BY <2>1, <2>2 DEF Waiting
<1>4. Here' \notin Waiting'
  <2>1. \A k \in 1 .. Len(queue') : k + 1 \in 1 .. Len(queue) /\ k + 1 # 1 /\ 1 \in 1 .. Len(queue)
    BY <1>1, <1>2
  <2> QED
    BY <1>2, <2>1 DEF Waiting, Distinct
<1>5. Distinct'
  <2>1. ASSUME NEW i \in 1 .. Len(queue'), NEW j \in 1 .. Len(queue'), queue'[i].list = queue'[j].list
        PROVE  i = j
    <3>1. i + 1 \in 1 .. Len(queue) /\ j + 1 \in 1 .. Len(queue) /\ i \in Nat /\ j \in Nat
      BY <1>1, <1>2
    <3>2. i + 1 = j + 1
      BY <1>2, <2>1, <3>1 DEF Distinct
    <3> QED
      BY <3>1, <3>2
  <2> QED
    BY <2>1 DEF Distinct
<1> QED
  BY <1>3, <1>4, <1>5

LEMMA Queued ==
    ASSUME TypeOK, Distinct, NEW e \in Visit, queue' = Append(queue, e), e.list \notin Waiting
    PROVE  Waiting' = Waiting \cup {e.list} /\ Distinct'
<1> DEFINE n == Len(queue)
<1>1. queue \in Seq(Visit) /\ n \in Nat
  BY DEF TypeOK
<1>2. Len(queue') = n + 1 /\ queue'[n + 1] = e /\ \A k \in 1 .. n : queue'[k] = queue[k]
  BY <1>1
<1> HIDE DEF n
<1>3. \A k \in 1 .. Len(queue') : k \in 1 .. n \/ k = n + 1
  BY <1>1, <1>2
<1>4. \A k \in 1 .. n : k \in 1 .. Len(queue') /\ k # n + 1
  BY <1>1, <1>2
<1>5. n + 1 \in 1 .. Len(queue')
  BY <1>1, <1>2
<1>6. Waiting = {queue[k].list : k \in 1 .. n} /\ Waiting' = {queue'[k].list : k \in 1 .. Len(queue')}
  BY DEF Waiting, n
<1>7. Waiting' = Waiting \cup {e.list}
  BY <1>2, <1>3, <1>4, <1>5, <1>6
<1>8. \A k \in 1 .. n : queue[k].list # e.list
  BY <1>6
<1>9. \A i, j \in 1 .. n : queue[i].list = queue[j].list => i = j
  BY DEF Distinct, n
<1>10. Distinct'
  BY <1>2, <1>3, <1>8, <1>9 DEF Distinct
<1> QED
  BY <1>7, <1>10

\* Only Examine adds a row; what others leave is the beginning of the rows.
LEMMA Keeps ==
    ASSUME Listed, Next, pc' # "done"
    PROVE  \/ Examine
           \/ Len(rows') <= Len(rows) /\ \A k \in 1 .. Len(rows') : rows'[k] = rows[k]
<1> USE DEF kept
<1>1. TypeOK /\ rows \in Seq(Source \X Nat) /\ Len(rows) \in Nat
  BY Moves DEF TypeOK
<1>2. Len(Before) <= Len(rows) /\ \A k \in 1 .. Len(Before) : Before[k] = rows[k]
  BY <1>1, NormalBounds
<1>3. Resolve \/ Open \/ Stop \/ Fetch \/ Unreadable \/ Overflow \/ SkipEntry \/ SkipHeavy \/ Drop
      \/ TurnPage \/ HitPageLimit \/ EndList => rows' = rows
  BY DEF Resolve, Open, Stop, Fetch, Unreadable, Overflow, SkipEntry, SkipHeavy, Drop, TurnPage,
     HitPageLimit, EndList
<1>4. FetchFails \/ Refuse => rows' = rows \/ rows' = Before
  BY DEF FetchFails, Refuse, Fail
<1>5. EndCategory => \/ rows' = Before
                     \/ \E n \in 0 .. Len(rows) : rows' = SubSeq(rows, 1, n)
  <2> SUFFICES ASSUME EndCategory
               PROVE  rows' = Before \/ \E n \in 0 .. Len(rows) : rows' = SubSeq(rows, 1, n)
    OBVIOUS
  <2> DEFINE room == Smaller(Normal, job.limit - (examined - pos))
  <2>1. rows' = Before \/ rows' = SubSeq(rows, 1, Len(Before) + room)
    BY DEF EndCategory
  <2>2. Categories /\ Busy
    BY DEF EndCategory, PageDone, Busy
  <2>3. JobOK /\ Kept
    BY Moves DEF Underway
  <2>4. Normal \in Nat /\ Normal <= Len(rows) /\ Len(Before) = Len(rows) - Normal
    BY <1>1, NormalBounds
  <2>5. room \in Nat /\ room <= Normal
    BY <1>1, <2>2, <2>3, <2>4 DEF Kept, Smaller, JobOK, TypeOK
  <2> HIDE DEF room
  <2>6. Len(Before) + room \in 0 .. Len(rows)
    BY <1>1, <2>4, <2>5
  <2> QED
    BY <2>1, <2>6
<1>6. ~GiveUp /\ ~Answer
  BY DEF GiveUp, Answer, Fail
<1> QED
  BY <1>1, <1>2, <1>3, <1>4, <1>5, <1>6, Prefix DEF Next

LEMMA ApartStep == ASSUME Listed, Next, pc' # "done" PROVE Apart'
<1>1. /\ JobOK /\ TypeOK /\ RowOK(op) /\ Placed /\ Told /\ Apart /\ job' = job /\ op' = op
      /\ pc # "done" /\ job.wanted' = job.wanted
  BY Moves DEF Underway
<1>2. /\ rows \in Seq(Source \X Nat) /\ Len(rows) \in Nat /\ pos \in Nat /\ Distinct
      /\ \A k \in 1 .. Len(rows) : rows[k] \in Source \X Nat
      /\ dropped \subseteq PlacesOf(job.holds)
  BY <1>1 DEF TypeOK, Apart, Distinct
<1>3. ASSUME queue' = queue PROVE Waiting' = Waiting /\ Distinct'
  BY <1>2, <1>3 DEF Waiting, Distinct
<1>4. ASSUME queue' = <<>> PROVE Waiting' = {} /\ Distinct'
  BY <1>4 DEF Waiting, Distinct
<1>5. ASSUME here' = here PROVE Here' = Here
  BY <1>5 DEF Here
<1>6. /\ \A i, j \in 1 .. Len(rows) : rows[i] = rows[j] => i = j
      /\ \A k \in 1 .. Len(rows) : rows[k] \in job.wanted /\ rows[k] \notin dropped /\ rows[k][1] \notin Waiting
      /\ Busy => \A k \in 1 .. Len(rows) : rows[k][1] = Here => rows[k][2] <= pos
      /\ \A place \in dropped : place[1] \notin Waiting
      /\ Busy => \A place \in dropped : place[1] = Here => place[2] <= pos
      /\ Busy => Here \notin Waiting
  BY <1>1 DEF Apart
<1>7. op.walk = "tree" =>
         /\ Waiting \subseteq seen /\ (Busy => Here \in seen) /\ dropped = {}
         /\ \A k \in 1 .. Len(rows) : rows[k][1] \in seen
  BY <1>1 DEF Apart, Pending
\* Steps that add no row.
<1>8. ASSUME \/ Len(rows') <= Len(rows) /\ \A k \in 1 .. Len(rows') : rows'[k] = rows[k],
             rows' \in Seq(Source \X Nat)
      PROVE  /\ \A i, j \in 1 .. Len(rows') : rows'[i] = rows'[j] => i = j
             /\ \A k \in 1 .. Len(rows') : \E n \in 1 .. Len(rows) : rows'[k] = rows[n]
  <2>1. \A k \in 1 .. Len(rows') : k \in 1 .. Len(rows)
    BY <1>2, <1>8
  <2> QED
    BY <1>6, <1>8, <2>1
<1>9. rows' \in Seq(Source \X Nat) /\ pos' \in Nat
  BY TypeStep DEF TypeOK
<1>10. CASE Open
  <2>1. /\ queue # <<>> /\ here' = Head(queue) /\ queue' = Tail(queue) /\ pc' = "fetch"
        /\ rows' = rows /\ dropped' = dropped /\ seen' = seen
    BY <1>10 DEF Open, kept
  <2>2. Here' \in Waiting /\ Waiting = Waiting' \cup {Here'} /\ Here' \notin Waiting' /\ Distinct'
    BY <1>1, <1>2, <2>1, Opened
  <2>3. \A k \in 1 .. Len(rows') :
           /\ rows'[k] \in job.wanted' \ dropped' /\ rows'[k][1] \notin Waiting'
           /\ rows'[k][1] # Here'
    BY <1>1, <1>6, <2>1, <2>2
  <2>4. \A place \in dropped' : place[1] \notin Waiting' /\ place[1] # Here'
    BY <1>6, <2>1, <2>2
  <2>5. op.walk = "tree" => Pending' \subseteq seen' /\ dropped' = {} /\ \A k \in 1 .. Len(rows') : rows'[k][1] \in seen'
    BY <1>7, <2>1, <2>2 DEF Pending
  <2>6. \A i, j \in 1 .. Len(rows') : rows'[i] = rows'[j] => i = j
    BY <1>6, <2>1
  <2> QED
    BY <1>1, <2>2, <2>3, <2>4, <2>5, <2>6 DEF Apart, Distinct
<1>11. CASE Fetch
  <2>1. PICK t \in Nat \cup {Unknown}, g \in Nat : PageHolds(t, g) /\ PageRead(t, g)
    BY <1>1, <1>11, Fetched
  <2>2. /\ Skipped \in Nat /\ Looked(g) \in Nat /\ Looked(g) <= g
    BY <1>1, SkippedAtStart
  <2>3. /\ here' = here /\ rows' = rows /\ dropped' = dropped /\ seen' = seen /\ Busy
    BY <1>11, <2>1 DEF PageRead, Fetch, Busy
  <2>4. pos' >= pos /\ (queue' = queue \/ queue' = <<>>)
    BY <1>1, <1>2, <2>1, <2>2, Cuts DEF PageRead, Fail
  <2>5. Here' = Here /\ Waiting' \subseteq Waiting /\ Distinct'
    BY <1>3, <1>4, <1>5, <2>3, <2>4
  <2>6. \A k \in 1 .. Len(rows') :
           /\ rows'[k] \in job.wanted' \ dropped' /\ rows'[k][1] \notin Waiting'
           /\ rows'[k][1] = Here' => rows'[k][2] <= pos'
    <3>1. \A k \in 1 .. Len(rows) : rows[k][1] = Here => rows[k][2] <= pos /\ rows[k][2] \in Nat
      BY <1>2, <1>6, <2>3
    <3> QED
      BY <1>1, <1>2, <1>6, <1>9, <2>3, <2>4, <2>5, <3>1
  <2>7. \A place \in dropped' : place[1] \notin Waiting' /\ (place[1] = Here' => place[2] <= pos')
    <3>1. \A place \in dropped : place[1] = Here => place[2] <= pos /\ place[2] \in Nat
      BY <1>2, <1>6, <2>3 DEF PlacesOf
    <3> QED
      BY <1>2, <1>6, <1>9, <2>3, <2>4, <2>5, <3>1
  <2>8. op.walk = "tree" => Pending' \subseteq seen' /\ dropped' = {} /\ \A k \in 1 .. Len(rows') : rows'[k][1] \in seen'
    BY <1>7, <2>3, <2>5 DEF Pending
  <2>9. \A i, j \in 1 .. Len(rows') : rows'[i] = rows'[j] => i = j
    BY <1>6, <2>3
  <2> QED
    BY <1>1, <1>6, <2>3, <2>5, <2>6, <2>7, <2>8, <2>9 DEF Apart, Distinct
<1>12. CASE TurnPage
  <2>1. /\ here' = here /\ rows' = rows /\ dropped' = dropped /\ seen' = seen /\ Busy /\ queue' = queue /\ pos' = pos
    BY <1>12 DEF TurnPage, PageDone, Busy, reading, kept
  <2>2. Here' = Here /\ Waiting' = Waiting /\ Distinct'
    BY <1>3, <1>5, <2>1
  <2>3. op.walk = "tree" => Pending' \subseteq seen' /\ dropped' = {} /\ \A k \in 1 .. Len(rows') : rows'[k][1] \in seen'
    BY <1>7, <2>1, <2>2 DEF Pending
  <2> QED
    BY <1>1, <1>6, <2>1, <2>2, <2>3 DEF Apart, Distinct
<1>13. CASE Leaves
  <2>1. /\ here' = here /\ dropped' = dropped /\ seen' = seen /\ ~Busy' /\ (queue' = queue \/ queue' = <<>>)
        /\ pos' = pos
    BY <1>13 DEF Leaves, Busy
  <2>2. Waiting' \subseteq Waiting /\ Distinct'
    BY <1>3, <1>4, <2>1
  <2>3. ~Examine \/ rows' = rows
    <3>1. Examine => pos' = pos + 1
      BY DEF Examine
    <3>2. pos # pos + 1
      BY <1>2
    <3> QED
      BY <2>1, <3>1, <3>2
  <2>4. Len(rows') <= Len(rows) /\ \A k \in 1 .. Len(rows') : rows'[k] = rows[k]
    BY <1>2, <2>3, Keeps
  <2>5. /\ \A i, j \in 1 .. Len(rows') : rows'[i] = rows'[j] => i = j
        /\ \A k \in 1 .. Len(rows') : \E n \in 1 .. Len(rows) : rows'[k] = rows[n]
    BY <1>8, <1>9, <2>4
  <2>6. \A k \in 1 .. Len(rows') : rows'[k] \in job.wanted' \ dropped' /\ rows'[k][1] \notin Waiting'
    BY <1>1, <1>6, <2>1, <2>2, <2>5
  <2>7. \A place \in dropped' : place[1] \notin Waiting'
    BY <1>6, <2>1, <2>2
  <2>8. op.walk = "tree" => Pending' \subseteq seen' /\ dropped' = {} /\ \A k \in 1 .. Len(rows') : rows'[k][1] \in seen'
    BY <1>7, <2>1, <2>2, <2>5 DEF Pending
  <2> QED
    BY <1>1, <2>1, <2>2, <2>5, <2>6, <2>7, <2>8 DEF Apart, Distinct
<1>14. CASE SkipEntry \/ SkipHeavy \/ Drop
  <2>1. /\ here' = here /\ seen' = seen /\ Busy /\ queue' = queue /\ pos' = pos + 1 /\ rows' = rows
        /\ dropped' = dropped \/ (dropped' = dropped \cup {<<Here, pos + 1>>} /\ op.walk # "tree")
    <3>1. op.walk = "tree" => ~Drop
      BY <1>1 DEF RowOK, NoneDropped, Drop, Verdicts
    <3> QED
      BY <1>14, <3>1 DEF SkipEntry, SkipHeavy, Drop, Busy
  <2>2. Here' = Here /\ Waiting' = Waiting /\ Distinct'
    BY <1>3, <1>5, <2>1
  <2>3. \A k \in 1 .. Len(rows) : rows[k][1] = Here => rows[k][2] <= pos /\ rows[k][2] \in Nat /\ rows[k][2] <= pos + 1
    BY <1>2, <1>6, <2>1
  <2>4. \A k \in 1 .. Len(rows) : rows[k] # <<Here, pos + 1>>
    <3>1. ~(pos + 1 <= pos)
      BY <1>2
    <3> QED
      BY <2>3, <3>1
  <2>5. \A k \in 1 .. Len(rows') :
           /\ rows'[k] \in job.wanted' \ dropped' /\ rows'[k][1] \notin Waiting'
           /\ rows'[k][1] = Here' => rows'[k][2] <= pos'
    BY <1>1, <1>6, <2>1, <2>2, <2>3, <2>4
  <2>6. \A place \in dropped' : place[1] \notin Waiting' /\ (place[1] = Here' => place[2] <= pos')
    <3>1. \A place \in dropped : place[1] = Here => place[2] <= pos /\ place[2] \in Nat /\ place[2] <= pos + 1
      BY <1>2, <1>6, <2>1 DEF PlacesOf
    <3>2. pos + 1 <= pos + 1
      BY <1>2
    <3> QED
      BY <1>6, <2>1, <2>2, <3>1, <3>2
  <2>7. op.walk = "tree" => Pending' \subseteq seen' /\ dropped' = {} /\ \A k \in 1 .. Len(rows') : rows'[k][1] \in seen'
    BY <1>7, <2>1, <2>2 DEF Pending
  <2>8. \A i, j \in 1 .. Len(rows') : rows'[i] = rows'[j] => i = j
    BY <1>6, <2>1
  <2> QED
    BY <1>1, <1>6, <2>1, <2>2, <2>5, <2>6, <2>7, <2>8 DEF Apart, Distinct
<1>15. CASE Examine
  <2>1. EntryRead
    BY <1>1, <1>15, Examined
  <2>2. /\ here' = here /\ dropped' = dropped /\ Busy /\ pos' = pos + 1 /\ seen \subseteq seen'
        /\ Here' = Here
    BY <1>5, <2>1 DEF EntryRead, Busy
  <2>3. \/ Waiting' = Waiting /\ seen' = seen /\ Distinct'
        \/ /\ op.walk = "tree" /\ Folder \notin seen
           /\ Waiting' = Waiting \cup {Folder} /\ seen' = seen \cup {Folder} /\ Distinct'
    <3>1. CASE ~(Follows /\ Fresh)
      BY <1>3, <2>1, <3>1 DEF EntryRead
    <3>2. CASE Follows /\ Fresh
      <4> DEFINE folder == [list |-> Folder, depth |-> here.depth + 1]
      <4>1. /\ queue' = Append(queue, folder) /\ folder \in Visit /\ seen' = seen \cup {Folder}
            /\ folder.list = Folder
        BY <2>1, <3>2 DEF EntryRead
      <4>2. op.walk = "tree" /\ Folder \notin seen
        BY <3>2 DEF Follows, Fresh
      <4>3. folder.list \notin Waiting
        BY <1>7, <4>1, <4>2
      <4> HIDE DEF folder
      <4>4. Waiting' = Waiting \cup {folder.list} /\ Distinct'
        BY <1>1, <1>2, <4>1, <4>3, Queued
      <4> QED
        BY <4>1, <4>2, <4>4
    <3> QED
      BY <3>1, <3>2
  <2>4. Here' \notin Waiting'
    BY <1>6, <1>7, <2>2, <2>3
  <2>5. \A k \in 1 .. Len(rows) :
           /\ rows[k] \in job.wanted' \ dropped' /\ rows[k][1] \notin Waiting'
           /\ rows[k][1] = Here' => rows[k][2] <= pos /\ rows[k][2] <= pos'
    <3>1. \A k \in 1 .. Len(rows) : rows[k][1] \notin Waiting'
      BY <1>6, <1>7, <2>3
    <3>2. \A k \in 1 .. Len(rows) : rows[k][1] = Here => rows[k][2] <= pos /\ rows[k][2] \in Nat /\ rows[k][2] <= pos + 1
      BY <1>2, <1>6, <2>2
    <3> QED
      BY <1>1, <1>6, <2>2, <3>1, <3>2
  <2>6. \A place \in dropped' :
           /\ place[1] \notin Waiting'
           /\ place[1] = Here' => place[2] <= pos /\ place[2] <= pos'
    <3>1. \A place \in dropped : place[1] \notin Waiting'
      BY <1>6, <1>7, <2>3
    <3>2. \A place \in dropped : place[1] = Here => place[2] <= pos /\ place[2] \in Nat /\ place[2] <= pos + 1
      BY <1>2, <1>6, <2>2 DEF PlacesOf
    <3> QED
      BY <2>2, <3>1, <3>2
  <2>7. op.walk = "tree" => Pending' \subseteq seen' /\ dropped' = {}
    BY <1>7, <2>2, <2>3 DEF Pending
  <2>8. CASE rows' = rows
    BY <1>1, <1>6, <1>7, <2>2, <2>3, <2>4, <2>5, <2>6, <2>7, <2>8 DEF Apart, Distinct
  <2>9. CASE rows' = Append(rows, <<Here, pos + 1>>) /\ Wanted(pos + 1)
    <3> DEFINE n == Len(rows)
               new == <<Here, pos + 1>>
    <3>1. new \in Source \X Nat /\ new[1] = Here /\ new[2] = pos + 1
      BY <1>1, <1>2 DEF TypeOK, Here, Visit
    <3>2. Len(rows') = n + 1 /\ rows'[n + 1] = new /\ \A k \in 1 .. n : rows'[k] = rows[k]
      BY <1>2, <2>9, <3>1
    <3>3. ~(pos + 1 <= pos) /\ pos + 1 <= pos + 1
      BY <1>2
    <3>4. new \in job.wanted' \ dropped'
      BY <1>1, <2>2, <2>6, <2>9, <3>1, <3>3 DEF Wanted
    <3>5. \A k \in 1 .. n : rows[k] # new
      BY <2>2, <2>5, <3>1, <3>3
    <3> HIDE DEF new, n
    <3>6. \A k \in 1 .. Len(rows') : k \in 1 .. n \/ k = n + 1
      BY <1>2, <3>2 DEF n
    <3>7. \A i, j \in 1 .. Len(rows') : rows'[i] = rows'[j] => i = j
      BY <1>6, <3>2, <3>5, <3>6 DEF n
    <3>8. \A k \in 1 .. Len(rows') :
           /\ rows'[k] \in job.wanted' \ dropped' /\ rows'[k][1] \notin Waiting'
           /\ rows'[k][1] = Here' => rows'[k][2] <= pos'
      BY <2>2, <2>4, <2>5, <3>1, <3>2, <3>3, <3>4, <3>6 DEF n
    <3>9. op.walk = "tree" => \A k \in 1 .. Len(rows') : rows'[k][1] \in seen'
      BY <1>7, <2>2, <3>1, <3>2, <3>6 DEF n
    <3> QED
      BY <1>1, <2>3, <2>4, <2>6, <2>7, <3>7, <3>8, <3>9 DEF Apart, Distinct
  <2> QED
    BY <2>1, <2>8, <2>9 DEF EntryRead
<1>16. Looks => SkipEntry \/ SkipHeavy \/ Drop \/ Examine \/ Leaves
  <2> SUFFICES ASSUME Looks PROVE SkipEntry \/ SkipHeavy \/ Drop \/ Examine \/ Leaves
    OBVIOUS
  <2>1. pc = "examine" /\ left > 0 /\ pos' = pos + 1 /\ pos' # pos
    BY <1>2 DEF Looks
  <2>2. ~Resolve /\ ~Open /\ ~Stop /\ ~Fetch /\ ~FetchFails /\ ~GiveUp /\ ~Unreadable /\ ~Answer
    BY <2>1 DEF Resolve, Open, Stop, Fetch, FetchFails, GiveUp, Unreadable, Answer
  <2>3. ~TurnPage /\ ~HitPageLimit /\ ~EndList /\ ~EndCategory
    <3>1. left # 0
      BY <1>1, <2>1 DEF TypeOK
    <3> QED
      BY <3>1 DEF TurnPage, HitPageLimit, EndList, EndCategory, PageDone
  <2>4. ~Overflow /\ ~Refuse
    BY <2>1 DEF Overflow, Refuse, reading
  <2> QED
    BY <2>2, <2>3, <2>4 DEF Next
<1> QED
  BY <1>10, <1>11, <1>12, <1>13, <1>14, <1>15, <1>16, Kinds

-----------------------------------------------------------------------------
(* Steps: what is taken.                                                   *)

\* Where no categories are read.
LEMMA KeptElsewhere == ASSUME Listed, Next, pc' # "done", ~Categories PROVE Kept'
<1>1. /\ JobOK /\ TypeOK /\ RowOK(op) /\ Placed /\ Turned /\ Told /\ Kept /\ job' = job /\ op' = op
      /\ (Flat' <=> Flat) /\ ~Categories'
  BY Moves DEF Underway, Flat, Categories
<1>2. /\ rows \in Seq(Source \X Nat) /\ Len(rows) \in Nat /\ pos \in Nat /\ left \in Nat
      /\ examined \in Nat /\ weight \in Nat /\ job.limit \in Nat \ {0}
      /\ MaxWeight \in Nat \ {0}
  BY <1>1, ListingAssumption DEF TypeOK, JobOK
<1>3. TypeOK' /\ Len(rows') \in Nat
  BY TypeStep DEF TypeOK
<1>4. ~EndCategory /\ ~GiveUp /\ ~Answer
  BY DEF EndCategory, GiveUp, Answer, Fail
<1>5. CASE Open
  <2>1. pc' = "fetch" /\ UNCHANGED <<rows, examined, weight>> /\ queue # <<>> /\ pos' \in Nat
    BY <1>3, <1>5 DEF Open, kept, TypeOK
  <2>2. Flat => Len(rows) = 0
    BY <1>1, <2>1 DEF Placed
  <2>3. op.stop = "reached" => Flat
    BY <1>1 DEF RowOK, Flat
  <2> QED
    BY <1>1, <1>2, <2>1, <2>2, <2>3 DEF Kept
<1>6. CASE Fetch
  <2>1. PICK t \in Nat \cup {Unknown}, g \in Nat : PageHolds(t, g) /\ PageRead(t, g)
    BY <1>1, <1>6, Fetched
  <2>2. /\ Skipped \in Nat /\ Looked(g) \in Nat /\ Looked(g) <= g
        /\ op.cuts => Looked(g) <= MaxWeight
    BY <1>1, SkippedAtStart
  <2>3. /\ UNCHANGED <<rows, examined, weight>> /\ pc = "fetch" /\ Busy
        /\ pc' \in {"open", "examine"}
    BY <1>1, <1>6, <2>1, Cuts DEF PageRead, Fetch, Busy, Fail
  <2>4. pos' >= pos
    BY <1>1, <1>2, <2>1, <2>2, Cuts DEF PageRead, Fail
  <2>5. pos' \in Nat /\ left' \in Nat
    BY <1>3 DEF TypeOK
  <2>6. op.stop = "never" /\ pc' = "examine" => Len(rows) = 0 /\ left' <= MaxWeight
    <3> SUFFICES ASSUME op.stop = "never", pc' = "examine" PROVE Len(rows) = 0 /\ left' <= MaxWeight
      OBVIOUS
    <3>1. op.cuts /\ op.more = "no" /\ Flat
      BY <1>1 DEF RowOK, Flat
    <3>2. Len(rows) = 0
      BY <1>1, <2>3, <3>1 DEF Turned
    <3>3. left' = Looked(g) - Skipped
      BY <1>1, <2>1, Cuts DEF PageRead, Fail
    <3> QED
      BY <1>2, <2>2, <3>1, <3>2, <3>3
  <2>7. op.stop = "reached" => Len(rows) < job.limit
    BY <1>1, <2>3 DEF Kept
  <2>8. Flat => Len(rows) <= pos'
    BY <1>1, <1>2, <2>4, <2>5 DEF Kept
  <2> QED
    BY <1>1, <1>2, <2>3, <2>5, <2>6, <2>7, <2>8 DEF Kept
<1>7. CASE TurnPage \/ HitPageLimit \/ EndList \/ Resolve \/ Stop \/ Unreadable \/ Overflow \/ FetchFails
  <2>1. UNCHANGED <<rows, examined, weight, pos, left>> /\ pc' # "examine"
    BY <1>1, <1>7, Cuts DEF TurnPage, HitPageLimit, EndList, Resolve, Stop, Unreadable, Overflow, FetchFails,
       kept, reading, PageDone, Passed, Fail
  <2>2. Busy' => Busy
    BY <1>1, <1>7, Cuts DEF Busy, TurnPage, PageDone, HitPageLimit, EndList, Resolve, Stop, Unreadable, Overflow,
       FetchFails, Passed, Fail
  <2> QED
    BY <1>1, <2>1, <2>2 DEF Kept
<1>8. CASE Refuse
  <2>1. /\ pc' = "open" /\ UNCHANGED <<weight, pos, left>> /\ left > 0 /\ ~Exceeds
        /\ Unknowns => examined' = Smaller(examined + left, job.limit) /\ rows' = Before
        /\ ~Unknowns => examined' = examined /\ rows' = rows
    BY <1>8 DEF Refuse, Passed, Fail, reading
  <2>2. Len(Before) <= Len(rows) /\ Len(Before) \in Nat
    BY <1>1, <1>2, NormalBounds
  <2>3. Len(rows') <= Len(rows)
    BY <1>2, <2>1, <2>2
  <2>4. op.bounds = "examined" => examined' >= examined /\ examined' <= job.limit
    BY <1>1, <1>2, <2>1 DEF Kept, Smaller
  <2>5. examined' \in Nat
    BY <1>3 DEF TypeOK
  <2>6. ~Busy'
    BY <2>1 DEF Busy
  <2> QED
    BY <1>1, <1>2, <1>3, <2>1, <2>3, <2>4, <2>5, <2>6 DEF Kept
<1>9. CASE SkipEntry \/ SkipHeavy \/ Drop
  <2>1. /\ UNCHANGED <<rows, weight>> /\ pc' = "examine" /\ pc = "examine" /\ pos' = pos + 1 /\ left' = left - 1
        /\ Busy
        /\ examined' = examined \/ (examined' = examined + 1 /\ ~Exceeds)
    BY <1>9 DEF SkipEntry, SkipHeavy, Drop, Busy
  <2>2. op.bounds = "examined" => Len(rows) <= examined' /\ examined' <= job.limit
    BY <1>1, <1>2, <2>1 DEF Kept, Exceeds, Full, Count, RowOK
  <2> QED
    BY <1>1, <1>2, <2>1, <2>2 DEF Kept
<1>10. CASE Examine
  <2>1. EntryRead
    BY <1>1, <1>10, Examined
  <2>2. /\ Len(rows') = Len(rows) \/ Len(rows') = Len(rows) + 1
        /\ Wanted(pos + 1) => Len(rows') = Len(rows) + 1
        /\ ~Wanted(pos + 1) => Len(rows') = Len(rows)
    BY <1>2, <2>1 DEF EntryRead
  <2>3. /\ pos' = pos + 1 /\ left' = left - 1 /\ examined' = examined + 1 /\ left > 0 /\ pc = "examine"
        /\ weight' = IF op.weighs /\ ~Categories /\ Wanted(pos + 1) THEN weight + 1 ELSE weight
        /\ ~Exceeds /\ ~TooHeavy
        /\ Busy' => ~Reaches(rows')
    BY <2>1 DEF EntryRead, Busy
  <2>4. op.stop = "exceeded" /\ op.bounds = "rows" => Len(rows') <= job.limit
    BY <1>1, <1>2, <2>2, <2>3 DEF Exceeds, Full, Count
  <2>5. op.bounds = "examined" => Len(rows') <= examined' /\ examined' <= job.limit
    BY <1>1, <1>2, <2>2, <2>3 DEF Exceeds, Full, Count, Kept, RowOK
  <2>6. op.stop = "reached" => Len(rows') <= job.limit /\ (Busy' => Len(rows') < job.limit)
    <3>1. op.stop = "reached" => Len(rows) < job.limit
      BY <1>1, <2>3 DEF Kept, Busy
    <3> QED
      BY <1>2, <1>3, <2>2, <2>3, <3>1 DEF Reaches
  <2>7. op.stop = "never" => Len(rows') <= MaxWeight /\ Len(rows') + left' <= MaxWeight
    BY <1>1, <1>2, <2>2, <2>3 DEF Kept
  <2>8. op.weighs /\ op.stop = "exceeded" => Len(rows') <= weight' /\ weight' <= MaxWeight
    BY <1>1, <1>2, <2>2, <2>3 DEF Kept, TooHeavy
  <2>9. Flat => Len(rows') <= pos'
    BY <1>1, <1>2, <2>2, <2>3 DEF Kept
  <2> QED
    BY <1>1, <2>4, <2>5, <2>6, <2>7, <2>8, <2>9 DEF Kept
<1> QED
  BY <1>4, <1>5, <1>6, <1>7, <1>8, <1>9, <1>10 DEF Next

LEMMA LesserOfTwo ==
    ASSUME NEW a \in Nat, NEW b \in Nat
    PROVE  Smaller(a, b) \in Nat /\ Smaller(a, b) <= a /\ Smaller(a, b) <= b
BY DEF Smaller

LEMMA KeptOfCategories == ASSUME Listed, Next, pc' # "done", Categories PROVE Kept'
<1>1. /\ JobOK /\ TypeOK /\ RowOK(op) /\ Placed /\ Told /\ Kept /\ job' = job /\ op' = op
      /\ (Flat' <=> Flat) /\ Categories' /\ ~Flat /\ pc # "done"
  BY Moves DEF Underway, Flat, Categories
<1>2. /\ rows \in Seq(Source \X Nat) /\ Len(rows) \in Nat /\ pos \in Nat /\ left \in Nat
      /\ examined \in Nat /\ weight \in Nat /\ job.limit \in Nat \ {0}
      /\ MaxWeight \in Nat \ {0}
  BY <1>1, ListingAssumption DEF TypeOK, JobOK
<1>3. /\ op.walk = "each" /\ op.stop = "after" /\ op.more = "link" /\ op.skips = {"source"}
      /\ op.bounds = "rows" /\ ~op.resumes /\ op.keeps # "tail" /\ ~op.late /\ ~op.cuts
      /\ \A shape \in Shapes : op.reads[shape] \notin {"fails", "unread"}
  BY <1>1 DEF Categories, RowOK
<1>4. Normal \in Nat /\ Normal <= Len(rows) /\ Len(Before) = Len(rows) - Normal /\ Len(Before) \in Nat
  BY <1>1, <1>2, NormalBounds
<1>5. ~Resolve \/ pc' = "open"
  BY DEF Resolve, Fail
<1>6. /\ ~GiveUp /\ ~Answer /\ ~Stop /\ ~Unreadable /\ ~Overflow /\ ~SkipEntry /\ ~SkipHeavy
      /\ ~Refuse /\ ~HitPageLimit /\ ~EndList
  BY <1>1, <1>3 DEF GiveUp, Answer, Stop, Stopped, Unreadable, Overflow, SkipEntry, SkipHeavy,
     Refuse, HitPageLimit, EndList, Fail, Verdicts, Shapes, Exceeds, TooHeavy
\* What has to hold while a category is read, and between categories.
<1>7. ASSUME Busy', pos' <= examined', examined' - pos' <= job.limit, Len(Before)' <= examined' - pos',
             Len(Before)' <= weight', weight' <= MaxWeight
      PROVE  Kept'
  BY <1>1, <1>3, <1>7 DEF Kept
<1>8. ASSUME ~Busy', Len(rows') <= examined', examined' <= job.limit, Len(rows') <= weight',
             weight' <= MaxWeight
      PROVE  Kept'
  BY <1>1, <1>3, <1>8 DEF Kept
<1>9. /\ Busy => /\ pos <= examined /\ examined - pos <= job.limit
                 /\ Len(Before) <= examined - pos /\ Len(Before) <= weight
      /\ ~Busy => Len(rows) <= examined /\ examined <= job.limit /\ Len(rows) <= weight
      /\ weight <= MaxWeight
  BY <1>1 DEF Kept
<1>10. ASSUME here' = here, rows' = rows PROVE Before' = Before
  BY <1>10 DEF Before, Normal, Here
<1>11. CASE Resolve
  BY <1>5, <1>8, <1>9, <1>11 DEF Resolve, Busy, kept
<1>12. CASE Open
  <2>1. /\ queue # <<>> /\ here' = Head(queue) /\ queue' = Tail(queue) /\ rows' = rows /\ examined' = examined
        /\ weight' = weight /\ pos' = PagesBefore * PageSize /\ ~Busy /\ Busy'
    BY <1>12 DEF Open, Busy, kept
  <2>2. pos' = 0
    BY <1>1, <1>3, <2>1, Origin
  <2>3. Here' \in Waiting
    <3>1. Distinct
      BY Moves DEF Underway, Apart, Distinct
    <3> QED
      BY <1>1, <2>1, <3>1, Opened
  <2>4. \A k \in 1 .. Len(rows') : rows'[k][1] # Here'
    <3>1. Apart
      BY Moves DEF Underway
    <3> QED
      BY <2>1, <2>3, <3>1 DEF Apart
  <2>5. Normal' = 0
    <3>1. {k \in 1 .. Len(rows') : rows'[k][1] = Here'} = {}
      BY <2>4
    <3> QED
      BY <3>1, FS_EmptySet DEF Normal
  <2>6. Len(Before)' = Len(rows)
    <3>1. Before' = SubSeq(rows, 1, Len(rows) - 0)
      BY <2>1, <2>5 DEF Before
    <3>2. Len(rows) - 0 = Len(rows) /\ Len(rows) \in 0 .. Len(rows)
      BY <1>2
    <3> QED
      BY <1>2, <3>1, <3>2, Prefix
  <2>7. examined' - pos' = examined /\ pos' <= examined'
    BY <1>2, <2>1, <2>2
  <2> QED
    BY <1>7, <1>9, <2>1, <2>6, <2>7
<1>13. CASE Fetch
  <2>1. PICK t \in Nat \cup {Unknown}, g \in Nat : PageHolds(t, g) /\ PageRead(t, g)
    BY <1>1, <1>13, Fetched
  <2>2. Skipped = 0
    BY <1>1, <1>3, SkippedAtStart
  <2>3. /\ here' = here /\ rows' = rows /\ examined' = examined /\ weight' = weight /\ Busy /\ pc' = "examine"
        /\ pos' = pos + Skipped + 0
    BY <1>3, <1>13, <2>1 DEF PageRead, Fetch, Busy, Fail
  <2>4. pos' = pos /\ Busy'
    BY <1>2, <2>2, <2>3 DEF Busy
  <2> QED
    BY <1>7, <1>9, <1>10, <2>3, <2>4
<1>14. CASE TurnPage
  <2>1. here' = here /\ rows' = rows /\ examined' = examined /\ weight' = weight /\ pos' = pos /\ Busy /\ Busy'
    BY <1>14 DEF TurnPage, PageDone, Busy, reading, kept
  <2> QED
    BY <1>7, <1>9, <1>10, <2>1
<1>15. CASE FetchFails
  <2>1. rows' = Before /\ examined' = examined - pos /\ weight' = weight /\ Busy /\ ~Busy'
    BY <1>1, <1>15 DEF FetchFails, Passed, Busy
  <2> QED
    BY <1>8, <1>9, <2>1
<1>16. CASE Drop
  <2>1. here' = here /\ rows' = rows /\ examined' = examined + 1 /\ weight' = weight /\ pos' = pos + 1 /\ Busy /\ Busy'
    BY <1>3, <1>16 DEF Drop, Busy, Unknowns, Shapes
  <2>2. examined' - pos' = examined - pos /\ (pos <= examined => pos' <= examined')
    BY <1>2, <2>1
  <2> QED
    BY <1>7, <1>9, <1>10, <2>1, <2>2
<1>17. CASE Examine
  <2>1. EntryRead
    BY <1>1, <1>17, Examined
  <2>2. /\ here' = here /\ examined' = examined + 1 /\ weight' = weight /\ pos' = pos + 1 /\ Busy /\ Busy'
        /\ rows' = rows \/ rows' = Append(rows, <<Here, pos + 1>>)
    BY <1>1, <1>3, <2>1 DEF EntryRead, Busy, Reaches
  <2>3. examined' - pos' = examined - pos /\ (pos <= examined => pos' <= examined')
    BY <1>2, <2>2
  <2>4. Len(Before)' = Len(Before)
    <3>1. CASE rows' = rows
      BY <1>10, <2>2, <3>1
    <3>2. CASE rows' = Append(rows, <<Here, pos + 1>>)
      <4>1. pos + 1 \in Nat
        BY <1>2
      <4>2. Normal' = Normal + 1
        BY <1>1, <2>2, <3>2, <4>1, NormalGrows
      <4>3. rows' \in Seq(Source \X Nat) /\ Len(rows') = Len(rows) + 1
        BY <1>2, <3>2, TypeStep DEF TypeOK
      <4>4. Len(rows') - Normal' = Len(rows) - Normal /\ Len(rows) - Normal \in 0 .. Len(rows')
        BY <1>2, <1>4, <4>2, <4>3
      <4>5. Before' = SubSeq(rows', 1, Len(rows) - Normal)
        BY <4>4 DEF Before
      <4> QED
        BY <1>4, <4>3, <4>4, <4>5, Prefix
    <3> QED
      BY <2>2, <3>1, <3>2
  <2> QED
    BY <1>7, <1>9, <2>2, <2>3, <2>4
<1>18. CASE EndCategory
  <2> DEFINE room == Smaller(Normal, job.limit - (examined - pos))
             light == weight + room <= MaxWeight
  <2>1. /\ rows' = IF light THEN SubSeq(rows, 1, Len(Before) + room) ELSE Before
        /\ weight' = IF light THEN weight + room ELSE weight
        /\ examined' = examined - pos + room
        /\ Busy /\ ~Busy'
    BY <1>18 DEF EndCategory, PageDone, Busy
  <2>2. examined - pos \in Nat
    BY <1>2, <1>9, <2>1
  <2>3. room \in Nat /\ room <= Normal /\ room <= job.limit - (examined - pos)
    <3>1. job.limit - (examined - pos) \in Nat
      BY <1>2, <1>9, <2>1, <2>2
    <3> QED
      BY <1>4, <3>1, LesserOfTwo
  <2> HIDE DEF room
  <2>4. examined' <= job.limit /\ examined' = (examined - pos) + room
    BY <1>2, <2>1, <2>2, <2>3
  <2>5. CASE light
    <3>1. Len(Before) + room \in 0 .. Len(rows)
      BY <1>2, <1>4, <2>3
    <3>2. Len(rows') = Len(Before) + room
      BY <1>2, <2>1, <2>5, <3>1, Prefix
    <3>3. weight' = weight + room /\ weight' <= MaxWeight
      BY <2>1, <2>5
    <3>4. Len(Before) <= examined - pos /\ Len(Before) <= weight
      BY <1>9, <2>1
    <3>5. Len(rows') <= examined'
      BY <1>2, <1>4, <2>2, <2>3, <2>4, <3>2, <3>4
    <3>6. Len(rows') <= weight'
      BY <1>2, <1>4, <2>3, <3>2, <3>3, <3>4
    <3> QED
      BY <1>8, <2>1, <2>4, <3>3, <3>5, <3>6
  <2>6. CASE ~light
    <3>1. rows' = Before /\ weight' = weight
      BY <2>1, <2>6
    <3>2. Len(rows') <= examined'
      BY <1>4, <1>9, <2>1, <2>2, <2>3, <2>4, <3>1
    <3> QED
      BY <1>8, <1>9, <2>1, <2>4, <3>1, <3>2
  <2> QED
    BY <2>5, <2>6
<1> QED
  BY <1>6, <1>11, <1>12, <1>13, <1>14, <1>15, <1>16, <1>17, <1>18 DEF Next

LEMMA KeptStep == ASSUME Listed, Next, pc' # "done" PROVE Kept'
BY KeptElsewhere, KeptOfCategories

-----------------------------------------------------------------------------
(* Steps: nothing left out without a word.                                 *)

Had(s, i) == <<s, i>> \in job.wanted \ dropped => Given(s, i)
Over(s) == Through(s, Size(s)) /\ Followed(s, Size(s))

\* What can happen when nothing is cut off and nothing passed over.
LEMMA Uncut ==
    ASSUME Listed, Next, pc' # "done", ~truncated', ~warned'
    PROVE  /\ ~truncated /\ ~warned
           /\ \/ Resolve \/ Open \/ (Fetch /\ pc' = "examine") \/ Drop \/ Examine \/ TurnPage
              \/ (HitPageLimit /\ op.more = "short" /\ rows' = rows)
              \/ EndList \/ (EndCategory /\ Exhausted)
           /\ \A s, i : Had(s, i) => Had(s, i)'
<1> USE DEF kept, reading, outcome
<1>1. /\ JobOK /\ TypeOK /\ RowOK(op) /\ Placed /\ Told /\ job' = job /\ op' = op
      /\ rows \in Seq(Source \X Nat) /\ Len(rows) \in Nat
  BY Moves DEF Underway, TypeOK
<1>2. ~Stop /\ ~SkipEntry /\ ~SkipHeavy /\ ~GiveUp /\ ~Answer
  BY DEF Stop, SkipEntry, SkipHeavy, GiveUp, Answer, Fail
<1>3. ~FetchFails /\ ~Refuse /\ ~Unreadable
  BY DEF FetchFails, Refuse, Unreadable, Passed, Fail
<1>4. ~Cut
  BY <1>1, Cuts
<1>5. ~Overflow /\ (HitPageLimit => op.more = "short")
  BY <1>4 DEF Overflow, HitPageLimit
<1>6. Fetch => pc' = "examine" /\ truncated' = truncated /\ warned' = warned /\ rows' = rows /\ dropped' = dropped
  <2> SUFFICES ASSUME Fetch
               PROVE  pc' = "examine" /\ truncated' = truncated /\ warned' = warned /\ rows' = rows /\ dropped' = dropped
    OBVIOUS
  <2>1. PICK t \in Nat \cup {Unknown}, g \in Nat : PageHolds(t, g) /\ PageRead(t, g)
    BY <1>1, Fetched
  <2> QED
    BY <1>4, <2>1 DEF PageRead, Fail
<1>7. Resolve \/ Open \/ TurnPage \/ HitPageLimit \/ EndList =>
         /\ truncated' = truncated /\ warned' = warned /\ rows' = rows /\ dropped' = dropped
  BY <1>4 DEF Resolve, Open, TurnPage, HitPageLimit, EndList
<1>8. Drop => truncated' = truncated /\ warned' = warned /\ rows' = rows /\ dropped \subseteq dropped'
  BY DEF Drop
<1>9. Examine => /\ ~truncated /\ warned' = warned /\ dropped' = dropped
                 /\ rows' = rows \/ rows' = Append(rows, <<Here, pos + 1>>)
  <2> SUFFICES ASSUME Examine
               PROVE  /\ ~truncated /\ warned' = warned /\ dropped' = dropped
                      /\ rows' = rows \/ rows' = Append(rows, <<Here, pos + 1>>)
    OBVIOUS
  <2>1. EntryRead
    BY <1>1, Examined
  <2>2. Reaches(rows') => op.walk = "flat"
    BY <1>1 DEF Reaches, RowOK
  <2>3. op.walk = "flat" => ~truncated
    BY <1>1, <2>1 DEF EntryRead, Placed, Flat
  <2> QED
    BY <2>1, <2>2, <2>3 DEF EntryRead
<1>10. EndCategory => /\ ~truncated /\ Exhausted /\ warned' = warned /\ dropped' = dropped
                      /\ rows' = SubSeq(rows, 1, Len(rows))
  <2> SUFFICES ASSUME EndCategory
               PROVE  /\ ~truncated /\ Exhausted /\ warned' = warned /\ dropped' = dropped
                      /\ rows' = SubSeq(rows, 1, Len(rows))
    OBVIOUS
  <2> DEFINE room == Smaller(Normal, job.limit - (examined - pos))
             light == weight + room <= MaxWeight
  <2>1. /\ rows' = IF light THEN SubSeq(rows, 1, Len(Before) + room) ELSE Before
        /\ truncated' = (truncated \/ room < Normal \/ ~light \/ ~Exhausted)
        /\ warned' = warned /\ dropped' = dropped /\ Busy /\ Categories
    BY DEF EndCategory, PageDone, Busy
  <2>2. Normal \in Nat /\ Normal <= Len(rows) /\ Len(Before) = Len(rows) - Normal
    BY <1>1, NormalBounds
  <2>3. room \in Nat /\ room <= Normal
    <3>1. Kept
      BY Moves DEF Underway
    <3>2. job.limit - (examined - pos) \in Nat
      BY <1>1, <2>1, <3>1 DEF Kept, JobOK, TypeOK
    <3> QED
      BY <2>2, <3>2, LesserOfTwo
  <2> HIDE DEF room
  <2>4. ~truncated /\ ~(room < Normal) /\ light /\ Exhausted
    BY <2>1
  <2>5. room = Normal
    BY <2>2, <2>3, <2>4
  <2>6. Len(Before) + room = Len(rows)
    BY <1>1, <2>2, <2>5
  <2> QED
    BY <2>1, <2>4, <2>6
<1>11. ~truncated /\ ~warned
  BY <1>2, <1>3, <1>5, <1>6, <1>7, <1>8, <1>9, <1>10 DEF Next
<1>12. \/ rows' = rows /\ dropped \subseteq dropped'
       \/ rows' = Append(rows, <<Here, pos + 1>>) /\ dropped' = dropped
       \/ rows' = SubSeq(rows, 1, Len(rows)) /\ dropped' = dropped
  BY <1>2, <1>3, <1>5, <1>6, <1>7, <1>8, <1>9, <1>10 DEF Next
<1>13. \A k \in 1 .. Len(rows) : k \in 1 .. Len(rows') /\ rows'[k] = rows[k]
  <2>1. Len(rows) \in 0 .. Len(rows)
    BY <1>1
  <2>2. CASE rows' = rows
    BY <2>2
  <2>3. CASE rows' = Append(rows, <<Here, pos + 1>>)
    BY <1>1, <2>3
  <2>4. CASE rows' = SubSeq(rows, 1, Len(rows))
    BY <1>1, <2>1, <2>4, Prefix
  <2> QED
    BY <1>12, <2>2, <2>3, <2>4
<1>14. ASSUME NEW s, NEW i, Had(s, i) PROVE Had(s, i)'
  <2>1. dropped \subseteq dropped'
    BY <1>12
  <2> QED
    BY <1>1, <1>13, <1>14, <2>1 DEF Had, Given
<1>15. HitPageLimit => rows' = rows
  BY <1>7
<1>16. Resolve \/ Open \/ Fetch \/ Drop \/ Examine \/ TurnPage \/ HitPageLimit \/ EndList \/ EndCategory
  BY <1>2, <1>3, <1>5 DEF Next
<1>17. \/ Resolve \/ Open \/ (Fetch /\ pc' = "examine") \/ Drop \/ Examine \/ TurnPage
       \/ (HitPageLimit /\ op.more = "short" /\ rows' = rows)
       \/ EndList \/ (EndCategory /\ Exhausted)
  BY <1>5, <1>6, <1>10, <1>15, <1>16
<1>18. \A s, i : Had(s, i) => Had(s, i)'
  BY <1>14
<1> QED
  BY <1>11, <1>17, <1>18

\* Where a list is left for good, it was read to its end, or nobody can tell.
LEMMA AtEnd ==
    ASSUME JobOK, TypeOK, Placed, Told, Kept, Turned, PageDone, ~CutUnseen,
           Exhausted \/ (op.more = "short" /\ AtPageLimit)
    PROVE  pos >= Size(Here) \/ (Flat /\ Excused)
<1>1. /\ RowOK(op) /\ pos \in Nat /\ got \in Nat /\ pages \in Nat /\ Len(rows) \in Nat /\ Size(Here) \in Nat
      /\ job.limit \in Nat \ {0} /\ total \in Nat \cup {Unknown} /\ pc = "examine" /\ left = 0
  BY AskedPositive DEF JobOK, TypeOK, PageDone
<1>2. Ends => pos >= Size(Here)
  BY <1>1 DEF Ends
<1>3. CASE op.more = "no"
  <2>1. FullAnswer => op.asks = "limit"
    BY DEF FullAnswer
  <2> QED
    BY <1>1, <1>2, <1>3, <2>1 DEF Told, Excused, RowOK, Flat
<1>4. CASE op.more = "count"
  BY <1>1, <1>2, <1>4 DEF Told, Excused, RowOK, Flat
<1>5. Flat => Here = 1
  BY DEF Placed
<1>6. CASE op.more = "total"
  <2>1. total = Size(Here)
    BY <1>1, <1>5, <1>6 DEF Told, RowOK, Flat
  <2>2. got = 0 \/ pos >= total
    BY <1>6 DEF Exhausted
  <2> QED
    BY <1>1, <1>2, <1>6, <2>1, <2>2 DEF Told
<1>7. CASE op.more = "short"
  <2>1. Flat
    BY <1>1, <1>7 DEF RowOK, Flat
  <2>2. total # Unknown /\ ~MoreAnnounced => pos >= Size(Here)
    <3> SUFFICES ASSUME total # Unknown, ~MoreAnnounced PROVE pos >= Size(Here)
      OBVIOUS
    <3>1. total = Size(Here)
      BY <1>5, <2>1 DEF Told
    <3>2. ~(total > Len(rows))
      BY DEF MoreAnnounced
    <3>3. Len(rows) <= pos
      BY <2>1 DEF Kept
    <3> QED
      BY <1>1, <3>1, <3>2, <3>3
  <2>3. total = Unknown => ~MoreAnnounced
    BY DEF MoreAnnounced
  <2>4. got = 0 => Ends
    BY <1>1, <1>7 DEF Told
  <2>5. total = Unknown /\ Short => Ends
    BY <1>1, <1>7 DEF Told
  <2>6. CASE Exhausted
    <3>1. got = 0 \/ Len(rows) >= job.limit \/ (Short /\ ~MoreAnnounced)
      BY <1>7, <2>6 DEF Exhausted
    <3> QED
      BY <1>2, <1>7, <2>1, <2>2, <2>3, <2>4, <2>5, <3>1 DEF Excused
  <2>7. CASE AtPageLimit
    <3>1. pages >= MaxPages
      BY <2>7 DEF AtPageLimit
    <3> QED
      BY <1>2, <1>7, <2>1, <2>2, <2>3, <2>5, <3>1 DEF Excused
  <2> QED
    BY <1>7, <2>6, <2>7
<1>8. CASE op.more = "header"
  BY <1>1, <1>2, <1>8 DEF Told, Exhausted
<1>9. CASE op.more = "link"
  BY <1>1, <1>2, <1>9 DEF Told, Exhausted
<1> QED
  BY <1>1, <1>3, <1>4, <1>6, <1>7, <1>8, <1>9 DEF RowOK

\* Seen folders stay seen, and what was given of a list stays given.
LEMMA Remains ==
    ASSUME Listed, Next, pc' # "done", ~truncated', ~warned'
    PROVE  /\ seen \subseteq seen'
           /\ \A s \in Source : Size(s)' = Size(s) /\ Size(s) \in Nat
           /\ \A s, n : Through(s, n) => Through(s, n)'
           /\ \A s, n : Followed(s, n) => Followed(s, n)'
<1> USE DEF kept
<1>1. JobOK /\ TypeOK /\ Placed /\ Told /\ job' = job /\ op' = op
  BY Moves DEF Underway
<1>2. \A s, i : Had(s, i) => Had(s, i)'
  BY Uncut
<1>3. seen \subseteq seen'
  <2>1. Fetch => seen' = seen
    BY <1>1, Fetched DEF PageRead
  <2>2. Examine => seen \subseteq seen'
    BY <1>1, Examined DEF EntryRead
  <2>3. Resolve \/ Open \/ Drop \/ TurnPage \/ HitPageLimit \/ EndList \/ EndCategory => seen' = seen
    BY DEF Resolve, Open, Drop, TurnPage, HitPageLimit, EndList, EndCategory
  <2> QED
    BY <2>1, <2>2, <2>3, Uncut
<1>4. \A s \in Source : Size(s)' = Size(s) /\ Size(s) \in Nat
  BY <1>1 DEF Size, JobOK
<1>5. ASSUME NEW s, NEW n, Through(s, n) PROVE Through(s, n)'
  <2>1. \A i \in 1 .. Size(s) : job.from < i /\ i <= n => Had(s, i)
    BY <1>5 DEF Through, Had
  <2>2. \A i \in 1 .. Size(s) : job.from < i /\ i <= n => Had(s, i)'
    BY <1>2, <2>1
  <2> QED
    BY <1>1, <2>2 DEF Through, Had, Size
<1>6. ASSUME NEW s, NEW n, Followed(s, n) PROVE Followed(s, n)'
  BY <1>1, <1>3, <1>6 DEF Followed, Size
<1> QED
  BY <1>3, <1>4, <1>5, <1>6

LEMMA CoveredStep == ASSUME Listed, Next, pc' # "done" PROVE Covered'
<1> SUFFICES ASSUME ~truncated', ~warned', ~CutUnseen'
             PROVE  /\ \A s \in ToRead' \ Pending' : Over(s)' \/ (Flat' /\ Excused')
                    /\ Busy' => Through(Here, pos)' /\ Followed(Here, pos)'
  BY DEF Covered, Over
<1>1. /\ JobOK /\ TypeOK /\ RowOK(op) /\ Placed /\ Turned /\ Told /\ Apart /\ Kept /\ Covered
      /\ job' = job /\ op' = op /\ (Flat' <=> Flat) /\ pc # "done"
  BY Moves DEF Underway, Flat
<1>2. ~CutUnseen
  BY <1>1 DEF CutUnseen, Size
<1>3. /\ ~truncated /\ ~warned
      /\ \/ Resolve \/ Open \/ (Fetch /\ pc' = "examine") \/ Drop \/ Examine \/ TurnPage
         \/ (HitPageLimit /\ op.more = "short" /\ rows' = rows)
         \/ EndList \/ (EndCategory /\ Exhausted)
      /\ \A s, i : Had(s, i) => Had(s, i)'
  BY Uncut
<1>4. /\ \A s \in ToRead \ Pending : Over(s) \/ (Flat /\ Excused)
      /\ Busy => Through(Here, pos) /\ Followed(Here, pos)
  BY <1>1, <1>2, <1>3 DEF Covered, Over
<1>5. /\ seen \subseteq seen'
      /\ \A s \in Source : Size(s)' = Size(s) /\ Size(s) \in Nat
      /\ \A s, n : Through(s, n) => Through(s, n)'
      /\ \A s, n : Followed(s, n) => Followed(s, n)'
  BY <1>3, Remains
<1>6. Here \in Source /\ pos \in Nat /\ seen \subseteq Source /\ ToRead \subseteq Source /\ Size(Here) \in Nat
  BY <1>1, <1>5 DEF TypeOK, Here, Visit, ToRead
<1> PICK h \in Source, n \in Nat : h = Here /\ n = pos
  BY <1>6
<1>7. \A s \in Source : Over(s) => Over(s)'
  BY <1>5 DEF Over
<1>8. ASSUME Busy \/ queue # <<>> PROVE \A s \in ToRead \ Pending : Over(s)
  <2>1. CASE Flat
    <3>1. ToRead = {1} /\ Here = 1
      BY <1>1, <2>1 DEF ToRead, Placed, Flat
    <3>2. queue # <<>> => Waiting = {1}
      <4>1. queue # <<>> => 1 \in 1 .. Len(queue)
        BY <1>1 DEF TypeOK
      <4> QED
        BY <1>1, <2>1, <4>1 DEF Placed, Waiting
    <3> QED
      BY <1>8, <3>1, <3>2 DEF Pending
  <2> QED
    BY <1>4, <2>1
<1>9. ASSUME here' = here PROVE Here' = Here
  BY <1>9 DEF Here
<1>10. ASSUME queue' = queue PROVE Waiting' = Waiting
  BY <1>10 DEF Waiting
<1>11. ASSUME seen' = seen PROVE ToRead' = ToRead
  BY <1>1, <1>11 DEF ToRead
<1>12. CASE Resolve
  <2>1. /\ pc' = "open" /\ pc = "resolve" /\ queue' = queue /\ here' = here /\ seen' = seen
        /\ rows' = rows /\ total' = total /\ got' = got /\ pages' = pages
    BY <1>12 DEF Resolve, Fail, kept, reading
  <2>2. ToRead' \ Pending' = ToRead \ Pending /\ ~Busy'
    BY <1>9, <1>10, <1>11, <2>1 DEF Pending, Busy
  <2>3. Excused => Excused'
    BY <1>1, <1>9, <2>1 DEF Excused, FullAnswer, MoreAnnounced, Short, Asked, Size
  <2> QED
    BY <1>1, <1>4, <1>6, <1>7, <2>2, <2>3
<1>13. CASE Open
  <2>1. /\ pc = "open" /\ queue # <<>> /\ pc' = "fetch" /\ here' = Head(queue) /\ queue' = Tail(queue)
        /\ pos' = PagesBefore * PageSize /\ seen' = seen
    BY <1>13 DEF Open
  <2>2. Distinct
    BY <1>1 DEF Apart, Distinct
  <2>3. Waiting = Waiting' \cup {Here'}
    BY <1>1, <2>1, <2>2, Opened
  <2>4. Pending' = Pending /\ ToRead' = ToRead
    BY <1>11, <2>1, <2>3 DEF Pending, Busy
  <2>5. /\ job.from \in Nat /\ pos' \in Nat /\ pos' <= job.from
        /\ op.walk = "tree" => pos' = 0
    BY <1>1, <2>1, Origin DEF RowOK
  <2>6. \A i \in Nat : i <= pos' => ~(job.from < i)
    BY <2>5
  <2>7. Through(Here, pos)'
    BY <1>1, <2>5, <2>6 DEF Through
  <2>8. Followed(Here, pos)'
    BY <1>1, <2>5 DEF Followed
  <2> QED
    BY <1>6, <1>7, <1>8, <2>1, <2>4, <2>7, <2>8
<1>14. CASE Fetch /\ pc' = "examine"
  <2>1. PICK t \in Nat \cup {Unknown}, g \in Nat : PageHolds(t, g) /\ PageRead(t, g)
    BY <1>1, <1>14, Fetched
  <2>2. pc = "fetch" /\ Busy /\ Busy' /\ here' = here /\ seen' = seen
    BY <1>14, <2>1 DEF Fetch, Busy, PageRead
  <2>3. Looked(g) = g
    BY <1>1, <1>2, <1>14, <2>1, <2>2, PageTells
  <2>4. queue' = queue /\ pos' = pos + Skipped
    <3>1. ~Fail /\ ~Cut
      BY <1>1, <1>14, Cuts DEF Fail
    <3>2. queue' = queue /\ pos' = pos + Skipped + (IF op.keeps = "tail" THEN g - g ELSE 0)
      BY <2>1, <2>3, <3>1 DEF PageRead
    <3>3. Skipped \in Nat
      BY <1>1, SkippedAtStart
    <3> QED
      BY <1>6, <3>2, <3>3
  <2>5. Here' = Here /\ Pending' = Pending /\ ToRead' = ToRead
    BY <1>9, <1>10, <1>11, <2>2, <2>4 DEF Pending
  <2>6. Skipped \in Nat /\ (Skipped > 0 => op.resumes /\ pos' = job.from)
    <3>1. Skipped \in Nat /\ (Skipped > 0 => op.resumes /\ pages = PagesBefore /\ Skipped = job.from % PageSize)
      BY <1>1, SkippedAtStart
    <3>2. Skipped > 0 => pos = PagesBefore * PageSize
      BY <1>1, <2>2, <3>1 DEF Turned
    <3>3. job.from = PagesBefore * PageSize + (job.from % PageSize)
      BY <1>1, Origin
    <3> QED
      BY <2>4, <3>1, <3>2, <3>3
  <2>7. CASE Skipped = 0
    <3>1. pos' = pos
      BY <1>6, <2>4, <2>7
    <3> QED
      BY <1>4, <1>5, <1>6, <1>7, <1>8, <2>2, <2>5, <3>1
  <2>8. CASE Skipped > 0
    <3>1. pos' = job.from /\ job.from \in Nat /\ op.walk # "tree"
      BY <1>1, <2>6, <2>8, Origin DEF RowOK
    <3>2. \A i \in Nat : i <= pos' => ~(job.from < i)
      BY <3>1
    <3>3. Through(Here, pos)' /\ Followed(Here, pos)'
      BY <1>1, <1>5, <1>6, <2>5, <3>1, <3>2 DEF Through, Followed
    <3> QED
      BY <1>6, <1>7, <1>8, <2>2, <2>5, <3>3
  <2> QED
    BY <2>6, <2>7, <2>8
<1>15. CASE Drop
  <2>1. /\ Busy /\ Busy' /\ queue' = queue /\ here' = here /\ seen' = seen /\ pos' = pos + 1
        /\ dropped' = dropped \cup {<<Here, pos + 1>>} /\ op.walk # "tree"
    BY <1>1, <1>15 DEF Drop, Busy, RowOK, NoneDropped, Verdicts
  <2>2. Here' = Here /\ Pending' = Pending /\ ToRead' = ToRead
    BY <1>9, <1>10, <1>11, <2>1 DEF Pending
  <2>3. Had(h, n + 1)'
    BY <2>1 DEF Had
  <2>4. Through(h, n)'
    BY <1>4, <1>5, <2>1
  <2>5. Through(Here, pos)'
    <3>1. \A i \in 1 .. Size(h) : i <= n + 1 => i <= n \/ i = n + 1
      BY <1>5
    <3>2. Through(h, n + 1)'
      BY <1>1, <1>5, <2>3, <2>4, <3>1 DEF Through, Had
    <3>3. Here' = h /\ pos' = n + 1
      BY <2>1, <2>2
    <3> QED
      BY <3>2, <3>3
  <2>6. Followed(Here, pos)'
    BY <1>1, <2>1 DEF Followed
  <2> QED
    BY <1>6, <1>7, <1>8, <2>1, <2>2, <2>5, <2>6
<1>16. CASE Examine
  <2>1. EntryRead
    BY <1>1, <1>16, Examined
  <2>2. /\ Busy /\ pc = "examine" /\ here' = here /\ pos' = pos + 1 /\ Here' = Here /\ total' = total
        /\ pos + 1 \in 1 .. Size(Here) /\ dropped' = dropped
    BY <1>9, <2>1 DEF EntryRead, Busy
  <2>3. Through(h, n)' /\ Followed(h, n)' /\ Here' = h /\ pos' = n + 1
    BY <1>4, <1>5, <2>2
  <2>4. Had(h, n + 1)'
    <3>1. CASE Wanted(pos + 1)
      <4>1. rows' = Append(rows, <<Here, pos + 1>>) /\ rows \in Seq(Source \X Nat)
        BY <1>1, <2>1, <3>1 DEF EntryRead, TypeOK
      <4>2. Len(rows) + 1 \in 1 .. Len(rows') /\ rows'[Len(rows) + 1] = <<Here, pos + 1>>
        BY <4>1
      <4> QED
        BY <2>2, <4>2 DEF Had, Given
    <3>2. CASE ~Wanted(pos + 1)
      BY <1>1, <2>2, <3>2 DEF Had, Wanted
    <3> QED
      BY <3>1, <3>2
  <2>5. pc' = "examine" /\ op.walk = "tree" => Folder \in seen' \cup {0}
    <3>1. CASE Follows /\ Fresh
      BY <2>1, <3>1 DEF EntryRead
    <3>2. CASE ~(Follows /\ Fresh)
      <4>1. pc' = "examine" => ~(Follows /\ ~Fresh)
        BY <2>1 DEF EntryRead
      <4> QED
        BY <3>2, <4>1 DEF Follows
    <3> QED
      BY <3>1, <3>2
  <2>6. \A i \in 1 .. Size(h) : i <= n + 1 => i <= n \/ i = n + 1
    BY <1>5
  <2>7. \A i \in 1 .. Size(h) : job.from < i /\ i <= n + 1 => Had(h, i)'
    <3>1. \A i \in 1 .. Size(h) : job.from < i /\ i <= n => Had(h, i)'
      BY <1>3, <1>4, <2>2 DEF Through, Had
    <3> QED
      BY <2>4, <2>6, <3>1
  <2>8. CASE pc' = "examine"
    <3>1. Busy'
      BY <2>8 DEF Busy
    <3>2. Through(Here, pos)'
      <4>1. Through(h, n + 1)'
        BY <1>1, <1>5, <2>7 DEF Through, Had
      <4> QED
        BY <2>3, <4>1
    <3>3. Followed(Here, pos)'
      <4>1. op.walk = "tree" => job.holds[h][n + 1] \in seen' \cup {0}
        BY <2>5, <2>8 DEF Folder
      <4>2. Followed(h, n + 1)'
        BY <1>1, <1>5, <2>3, <2>6, <4>1 DEF Followed
      <4> QED
        BY <2>3, <4>2
    <3>4. ToRead' \ Pending' \subseteq ToRead \ Pending
      <4>1. CASE ~(Follows /\ Fresh)
        <5>1. queue' = queue /\ seen' = seen
          BY <2>1, <4>1 DEF EntryRead
        <5> QED
          BY <1>10, <1>11, <2>2, <3>1, <5>1 DEF Pending
      <4>2. CASE Follows /\ Fresh
        <5> DEFINE folder == [list |-> Folder, depth |-> here.depth + 1]
        <5>1. /\ queue' = Append(queue, folder) /\ folder \in Visit /\ seen' = seen \cup {Folder}
              /\ folder.list = Folder
          BY <2>1, <4>2 DEF EntryRead
        <5>2. op.walk = "tree" /\ Folder \notin seen
          BY <4>2 DEF Follows, Fresh
        <5>3. Waiting \subseteq seen /\ Distinct
          BY <1>1, <5>2 DEF Apart, Pending, Distinct
        <5>4. folder.list \notin Waiting
          BY <5>1, <5>2, <5>3
        <5> HIDE DEF folder
        <5>5. Waiting' = Waiting \cup {folder.list}
          BY <1>1, <5>1, <5>3, <5>4, Queued
        <5>6. ToRead = seen /\ ToRead' = seen'
          BY <1>1, <5>2 DEF ToRead
        <5> QED
          BY <2>2, <3>1, <5>1, <5>5, <5>6 DEF Pending
      <4> QED
        BY <4>1, <4>2
    <3> QED
      BY <1>6, <1>7, <1>8, <2>2, <3>1, <3>2, <3>3, <3>4
  <2>9. CASE pc' = "open"
    <3>1. Reaches(rows') /\ ~(pos + 1 < total) /\ op.beyond = "cut" /\ seen' = seen
      <4>1. Reaches(rows') /\ ~(pos + 1 < total) /\ op.beyond = "cut"
        BY <2>1, <2>9 DEF EntryRead
      <4>2. op.walk = "flat"
        BY <1>1, <4>1 DEF Reaches, RowOK
      <4> QED
        BY <2>1, <4>1, <4>2 DEF EntryRead, Follows
    <3>2. op.walk = "flat" /\ op.more = "total"
      BY <1>1, <3>1 DEF Reaches, RowOK
    <3>3. Here = 1 /\ total = Size(Here) /\ ToRead' = {1}
      BY <1>1, <2>2, <3>1, <3>2 DEF Placed, Told, Flat, ToRead
    <3>4. Size(Here) <= pos + 1
      BY <1>6, <3>1, <3>3
    <3>5. h = 1 /\ \A i \in 1 .. Size(h) : job.from < i => Had(h, i)'
      BY <1>6, <2>7, <3>3, <3>4
    <3>6. Over(1)'
      BY <1>1, <1>5, <3>2, <3>5 DEF Over, Through, Followed, Had
    <3> QED
      BY <2>9, <3>3, <3>6 DEF Busy
  <2> QED
    BY <2>1, <2>8, <2>9 DEF EntryRead
<1>17. CASE TurnPage
  <2>1. Busy /\ Busy' /\ queue' = queue /\ here' = here /\ seen' = seen /\ pos' = pos
    BY <1>17 DEF TurnPage, PageDone, Busy, reading, kept
  <2>2. Here' = Here /\ Pending' = Pending /\ ToRead' = ToRead
    BY <1>9, <1>10, <1>11, <2>1 DEF Pending
  <2> QED
    BY <1>4, <1>5, <1>6, <1>7, <1>8, <2>1, <2>2
<1>18. CASE (HitPageLimit /\ op.more = "short" /\ rows' = rows) \/ EndList \/ (EndCategory /\ Exhausted)
  <2>1. /\ PageDone /\ pc' = "open" /\ queue' = queue /\ here' = here /\ seen' = seen
        /\ pos' = pos /\ got' = got /\ total' = total /\ pages' = pages
        /\ Exhausted \/ (op.more = "short" /\ AtPageLimit)
    BY <1>18 DEF HitPageLimit, EndList, EndCategory, PageDone, reading
  <2>2. Flat => rows' = rows
    BY <1>18 DEF EndList, EndCategory, Categories, Flat, kept
  <2>3. Busy /\ ~Busy' /\ Waiting' = Waiting /\ ToRead' = ToRead
    BY <1>10, <1>11, <2>1 DEF Busy, PageDone
  <2>4. Flat /\ Excused => Excused'
    BY <1>1, <1>9, <2>1, <2>2 DEF Excused, FullAnswer, MoreAnnounced, Short, Asked, Size
  <2>5. pos >= Size(Here) \/ (Flat /\ Excused)
    BY <1>1, <1>2, <2>1, AtEnd
  <2>6. ASSUME pos >= Size(Here) PROVE Over(h)
    <3>1. \A i \in 1 .. Size(Here) : i <= pos
      BY <1>6, <2>6
    <3> QED
      BY <1>4, <2>3, <3>1 DEF Over, Through, Followed
  <2>7. Over(h)' \/ (Flat' /\ Excused')
    BY <1>1, <1>6, <1>7, <2>4, <2>5, <2>6
  <2>8. \A s \in ToRead' \ Pending' : s = h \/ s \in ToRead \ Pending
    BY <2>3 DEF Pending
  <2> QED
    BY <1>6, <1>7, <1>8, <2>3, <2>7, <2>8
<1> QED
  BY <1>3, <1>12, <1>13, <1>14, <1>15, <1>16, <1>17, <1>18

-----------------------------------------------------------------------------
(* Steps: the end of a call.                                               *)

OnceEach(list) == \A i, j \in 1 .. Len(list) : list[i] = list[j] => i = j

\* A sequence in which nothing is twice is no longer than the set it is from.
LEMMA Counting ==
    ASSUME NEW T, NEW list \in Seq(T), OnceEach(list),
           NEW S, IsFiniteSet(S), \A k \in 1 .. Len(list) : list[k] \in S
    PROVE  /\ Len(list) <= Cardinality(S)
           /\ (\A x \in S : \E k \in 1 .. Len(list) : list[k] = x) => Len(list) = Cardinality(S)
<1> DEFINE f == [k \in 1 .. Len(list) |-> list[k]]
<1>1. Len(list) \in Nat
  OBVIOUS
<1>2. IsFiniteSet(1 .. Len(list)) /\ Cardinality(1 .. Len(list)) = Len(list)
  <2>1. /\ IsFiniteSet(1 .. Len(list))
        /\ Cardinality(1 .. Len(list)) = IF 1 > Len(list) THEN 0 ELSE Len(list) - 1 + 1
    BY <1>1, UpTo
  <2> QED
    BY ONLY <1>1, <2>1
<1>3. f \in Injection(1 .. Len(list), S)
  BY DEF OnceEach, Injection, IsInjective
<1>4. (\A x \in S : \E k \in 1 .. Len(list) : list[k] = x) => f \in Surjection(1 .. Len(list), S)
  BY DEF Surjection
<1> HIDE DEF f
<1>5. /\ Cardinality(1 .. Len(list)) <= Cardinality(S)
      /\ f \in Surjection(1 .. Len(list), S) => Cardinality(1 .. Len(list)) = Cardinality(S)
  BY <1>3, FS_Injection
<1> QED
  BY <1>2, <1>4, <1>5

\* All entries of a flat listing are in the first list.
LEMMA FlatPlaces ==
    ASSUME JobOK, Flat
    PROVE  /\ PlacesOf(job.holds) = {1} \X (1 .. Size(1))
           /\ IsFiniteSet(PlacesOf(job.holds)) /\ Cardinality(PlacesOf(job.holds)) = Size(1)
           /\ Size(1) \in Nat
<1>1. 1 \in Source /\ Size(1) \in Nat
  BY ListingAssumption DEF JobOK, Size, Source
<1>2. \A s \in Source \ {1} : 1 .. Len(job.holds[s]) = {}
  <2>1. \A s \in Source \ {1} : job.holds[s] = <<>>
    BY DEF JobOK, Suits, Flat
  <2> QED
    BY <2>1
<1>3. PlacesOf(job.holds) = {1} \X (1 .. Size(1))
  <2>1. ASSUME NEW p \in PlacesOf(job.holds) PROVE p \in {1} \X (1 .. Size(1))
    <3>1. PICK s \in Source : p \in {s} \X (1 .. Len(job.holds[s]))
      BY DEF PlacesOf
    <3>2. s = 1
      BY <1>2, <3>1
    <3> QED
      BY <3>1, <3>2 DEF Size
  <2>2. \A p \in {1} \X (1 .. Size(1)) : p \in PlacesOf(job.holds)
    BY <1>1 DEF PlacesOf, Size
  <2> QED
    BY <2>1, <2>2
<1>4. IsFiniteSet(1 .. Size(1)) /\ Cardinality(1 .. Size(1)) = Size(1)
  BY <1>1, UpTo
<1>5. IsFiniteSet({1}) /\ Cardinality({1}) = 1
  BY FS_Singleton
<1>6. IsFiniteSet({1} \X (1 .. Size(1))) /\ Cardinality({1} \X (1 .. Size(1))) = 1 * Size(1)
  BY <1>4, <1>5, FS_Product
<1> QED
  BY <1>1, <1>3, <1>6

\* How a call may fail.
LEMMA FailedEnds ==
    ASSUME Listed, Next, pc' = "done", ~Answer
    PROVE  /\ answer' = "failed" /\ OnceEach(rows')
           /\ op.bounds = "examined" => examined' <= job.limit
           /\ pages' <= IF op.late THEN MaxPages + 1 ELSE MaxPages
<1> USE DEF kept, reading, outcome
<1>1. /\ JobOK /\ TypeOK /\ RowOK(op) /\ Placed /\ Turned /\ Told /\ Apart /\ Kept /\ op' = op
  BY Moves DEF Underway
<1>2. /\ rows \in Seq(Source \X Nat) /\ Len(rows) \in Nat /\ examined \in Nat /\ left \in Nat /\ pos \in Nat
      /\ pages \in Nat /\ job.limit \in Nat \ {0}
  BY <1>1 DEF TypeOK, JobOK
<1>3. /\ OnceEach(rows) /\ (op.bounds = "examined" => examined <= job.limit)
      /\ pages <= IF op.late THEN MaxPages + 1 ELSE MaxPages
  BY <1>1 DEF Apart, Kept, Turned, OnceEach
<1>4. Cut => answer' = "failed"
  BY <1>1, Cuts
<1>5. ~Open /\ ~Unreadable /\ ~SkipEntry /\ ~SkipHeavy /\ ~Drop /\ ~TurnPage /\ ~EndList /\ ~EndCategory /\ ~Stop
  <2>1. Stop => pc' = pc
    BY DEF Stop
  <2>2. SkipEntry \/ SkipHeavy \/ Drop => pc' = pc
    BY DEF SkipEntry, SkipHeavy, Drop
  <2>3. pc # "done"
    BY Moves
  <2> QED
    BY <2>1, <2>2, <2>3 DEF Open, Unreadable, Passed, TurnPage, EndList, EndCategory
<1>6. CASE Resolve \/ GiveUp \/ Overflow \/ HitPageLimit
  <2>1. rows' = rows /\ examined' = examined /\ pages' = pages /\ answer' = "failed"
    BY <1>4, <1>6 DEF Resolve, GiveUp, Overflow, HitPageLimit, Fail
  <2> QED
    BY <1>3, <2>1
<1>7. CASE Fetch
  <2>1. PICK t \in Nat \cup {Unknown}, g \in Nat : PageHolds(t, g) /\ PageRead(t, g)
    BY <1>1, <1>7, Fetched
  <2>2. rows' = rows /\ examined' = examined /\ pages' = pages + 1 /\ answer' = "failed"
    BY <1>4, <2>1 DEF PageRead, Fail
  <2>3. pages <= MaxPages /\ (pages = MaxPages => op.late) /\ MaxPages \in Nat
    BY <1>1, <1>7, ListingAssumption DEF Turned, Fetch
  <2> QED
    BY <1>2, <1>3, <2>2, <2>3
<1>8. CASE FetchFails
  <2>1. rows' = rows /\ examined' = examined /\ pages' = pages /\ answer' = "failed"
    BY <1>8 DEF FetchFails, Passed, Fail
  <2> QED
    BY <1>3, <2>1
<1>9. CASE Refuse
  <2>1. /\ answer' = "failed" /\ pages' = pages
        /\ Unknowns => examined' = Smaller(examined + left, job.limit) /\ rows' = Before
        /\ ~Unknowns => examined' = examined /\ rows' = rows
    BY <1>9 DEF Refuse, Passed, Fail
  <2>2. Len(Before) <= Len(rows) /\ \A k \in 1 .. Len(Before) : Before[k] = rows[k] /\ k \in 1 .. Len(rows)
    BY <1>1, <1>2, NormalBounds
  <2>3. OnceEach(Before)
    BY <1>3, <2>2 DEF OnceEach
  <2>4. Smaller(examined + left, job.limit) <= job.limit
    BY <1>2 DEF Smaller
  <2> QED
    BY <1>3, <2>1, <2>3, <2>4
<1>10. CASE Examine
  <2>1. EntryRead
    BY <1>1, <1>10, Examined
  <2>2. /\ Reaches(rows') /\ answer' = "failed" /\ pages' = pages /\ pc = "examine"
        /\ rows' = rows \/ rows' = Append(rows, <<Here, pos + 1>>)
    BY <2>1 DEF EntryRead
  <2>3. op.bounds # "examined"
    BY <1>1, <2>2 DEF Reaches, RowOK
  <2>4. OnceEach(rows')
    <3>1. CASE rows' = rows
      BY <1>3, <3>1
    <3>2. CASE rows' = Append(rows, <<Here, pos + 1>>)
      <4> DEFINE new == <<Here, pos + 1>>
      <4>1. new \in Source \X Nat /\ new[1] = Here /\ new[2] = pos + 1
        BY <1>1, <1>2 DEF TypeOK, Here, Visit
      <4>2. \A k \in 1 .. Len(rows) : rows[k] # new
        <5>1. \A k \in 1 .. Len(rows) : rows[k][1] = Here => rows[k][2] <= pos
          BY <1>1, <2>2 DEF Apart, Busy
        <5>2. ~(pos + 1 <= pos)
          BY <1>2
        <5> QED
          BY <4>1, <5>1, <5>2
      <4> HIDE DEF new
      <4>3. /\ Len(rows') = Len(rows) + 1 /\ rows'[Len(rows) + 1] = new
            /\ \A k \in 1 .. Len(rows) : rows'[k] = rows[k]
        BY <1>2, <3>2, <4>1 DEF new
      <4>4. \A k \in 1 .. Len(rows') : k \in 1 .. Len(rows) \/ k = Len(rows) + 1
        BY <1>2, <4>3
      <4> QED
        BY <1>3, <4>2, <4>3, <4>4 DEF OnceEach
    <3> QED
      BY <2>2, <3>1, <3>2
  <2> QED
    BY <1>3, <2>2, <2>3, <2>4
<1> QED
  BY <1>5, <1>6, <1>7, <1>8, <1>9, <1>10 DEF Next

\* What an answer gives of the rows: their beginning, or their end.
LEMMA AnswerGives ==
    ASSUME Listed, Answer, Next
    PROVE  /\ Len(rows) \in Nat /\ Len(rows') \in Nat /\ Len(rows') <= Len(rows) /\ OnceEach(rows')
           /\ op.stop = "after" /\ Flat => Len(rows') <= job.limit
           /\ ~(op.stop = "after" /\ Flat) => rows' = rows
           /\ Len(rows) <= job.limit => Len(rows') = Len(rows) /\ \A k \in 1 .. Len(rows) : rows'[k] = rows[k]
           /\ op.stop = "after" /\ Flat /\ Len(rows) > job.limit => Len(rows') = job.limit
<1>1. /\ TypeOK /\ Apart /\ JobOK
  BY Moves DEF Underway
<1>2. rows \in Seq(Source \X Nat) /\ Len(rows) \in Nat /\ job.limit \in Nat \ {0} /\ OnceEach(rows)
  BY <1>1 DEF TypeOK, JobOK, Apart, OnceEach
<1> DEFINE n == Smaller(Len(rows), job.limit)
<1>3. /\ n \in 0 .. Len(rows) /\ n <= job.limit /\ n \in Nat
      /\ Len(rows) <= job.limit => n = Len(rows)
      /\ Len(rows) > job.limit => n = job.limit
  BY <1>2 DEF Smaller
<1>4. CASE ~(op.stop = "after" /\ Flat)
  <2>1. rows' = rows
    BY <1>4 DEF Answer, Flat
  <2> QED
    BY <1>2, <1>4, <2>1
<1>5. CASE op.stop = "after" /\ Flat
  <2>1. rows' = IF op.keeps = "tail" THEN SubSeq(rows, Len(rows) - n + 1, Len(rows)) ELSE SubSeq(rows, 1, n)
    BY <1>5 DEF Answer, Flat
  <2> HIDE DEF n
  <2>2. PICK d \in Nat : d + n <= Len(rows) /\ (n = Len(rows) => d = 0)
                         /\ Len(rows') = n /\ \A k \in 1 .. n : rows'[k] = rows[d + k]
    <3>1. CASE op.keeps = "tail"
      <4> DEFINE d == Len(rows) - n
      <4>1. rows' = SubSeq(rows, Len(rows) - n + 1, Len(rows))
        BY <2>1, <3>1
      <4>2. Len(rows') = n /\ \A k \in 1 .. n : rows'[k] = rows[d + k]
        BY <1>2, <1>3, <4>1, Suffix
      <4>3. d \in Nat /\ d + n <= Len(rows) /\ (n = Len(rows) => d = 0)
        BY <1>2, <1>3
      <4> HIDE DEF d
      <4> QED
        BY <4>2, <4>3
    <3>2. CASE op.keeps # "tail"
      <4>1. rows' = SubSeq(rows, 1, n)
        BY <2>1, <3>2
      <4>2. Len(rows') = n /\ \A k \in 1 .. n : rows'[k] = rows[k]
        BY <1>2, <1>3, <4>1, Prefix
      <4>3. \A k \in 1 .. n : rows'[k] = rows[0 + k]
        BY <1>3, <4>2
      <4>4. 0 \in Nat /\ 0 + n <= Len(rows)
        BY <1>2, <1>3
      <4> QED
        BY <4>2, <4>3, <4>4
    <3> QED
      BY <3>1, <3>2
  <2>3. OnceEach(rows')
    <3>1. \A k \in 1 .. n : d + k \in 1 .. Len(rows)
      BY <1>2, <1>3, <2>2
    <3> SUFFICES ASSUME NEW i \in 1 .. n, NEW j \in 1 .. n, rows'[i] = rows'[j] PROVE i = j
      BY <2>2 DEF OnceEach
    <3>2. d + i = d + j
      BY <1>2, <2>2, <3>1 DEF OnceEach
    <3> QED
      BY <1>3, <2>2, <3>2
  <2>4. Len(rows) <= job.limit => \A k \in 1 .. Len(rows) : rows'[k] = rows[k]
    <3> SUFFICES ASSUME Len(rows) <= job.limit, NEW k \in 1 .. Len(rows) PROVE rows'[k] = rows[k]
      OBVIOUS
    <3>1. n = Len(rows) /\ d = 0 /\ d + k = k
      BY <1>2, <1>3, <2>2
    <3> QED
      BY <2>2, <3>1
  <2> QED
    BY <1>2, <1>3, <1>5, <2>2, <2>3, <2>4
<1> QED
  BY <1>4, <1>5

\* What is known when a call is answered.
LEMMA AtAnswer ==
    ASSUME Listed, Answer, Next
    PROVE  /\ JobOK /\ TypeOK /\ RowOK(op) /\ Placed /\ Turned /\ Told /\ Apart /\ Kept /\ Covered /\ CutIsTrue
           /\ job' = job /\ op' = op /\ ~Busy /\ Pending = {}
           /\ (truncated' => IsCut) /\ (~truncated' => ~IsCut)
           /\ total' = Total /\ warned' = warned /\ dropped' = dropped /\ seen' = seen
           /\ pos' = pos /\ got' = got /\ pages' = pages /\ examined' = examined /\ answer' = "given"
<1> USE DEF reading
<1>1. pc = "open" /\ queue = <<>>
  BY DEF Answer
<1>2. Waiting = {}
  BY <1>1 DEF Waiting
<1>3. ~Busy /\ Pending = {}
  BY <1>1, <1>2 DEF Busy, Pending
<1>4. truncated' = IsCut
  BY DEF Answer
<1>5. (truncated' => IsCut) /\ (~truncated' => ~IsCut)
  BY <1>4
<1>6. /\ total' = Total /\ warned' = warned /\ dropped' = dropped /\ seen' = seen
      /\ pos' = pos /\ got' = got /\ pages' = pages /\ examined' = examined /\ answer' = "given"
  BY DEF Answer
<1> QED
  BY <1>3, <1>5, <1>6, Moves DEF Underway

\* An answer that is not called truncated was not cut on the way.
LEMMA NotCut ==
    ASSUME JobOK, CutIsTrue, ~IsCut
    PROVE  /\ ~truncated
           /\ op.stop = "after" /\ Flat => ~(Len(rows) > job.limit)
           /\ op.more = "no" => ~FullAnswer
           /\ op.more = "count" => ~(total # Unknown /\ total > got)
           /\ op.more = "short" => ~MoreAnnounced /\ ~(pages = MaxPages /\ Len(rows) < job.limit /\ ~Short)
<1>1. RowOK(op)
  BY DEF JobOK
<1>2. CASE op.more = "no" /\ op.stop = "after"
  <2>1. Flat
    BY <1>1, <1>2 DEF RowOK, Flat
  <2> QED
    BY <1>1, <1>2, <2>1 DEF IsCut, CutIsTrue
<1>3. CASE op.more = "no" /\ op.stop # "after"
  <2>1. ~truncated
    BY <1>3 DEF IsCut
  <2>2. ~FullAnswer
    BY <1>1, <1>3 DEF FullAnswer, RowOK
  <2> QED
    BY <1>3, <2>1, <2>2
<1>4. CASE op.more = "short"
  <2>1. Flat /\ op.stop = "after"
    BY <1>1, <1>4 DEF RowOK, Flat
  <2> QED
    BY <1>4, <2>1 DEF IsCut, CutIsTrue
<1>5. CASE op.more = "count"
  <2>1. op.stop # "after"
    BY <1>1, <1>5 DEF RowOK
  <2> QED
    BY <1>5, <2>1 DEF IsCut
<1>6. CASE op.more \in {"total", "header", "link"}
  BY <1>6 DEF IsCut, Flat
<1> QED
  BY <1>1, <1>2, <1>3, <1>4, <1>5, <1>6 DEF RowOK

\* Of what is excused, an answer speaks.
LEMMA NothingExcused ==
    ASSUME JobOK, TypeOK, Turned, Flat, ~FullAnswer \/ op.more # "no",
           op.more = "count" => ~(total # Unknown /\ total > got),
           op.more = "short" =>
               /\ ~MoreAnnounced /\ ~(Len(rows) > job.limit)
               /\ ~(pages = MaxPages /\ Len(rows) < job.limit /\ ~Short)
               /\ ~(total = Unknown /\ Len(rows) = job.limit)
    PROVE  ~Excused
<1>1. op.more = "short" => ~op.late
  BY DEF JobOK, RowOK
<1>2. op.more = "short" => pages <= MaxPages
  BY <1>1 DEF Turned
<1>3. pages \in Nat /\ MaxPages \in Nat /\ Len(rows) \in Nat /\ job.limit \in Nat
  BY ListingAssumption DEF TypeOK, JobOK
<1>4. op.more = "short" /\ pages >= MaxPages => pages = MaxPages
  BY <1>2, <1>3
<1>5. ~(Len(rows) > job.limit) /\ Len(rows) # job.limit => Len(rows) < job.limit /\ ~(Len(rows) >= job.limit)
  BY <1>3
<1> QED
  BY <1>4, <1>5 DEF Excused

LEMMA CompleteAtAnswer == ASSUME Listed, Answer, Next PROVE CompleteIsTrue'
<1>1. /\ JobOK /\ TypeOK /\ RowOK(op) /\ Placed /\ Turned /\ Told /\ Apart /\ Kept /\ Covered /\ CutIsTrue
      /\ job' = job /\ op' = op /\ ~Busy /\ Pending = {}
      /\ (truncated' => IsCut) /\ (~truncated' => ~IsCut)
      /\ total' = Total /\ warned' = warned /\ dropped' = dropped /\ seen' = seen
  BY AtAnswer
<1>2. /\ Len(rows) \in Nat /\ Len(rows') \in Nat /\ OnceEach(rows')
      /\ ~(op.stop = "after" /\ Flat) => rows' = rows
      /\ Len(rows) <= job.limit => Len(rows') = Len(rows) /\ \A k \in 1 .. Len(rows) : rows'[k] = rows[k]
  BY AnswerGives
<1>3. job.limit \in Nat /\ job.from \in Nat
  BY <1>1, Origin DEF JobOK
<1> SUFFICES ASSUME ~truncated', ~warned', ~TakenForAll', ~CutUnseen'
             PROVE  /\ \A place \in job.wanted' \ dropped' :
                          place[1] \in ToRead' /\ place[2] > job.from' => Given(place[1], place[2])'
                    /\ op'.walk = "tree" =>
                          \A s \in seen' : \A i \in 1 .. Size(s)' : job.holds'[s][i] \in seen' \cup {0}
  BY <1>2 DEF CompleteIsTrue, OnceEach
<1>4. ~CutUnseen /\ ~warned /\ ~IsCut
  BY <1>1 DEF CutUnseen, Size
<1>5. /\ ~truncated
      /\ op.stop = "after" /\ Flat => ~(Len(rows) > job.limit)
      /\ op.more = "no" => ~FullAnswer
      /\ op.more = "count" => ~(total # Unknown /\ total > got)
      /\ op.more = "short" => ~MoreAnnounced /\ ~(pages = MaxPages /\ Len(rows) < job.limit /\ ~Short)
  BY <1>1, <1>4, NotCut
<1>6. Len(rows') = Len(rows) /\ \A k \in 1 .. Len(rows) : rows'[k] = rows[k]
  BY <1>2, <1>3, <1>5
<1>7. op.more = "short" => ~(Len(rows) > job.limit) /\ ~(total = Unknown /\ Len(rows) = job.limit)
  <2> SUFFICES ASSUME op.more = "short"
               PROVE  ~(Len(rows) > job.limit) /\ ~(total = Unknown /\ Len(rows) = job.limit)
    OBVIOUS
  <2>1. Flat /\ op.stop = "after" /\ total' = total
    BY <1>1 DEF RowOK, Flat, Total
  <2> QED
    BY <1>1, <1>5, <1>6, <2>1 DEF TakenForAll
<1>8. Flat => ~Excused
  BY <1>1, <1>5, <1>7, NothingExcused
<1>9. \A s \in ToRead : Through(s, Size(s)) /\ Followed(s, Size(s))
  BY <1>1, <1>4, <1>5, <1>8 DEF Covered
<1>10. \A s, i : Given(s, i) => Given(s, i)'
  BY <1>6 DEF Given
<1>11. \A s \in Source : Size(s)' = Size(s) /\ Size(s) \in Nat
  BY <1>1 DEF Size, JobOK
<1>12. ASSUME NEW place \in job.wanted \ dropped, place[1] \in ToRead, place[2] > job.from
       PROVE  Given(place[1], place[2])'
  <2>1. PICK s \in Source : place \in {s} \X (1 .. Len(job.holds[s]))
    BY <1>1 DEF JobOK, PlacesOf
  <2>2. place[1] = s /\ place[2] \in 1 .. Size(s) /\ place = <<s, place[2]>>
    BY <2>1 DEF Size
  <2>3. job.from < place[2] /\ place[2] <= Size(s)
    BY <1>3, <1>11, <1>12, <2>2
  <2>4. Through(s, Size(s))
    BY <1>9, <1>12, <2>2
  <2>5. Given(s, place[2])
    BY <1>12, <2>2, <2>3, <2>4 DEF Through
  <2> QED
    BY <1>10, <2>2, <2>5
<1>13. ASSUME op.walk = "tree", NEW s \in seen, NEW i \in 1 .. Size(s) PROVE job.holds[s][i] \in seen \cup {0}
  <2>1. s \in ToRead /\ s \in Source
    BY <1>1, <1>13 DEF ToRead, TypeOK
  <2>2. i <= Size(s)
    BY <1>11, <1>13, <2>1
  <2> QED
    BY <1>9, <1>13, <2>1, <2>2 DEF Followed
<1>14. ToRead' = ToRead
  BY <1>1 DEF ToRead
<1>15. \A s \in seen : Size(s)' = Size(s)
  BY <1>1, <1>11 DEF TypeOK
<1> QED
  BY <1>1, <1>12, <1>13, <1>14, <1>15

LEMMA BoundsAtAnswer == ASSUME Listed, Answer, Next PROVE BoundsKept'
<1>1. /\ JobOK /\ TypeOK /\ RowOK(op) /\ Turned /\ Kept
      /\ job' = job /\ op' = op /\ ~Busy /\ examined' = examined /\ pages' = pages
  BY AtAnswer
<1>2. /\ Len(rows) \in Nat /\ Len(rows') \in Nat /\ Len(rows') <= Len(rows)
      /\ op.stop = "after" /\ Flat => Len(rows') <= job.limit
  BY AnswerGives
<1>3. /\ job.limit \in Nat /\ examined \in Nat /\ weight \in Nat /\ MaxWeight \in Nat
  BY <1>1, ListingAssumption DEF JobOK, TypeOK
<1>4. op.stop = "after" /\ ~Flat => Categories
  BY <1>1 DEF RowOK, Flat, Categories
<1>5. Len(rows') <= IF op.stop = "never" THEN MaxWeight ELSE job.limit
  <2>1. CASE op.stop = "never"
    BY <1>1, <1>2, <1>3, <2>1 DEF Kept
  <2>2. CASE op.stop = "reached"
    BY <1>1, <1>2, <1>3, <2>2 DEF Kept
  <2>3. CASE op.stop = "exceeded"
    <3>1. Len(rows) <= job.limit
      BY <1>1, <1>2, <1>3, <2>3 DEF Kept, RowOK
    <3> QED
      BY <1>2, <1>3, <2>3, <3>1
  <2>4. CASE op.stop = "after"
    <3>1. Categories => Len(rows) <= job.limit
      BY <1>1, <1>2, <1>3 DEF Kept
    <3> QED
      BY <1>2, <1>3, <1>4, <2>4, <3>1
  <2> QED
    BY <1>1, <2>1, <2>2, <2>3, <2>4 DEF RowOK
<1>6. op.weighs => Len(rows') <= MaxWeight
  <2> SUFFICES ASSUME op.weighs PROVE Len(rows) <= weight /\ weight <= MaxWeight
    BY <1>2, <1>3
  <2>1. op.stop = "exceeded" \/ Categories
    BY <1>1, <1>4 DEF RowOK, Flat
  <2> QED
    BY <1>1, <2>1 DEF Kept
<1>7. op.bounds = "examined" => examined' <= job.limit
  BY <1>1 DEF Kept
<1>8. pages' <= IF op.late THEN MaxPages + 1 ELSE MaxPages
  BY <1>1 DEF Turned
<1> QED
  BY <1>1, <1>5, <1>6, <1>7, <1>8 DEF BoundsKept

\* No more rows than wanted entries; and as many, when all of them were given.
LEMMA RowsAmongWanted ==
    ASSUME JobOK, TypeOK, Apart, Flat
    PROVE  /\ Len(rows) <= Cardinality(job.wanted) /\ Cardinality(job.wanted) \in Nat
           /\ job.from = 0 /\ Through(1, Size(1)) => Len(rows) = Cardinality(job.wanted \ dropped)
<1>1. /\ PlacesOf(job.holds) = {1} \X (1 .. Size(1)) /\ IsFiniteSet(PlacesOf(job.holds))
      /\ Size(1) \in Nat
  BY FlatPlaces
<1>2. job.wanted \in SUBSET PlacesOf(job.holds) /\ job.wanted \ dropped \in SUBSET PlacesOf(job.holds)
  BY DEF JobOK
<1>3. IsFiniteSet(job.wanted) /\ IsFiniteSet(job.wanted \ dropped)
  BY <1>1, <1>2, FS_Subset
<1>4. Cardinality(job.wanted) \in Nat
  BY <1>3, FS_CardinalityType
<1>5. rows \in Seq(Source \X Nat) /\ OnceEach(rows)
  BY DEF TypeOK, Apart, OnceEach
<1>6. \A k \in 1 .. Len(rows) : rows[k] \in job.wanted /\ rows[k] \in job.wanted \ dropped
  BY DEF Apart
<1>7. Len(rows) <= Cardinality(job.wanted)
  BY <1>3, <1>5, <1>6, Counting
<1>8. ASSUME job.from = 0, Through(1, Size(1)), NEW x \in job.wanted \ dropped
      PROVE  \E k \in 1 .. Len(rows) : rows[k] = x
  <2>1. x \in {1} \X (1 .. Size(1))
    BY <1>1, <1>2, <1>8
  <2>2. x = <<1, x[2]>> /\ x[2] \in 1 .. Size(1)
    BY <2>1
  <2>3. 0 < x[2] /\ x[2] <= Size(1)
    BY <1>1, <2>2
  <2>4. Given(1, x[2])
    BY <1>8, <2>2, <2>3 DEF Through
  <2> QED
    BY <2>2, <2>4 DEF Given
<1>9. ASSUME job.from = 0, Through(1, Size(1)) PROVE Len(rows) = Cardinality(job.wanted \ dropped)
  <2>1. \A x \in job.wanted \ dropped : \E k \in 1 .. Len(rows) : rows[k] = x
    BY <1>8, <1>9
  <2> QED
    BY <1>3, <1>5, <1>6, <2>1, Counting
<1> QED
  BY <1>4, <1>7, <1>9

\* A total that an answer gives is the number there is.
LEMMA TotalIsTrue ==
    ASSUME Listed, Answer, Next, total' # Unknown
    PROVE  total' = Cardinality(IF op.total = "announced" THEN job.wanted ELSE job.wanted \ dropped)
<1>1. /\ JobOK /\ TypeOK /\ RowOK(op) /\ Placed /\ Turned /\ Told /\ Apart /\ Covered /\ CutIsTrue
      /\ ~Busy /\ Pending = {} /\ total' = Total
  BY AtAnswer
<1>2. CASE op.total = "announced"
  <2>1. total = total' /\ Flat /\ job.wanted = PlacesOf(job.holds)
    BY <1>1, <1>2 DEF Total, RowOK, Flat, JobOK
  <2>2. total = Size(1)
    BY <1>1, <2>1 DEF Told
  <2> QED
    BY <1>1, <1>2, <2>1, <2>2, FlatPlaces
<1>3. CASE op.total = "counted"
  <2>1. /\ Flat /\ op.more \in {"no", "total"} /\ op.skips = {} /\ op.reads.odd # "unread" /\ ~op.cuts
        /\ ~op.resumes /\ (op.more = "no" => op.stop = "after")
    BY <1>1, <1>3 DEF RowOK, Flat
  <2>2. /\ total' = Len(rows)
        /\ op.more = "no" => ~FullAnswer
        /\ op.more = "total" => ~truncated
    BY <1>1, <1>3, <2>1 DEF Total
  <2>3. ~truncated
    BY <1>1, <2>1, <2>2 DEF CutIsTrue
  <2>4. ~warned /\ ~CutUnseen /\ seen = {1}
    BY <1>1, <2>1 DEF Placed, CutUnseen, Flat
  <2>5. ~Excused
    BY <2>1, <2>2 DEF Excused
  <2>6. Through(1, Size(1))
    BY <1>1, <2>1, <2>3, <2>4, <2>5 DEF Covered, ToRead, Flat
  <2>7. job.from = 0
    BY <1>1, <2>1 DEF JobOK
  <2> QED
    BY <1>1, <1>3, <2>1, <2>2, <2>6, <2>7, RowsAmongWanted
<1>4. CASE op.total = "none"
  BY <1>1, <1>4 DEF Total
<1> QED
  BY <1>1, <1>2, <1>3, <1>4 DEF RowOK

\* What an answer calls truncated, is, if it could be known.
LEMMA TruncatedIsTrue ==
    ASSUME Listed, Answer, Next, truncated', CouldKnow'
    PROVE  Len(rows') < Cardinality(job.wanted) \/ pos < Size(1)
<1>1. /\ JobOK /\ TypeOK /\ RowOK(op) /\ Placed /\ Turned /\ Told /\ Apart /\ Kept /\ CutIsTrue
      /\ job' = job /\ op' = op /\ ~Busy /\ IsCut /\ total' = Total /\ pos' = pos /\ got' = got
  BY AtAnswer
<1>2. /\ Len(rows) \in Nat /\ Len(rows') \in Nat /\ Len(rows') <= Len(rows)
      /\ op.stop = "after" /\ Flat /\ Len(rows) > job.limit => Len(rows') = job.limit
  BY AnswerGives
<1>3. Flat /\ (op.more = "total" \/ op.asks = "all" \/ (op.more = "short" /\ total' # Unknown))
  BY <1>1 DEF CouldKnow, Flat
<1>4. /\ Len(rows) <= Cardinality(job.wanted) /\ Cardinality(job.wanted) \in Nat
      /\ Cardinality(PlacesOf(job.holds)) = Size(1) /\ Size(1) \in Nat
  BY <1>1, <1>3, RowsAmongWanted, FlatPlaces
<1>5. /\ job.limit \in Nat /\ got \in Nat /\ pos \in Nat /\ pages \in Nat /\ Here = 1 /\ got <= Size(1)
      /\ total \in Nat \cup {Unknown}
  BY <1>1, <1>3 DEF JobOK, TypeOK, Placed
<1>6. ASSUME op.stop = "after", Len(rows) > job.limit PROVE Len(rows') < Cardinality(job.wanted)
  BY <1>2, <1>3, <1>4, <1>5, <1>6
<1>7. CASE op.more = "no" /\ op.stop = "after"
  <2>1. op.asks = "all"
    BY <1>3, <1>7
  <2>2. Len(rows) > job.limit
    BY <1>1, <1>7, <2>1 DEF IsCut, FullAnswer
  <2> QED
    BY <1>6, <1>7, <2>2
<1>8. CASE op.more = "short"
  <2>1. op.stop = "after" /\ op.asks = "limit" /\ total' = total /\ job.wanted = PlacesOf(job.holds)
    BY <1>1, <1>8 DEF RowOK, Total, JobOK
  <2>2. total # Unknown /\ total = Size(1)
    BY <1>1, <1>3, <1>8, <2>1 DEF Told
  <2>3. CASE Len(rows) > job.limit
    BY <1>6, <2>1, <2>3
  <2>4. CASE MoreAnnounced
    <3>1. Size(1) > Len(rows)
      BY <2>2, <2>4 DEF MoreAnnounced
    <3> QED
      BY <1>2, <1>4, <2>1, <3>1
  <2>5. CASE pages = MaxPages /\ Len(rows) < job.limit /\ ~Short
    <3>1. ~(got < job.limit)
      BY <2>1, <2>5 DEF Short, Asked
    <3>2. Size(1) > Len(rows)
      BY <1>2, <1>4, <1>5, <2>5, <3>1
    <3> QED
      BY <1>2, <1>4, <2>1, <3>2
  <2> QED
    BY <1>1, <1>8, <2>3, <2>4, <2>5 DEF IsCut
<1>9. CASE op.more = "count"
  <2>1. op.asks = "all"
    BY <1>1, <1>9 DEF RowOK
  <2>2. truncated \/ (total # Unknown /\ total > got)
    BY <1>1, <1>9 DEF IsCut
  <2>3. CASE truncated
    BY <1>1, <1>3, <2>1, <2>3 DEF CutIsTrue
  <2>4. CASE total # Unknown /\ total > got
    <3>1. Size(1) > got /\ pos <= got
      BY <1>1, <1>9, <2>4 DEF Told
    <3> QED
      BY <1>4, <1>5, <3>1
  <2> QED
    BY <2>2, <2>3, <2>4
<1>10. CASE ~(op.more = "no" /\ op.stop = "after") /\ op.more \notin {"short", "count"}
  <2>1. truncated \/ (op.stop = "after" /\ Len(rows) > job.limit)
    BY <1>1, <1>10 DEF IsCut
  <2>2. CASE truncated
    BY <1>1, <1>3, <1>10, <2>2 DEF CutIsTrue
  <2> QED
    BY <1>6, <2>1, <2>2
<1> QED
  BY <1>7, <1>8, <1>9, <1>10

LEMMA EnvelopeAtAnswer == ASSUME Listed, Answer, Next PROVE EnvelopeIsTrue'
<1>1. job' = job /\ op' = op /\ pos' = pos /\ dropped' = dropped
  BY AtAnswer
<1>2. total' # Unknown =>
         total' = Cardinality(IF op.total = "announced" THEN job.wanted ELSE job.wanted \ dropped)
  BY TotalIsTrue
<1>3. truncated' /\ CouldKnow' => Len(rows') < Cardinality(job.wanted) \/ pos < Size(1)
  BY TruncatedIsTrue
<1> QED
  BY <1>1, <1>2, <1>3 DEF EnvelopeIsTrue, Size

LEMMA EndStep == ASSUME Listed, Next, pc' = "done" PROVE Ended'
<1>1. CASE Answer
  BY <1>1, CompleteAtAnswer, EnvelopeAtAnswer, BoundsAtAnswer DEF Ended
<1>2. CASE ~Answer
  <2>1. /\ answer' = "failed" /\ OnceEach(rows')
        /\ op.bounds = "examined" => examined' <= job.limit
        /\ pages' <= IF op.late THEN MaxPages + 1 ELSE MaxPages
    BY <1>2, FailedEnds
  <2>2. job' = job /\ op' = op
    BY Moves
  <2>3. CompleteIsTrue'
    BY <2>1 DEF CompleteIsTrue, OnceEach
  <2>4. EnvelopeIsTrue'
    BY <2>1 DEF EnvelopeIsTrue
  <2>5. BoundsKept'
    BY <2>1, <2>2 DEF BoundsKept
  <2> QED
    BY <2>3, <2>4, <2>5 DEF Ended
<1> QED
  BY <1>1, <1>2

-----------------------------------------------------------------------------
(* What holds throughout.                                                  *)

LEMMA ListedStep == Listed /\ [Next]_vars => Listed'
<1> SUFFICES ASSUME Listed, [Next]_vars PROVE Listed'
  OBVIOUS
<1>1. CASE Next
  <2>1. JobOK'
    BY <1>1, Moves, JobStep
  <2>2. TypeOK'
    BY <1>1, TypeStep
  <2>3. pc' # "done" => Underway'
    BY <1>1, PlacedStep, TurnedStep, ToldStep, ApartStep, KeptStep, CoveredStep, CutIsTrueStep DEF Underway
  <2>4. pc' = "done" => Ended'
    BY <1>1, EndStep
  <2> QED
    BY <2>1, <2>2, <2>3, <2>4 DEF Listed
<1>2. CASE UNCHANGED vars
  <2> USE DEF vars
  <2>1. JobOK' /\ TypeOK'
    BY <1>2 DEF Listed, JobOK, Suits, TypeOK, op
  <2>2. /\ job' = job /\ op' = op /\ pc' = pc /\ Here' = Here /\ queue' = queue /\ rows' = rows /\ seen' = seen
        /\ dropped' = dropped /\ total' = total /\ got' = got /\ pos' = pos /\ left' = left /\ next' = next
        /\ pages' = pages /\ examined' = examined /\ weight' = weight /\ truncated' = truncated
        /\ warned' = warned /\ answer' = answer
    BY <1>2 DEF op, Here
  <2> HIDE DEF vars
  <2>4. pc # "done" => Underway'
    <3> SUFFICES ASSUME Underway PROVE Underway'
      BY DEF Listed
    <3>1. Placed' /\ Turned'
      BY <2>2 DEF Underway, Placed, Turned, Flat, Busy, Waiting, Size, PagesBefore
    <3>2. Told'
      BY <2>2 DEF Underway, Told, Ends, FullAnswer, CutUnseen, Short, Asked, Size
    <3>3. /\ Waiting' = Waiting /\ (Busy' <=> Busy) /\ Pending' = Pending /\ ToRead' = ToRead
          /\ (Flat' <=> Flat) /\ (Categories' <=> Categories) /\ Before' = Before
      <4>1. Waiting' = Waiting /\ (Busy' <=> Busy) /\ ToRead' = ToRead
        BY <2>2 DEF Waiting, Busy, ToRead
      <4>2. Pending' = Pending
        BY <2>2, <4>1 DEF Pending
      <4>3. Before' = Before /\ (Flat' <=> Flat) /\ (Categories' <=> Categories)
        BY <2>2 DEF Before, Normal, Flat, Categories
      <4> QED
        BY <4>1, <4>2, <4>3
    <3>4. Apart'
      BY <2>2, <3>3 DEF Underway, Apart
    <3>5. Kept'
      BY <2>2, <3>3 DEF Underway, Kept
    <3>6. Covered'
      <4>1. (CutUnseen' <=> CutUnseen) /\ (Excused' <=> Excused)
        BY <2>2 DEF CutUnseen, Excused, FullAnswer, MoreAnnounced, Short, Asked, Size
      <4>2. \A s : Over(s)' <=> Over(s)
        BY <2>2 DEF Over, Through, Followed, Given, Size
      <4>3. (Through(Here, pos)' <=> Through(Here, pos)) /\ (Followed(Here, pos)' <=> Followed(Here, pos))
        BY <2>2 DEF Through, Followed, Given, Size
      <4> QED
        BY <2>2, <3>3, <4>1, <4>2, <4>3 DEF Underway, Covered, Over
    <3>7. CutIsTrue'
      BY <2>2 DEF Underway, CutIsTrue, Flat, Size
    <3> QED
      BY <3>1, <3>2, <3>4, <3>5, <3>6, <3>7 DEF Underway
  <2>5. pc = "done" => Ended'
    BY <2>2 DEF Listed, Ended, CompleteIsTrue, EnvelopeIsTrue, BoundsKept, TakenForAll, CutUnseen, ToRead,
       Given, CouldKnow, Size
  <2> QED
    BY <2>1, <2>2, <2>4, <2>5 DEF Listed
<1> QED
  BY <1>1, <1>2

\* Every call is a listed one: how a listing goes on, and how it ends, is as
\* described for all operations, holdings, limits and pages.
LEMMA ListedAlways == Spec => []Listed
<1>1. Init => Listed
  BY Starts
<1>2. Listed /\ [Next]_vars => Listed'
  BY ListedStep
<1> QED
  BY <1>1, <1>2, PTL DEF Spec

\* An answer that says it is complete holds every wanted entry of every list,
\* and of every folder, and none is given twice: whatever the service holds
\* and however it pages.
THEOREM CompleteIsTrueAlways == Spec => []CompleteIsTrue
<1>1. Listed => CompleteIsTrue
  <2> SUFFICES ASSUME Listed PROVE CompleteIsTrue
    OBVIOUS
  <2>1. CASE pc = "done"
    BY <2>1 DEF Listed, Ended
  <2>2. CASE pc # "done"
    BY <2>2 DEF Listed, Underway, Placed, Apart, CompleteIsTrue
  <2> QED
    BY <2>1, <2>2
<1> QED
  BY <1>1, ListedAlways, PTL

\* A total that is given is the number of wanted entries, and what is called
\* truncated is, where anybody can know.
THEOREM EnvelopeIsTrueAlways == Spec => []EnvelopeIsTrue
<1>1. Listed => EnvelopeIsTrue
  <2> SUFFICES ASSUME Listed PROVE EnvelopeIsTrue
    OBVIOUS
  <2>1. CASE pc = "done"
    BY <2>1 DEF Listed, Ended
  <2>2. CASE pc # "done"
    BY <2>2 DEF Listed, Underway, Placed, EnvelopeIsTrue
  <2> QED
    BY <2>1, <2>2
<1> QED
  BY <1>1, ListedAlways, PTL

\* Rows, examined entries, bytes and pages stay within their limits.
THEOREM BoundsKeptAlways == Spec => []BoundsKept
<1>1. Listed => BoundsKept
  <2> SUFFICES ASSUME Listed PROVE BoundsKept
    OBVIOUS
  <2>1. CASE pc = "done"
    BY <2>1 DEF Listed, Ended
  <2>2. CASE pc # "done"
    BY <2>2 DEF Listed, Underway, Placed, Kept, Turned, BoundsKept
  <2> QED
    BY <2>1, <2>2
<1> QED
  BY <1>1, ListedAlways, PTL
=============================================================================
