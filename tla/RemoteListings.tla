---------------------------- MODULE RemoteListings ----------------------------
(***************************************************************************)
(* One call of a listing operation against a service whose entries stay as *)
(* they are while it runs.  The service chooses how much a page holds      *)
(* where the operation leaves it the choice, and whether it announces a    *)
(* total or the next page.                                                 *)
(*                                                                         *)
(* Lists are numbered.  An entry is 0, or the number of the list that it   *)
(* is the folder of; it is known by its place <<list, index>>.             *)
(***************************************************************************)
EXTENDS ListingOperations, FiniteSets, Sequences

CONSTANTS
    Lists,        \* how many lists there are
    Holdings,     \* what they may hold
    Limits,       \* the limits a caller may name
    PageSize,     \* entries of a full page
    MaxPages,     \* page limit
    MaxSources,   \* how many lists of several are read
    MaxDepth,     \* how deep folders are followed
    MaxWeight,    \* how many bytes may be given, an entry being one
    MaxDropped,   \* bound: entries that are dropped without a word
    Unknown       \* no total

Source == 1 .. Lists

ASSUME ListingAssumption ==
    /\ Lists \in Nat \ {0} /\ PageSize \in Nat \ {0} /\ MaxPages \in Nat \ {0}
    /\ MaxSources \in Nat \ {0} /\ MaxDepth \in Nat /\ MaxWeight \in Nat \ {0}
    /\ MaxDropped \in Nat
    /\ Holdings \subseteq [Source -> Seq(0 .. Lists)] /\ Limits \subseteq Nat \ {0}
    /\ Unknown \notin Nat

VARIABLES
    job,         \* operation, what the lists hold, what is wanted of it, limit, start
    pc,          \* "resolve", "open", "fetch", "examine", "done"
    queue,       \* the lists still to be read, with their depths
    here,        \* the list being read, with its depth
    pos,         \* entries of it behind us
    left,        \* entries of the page still to be examined
    got,         \* entries the page brought
    next,        \* whether it named another
    pages,       \* pages read, of this list where several are read
    seen,        \* folders that are queued or read
    rows,        \* what is given, as places
    dropped,     \* what is left out without a word, as places
    examined,    \* entries that count against the limit
    weight,      \* bytes used up
    total,       \* the total to be given
    truncated, warned,
    answer       \* "none", "given" or "failed"

vars == <<job, pc, queue, here, pos, left, got, next, pages, seen, rows,
          dropped, examined, weight, total, truncated, warned, answer>>

reading == <<pos, left, got, next, pages>>
outcome == <<truncated, warned>>
kept == <<rows, dropped, examined, weight>>

op == job.op
Here == here.list
Size(s) == Len(job.holds[s])
PlacesOf(holds) == UNION {{s} \X (1 .. Len(holds[s])) : s \in Source}
Smaller(a, b) == IF a < b THEN a ELSE b
Wanted(i) == <<Here, i>> \in job.wanted

\* A list to be read, with its depth.
Visit == [list : Source, depth : Nat]

TypeOK ==
    /\ pc \in {"resolve", "open", "fetch", "examine", "done"}
    /\ queue \in Seq(Visit)
    /\ here \in Visit
    /\ pos \in Nat /\ left \in Nat /\ got \in Nat
    /\ next \in BOOLEAN
    /\ pages \in Nat
    /\ seen \subseteq Source
    /\ rows \in Seq(Source \X Nat)
    /\ dropped \subseteq PlacesOf(job.holds)
    /\ examined \in Nat /\ weight \in Nat
    /\ total \in Nat \cup {Unknown}
    /\ truncated \in BOOLEAN /\ warned \in BOOLEAN
    /\ answer \in {"none", "given", "failed"}

-----------------------------------------------------------------------------
(* The lists of a call.                                                    *)

Suits(o, holds) ==
    /\ o.walk = "flat" => \A s \in Source \ {1} : holds[s] = <<>>
    /\ o.walk # "tree" => \A s \in Source : \A i \in 1 .. Len(holds[s]) : holds[s][i] = 0

\* At most MaxSources of several lists.
Chosen(o) ==
    IF o.walk = "each" THEN [s \in 1 .. Smaller(Lists, MaxSources) |-> [list |-> s, depth |-> 0]]
    ELSE <<[list |-> 1, depth |-> 0]>>

\* A continuation names a page within the limit and an offset in it.
Start == 0 .. PageSize * MaxPages - 1

Init ==
    /\ \E o \in Listing, h \in Holdings, limit \in Limits :
        /\ Suits(o, h)
        /\ \E wanted \in IF o.filters THEN SUBSET PlacesOf(h) ELSE {PlacesOf(h)} :
           \E from \in IF o.resumes THEN Start ELSE {0} :
            job = [op |-> o, holds |-> h, wanted |-> wanted, limit |-> limit, from |-> from]
    /\ pc = IF op.resolves THEN "resolve" ELSE "open"
    /\ queue = Chosen(op)
    /\ here = [list |-> 1, depth |-> 0]
    /\ pos = 0 /\ left = 0 /\ got = 0 /\ next = FALSE
    /\ pages = 0
    /\ seen = {1}
    /\ rows = <<>> /\ dropped = {} /\ examined = 0 /\ weight = 0
    /\ total = Unknown
    /\ truncated = (op.walk = "each" /\ Lists > MaxSources)
    /\ warned = FALSE
    /\ answer = "none"

-----------------------------------------------------------------------------
(* Bounds.                                                                 *)

Fail ==
    /\ pc' = "done" /\ answer' = "failed"

Count == IF op.bounds = "rows" THEN Len(rows) ELSE examined
Full == Count >= job.limit

\* Something is left out for good.  With several lists, the next is opened.
Cut ==
    IF op.beyond = "fail" THEN Fail /\ UNCHANGED <<queue, truncated>>
    ELSE /\ truncated' = TRUE
         /\ queue' = IF op.walk = "each" THEN queue ELSE <<>>
         /\ pc' = "open"
         /\ UNCHANGED answer

-----------------------------------------------------------------------------
(* The project is looked up; there may be none of that name.               *)

Resolve ==
    /\ pc = "resolve"
    /\ (pc' = "open" /\ UNCHANGED answer) \/ Fail
    /\ UNCHANGED <<job, queue, here, reading, seen, kept, total, outcome>>

-----------------------------------------------------------------------------
(* Opening a list.                                                         *)

\* Read no further list of several when the limit is reached, and no folder
\* beyond the page limit.
Stopped ==
    \/ op.walk = "each" /\ op.bounds = "rows" /\ op.stop = "exceeded" /\ Full /\ Len(queue) < Len(Chosen(op))
    \/ op.walk # "each" /\ ~op.late /\ op.more = "link" /\ pages >= MaxPages

\* Pages that a continued call leaves out.
PagesBefore == job.from \div PageSize

Open ==
    /\ pc = "open" /\ queue # <<>> /\ ~Stopped
    /\ pc' = "fetch"
    /\ here' = Head(queue)
    /\ queue' = Tail(queue)
    /\ pages' = IF op.walk = "tree" THEN pages ELSE PagesBefore
    /\ pos' = PagesBefore * PageSize
    /\ left' = 0 /\ got' = 0 /\ next' = FALSE
    /\ UNCHANGED <<job, seen, kept, total, outcome, answer>>

Stop ==
    /\ pc = "open" /\ queue # <<>> /\ Stopped
    /\ truncated' = TRUE
    /\ queue' = <<>>
    /\ UNCHANGED <<job, pc, here, reading, seen, kept, total, warned, answer>>

\* The lists are categories of sites.
Categories == op.walk = "each" /\ op.stop = "after"

\* What this list has brought, and what was given before it.
Normal == Cardinality({k \in 1 .. Len(rows) : rows[k][1] = Here})
Before == SubSeq(rows, 1, Len(rows) - Normal)

\* A list is passed over.
Passed == pc' = "open" /\ warned' = TRUE /\ UNCHANGED answer

-----------------------------------------------------------------------------
(* A page.                                                                 *)

Asked == CASE op.asks = "page" -> PageSize
           [] op.asks = "limit" -> job.limit
           [] op.asks = "all" -> Size(Here)

\* The service: what a page may bring when n entries are left.  It fills the
\* page unless the handler can tell a short page from the last.
Brings(n, announced) ==
    LET most == Smaller(Asked, n)
    IN CASE op.more = "link" \/ (op.more = "count" /\ announced) -> 0 .. most
         [] op.more = "total" \/ (op.more = "short" /\ announced) ->
              IF n = 0 THEN {0} ELSE 1 .. most
         [] OTHER -> {most}

\* ... and whether it names the next page: a header may be missing after a full
\* page.
Names(n) ==
    CASE op.more = "link" -> {n > 0}
      [] op.more = "header" -> IF got' = PageSize THEN {n > 0, FALSE} ELSE {n > 0}
      [] OTHER -> {FALSE}

\* ... and which total it announces.
Announces ==
    CASE op.more = "total" -> {Size(Here)}
      [] op.more \in {"short", "count"} -> {Size(Here), Unknown}
      [] OTHER -> {Unknown}

Skipped == IF pages = PagesBefore THEN job.from % PageSize ELSE 0

Behind(n) == IF pos > n THEN 0 ELSE n - pos

\* No more is looked at than this.
Looked(n) == IF op.cuts THEN Smaller(n, MaxWeight) ELSE n

\* A slip: a page without entries is not counted.
CountedUnlessEmpty == IF got' = 0 THEN pages ELSE pages + 1

Counted == pages + 1

Fetch ==
    /\ pc = "fetch"
    /\ \E t \in Announces : \E g \in Brings(Behind(Size(Here)), t # Unknown) :
        /\ got' = g
        /\ total' = IF op.more = "short" /\ t = Unknown THEN total ELSE t
        /\ next' \in Names(Behind(Size(Here)) - g)
        /\ IF op.late /\ pages >= MaxPages
           THEN Cut /\ UNCHANGED <<pos, left>>
           ELSE IF Skipped > g THEN Fail /\ UNCHANGED <<queue, truncated, pos, left>>
           ELSE /\ pc' = "examine"
                /\ left' = Looked(g) - Skipped
                /\ pos' = pos + Skipped + (IF op.keeps = "tail" THEN g - Looked(g) ELSE 0)
                /\ UNCHANGED <<queue, truncated, answer>>
    /\ pages' = Counted
    /\ UNCHANGED <<job, here, seen, kept, warned>>

\* The request fails for good.  What a category had brought until then is lost;
\* the variables of a group are kept.
FetchFails ==
    /\ pc = "fetch"
    /\ CASE Categories -> /\ rows' = Before /\ examined' = examined - pos
                          /\ Passed
         [] "source" \in op.skips /\ ~Categories -> Passed /\ UNCHANGED <<rows, examined>>
         [] OTHER -> Fail /\ UNCHANGED <<warned, rows, examined>>
    /\ UNCHANGED <<job, queue, here, reading, seen, dropped, weight, total, truncated>>

\* Out of time, or cancelled: also those that pass over a list end with that.
GiveUp ==
    /\ pc = "fetch" /\ op.skips # {}
    /\ Fail
    /\ UNCHANGED <<job, queue, here, reading, seen, kept, total, outcome>>

\* What a list is written down in cannot be read, or is too much to be read.
Unreadable ==
    /\ pc = "fetch" /\ op.reads.odd = "unread"
    /\ Passed
    /\ truncated' \in {truncated, TRUE}
    /\ UNCHANGED <<job, queue, here, reading, seen, kept, total>>

-----------------------------------------------------------------------------
(* An entry.                                                               *)

\* A slip: one entry too many is let in.
ExceedsLate == op.stop = "exceeded" /\ Count > job.limit

Exceeds == op.stop = "exceeded" /\ Full

TooHeavy == op.weighs /\ op.stop = "exceeded" /\ Wanted(pos + 1) /\ weight >= MaxWeight

\* No room for this one.
Overflow ==
    /\ pc = "examine" /\ left > 0
    /\ Exceeds \/ (TooHeavy /\ "heavy" \notin op.skips)
    /\ Cut
    /\ UNCHANGED <<job, here, reading, seen, kept, total, warned>>

\* What belongs to an entry cannot be read.
SkipEntry ==
    /\ pc = "examine" /\ left > 0 /\ ~Exceeds
    /\ "entry" \in op.skips
    /\ warned' = TRUE
    /\ pos' = pos + 1 /\ left' = left - 1
    /\ examined' = examined + 1
    /\ UNCHANGED <<job, pc, queue, here, got, next, pages, seen, rows, dropped,
                   weight, total, truncated, answer>>

\* There is room for this one in the list, but not for what belongs to it.
SkipHeavy ==
    /\ pc = "examine" /\ left > 0 /\ ~Exceeds /\ TooHeavy
    /\ "heavy" \in op.skips
    /\ warned' = TRUE /\ truncated' = TRUE
    /\ pos' = pos + 1 /\ left' = left - 1
    /\ examined' = examined + 1
    /\ UNCHANGED <<job, pc, queue, here, got, next, pages, seen, rows, dropped,
                   weight, total, answer>>

\* Something that is not as it should be.  What is unknown in a list that was
\* read at once does not count.
Unknowns == op.reads.odd = "unread"
Verdicts == {op.reads[shape] : shape \in Shapes}

Drop ==
    /\ pc = "examine" /\ left > 0 /\ (Exceeds => Unknowns)
    /\ "dropped" \in Verdicts /\ Cardinality(dropped) < MaxDropped
    /\ dropped' = dropped \cup {<<Here, pos + 1>>}
    /\ pos' = pos + 1 /\ left' = left - 1
    /\ examined' = IF Unknowns THEN examined ELSE examined + 1
    /\ UNCHANGED <<job, pc, queue, here, got, next, pages, seen, rows, weight,
                   total, outcome, answer>>

\* Of several lists, this one is given up: what it had brought is kept, except
\* where they were counted at once.
Refuse ==
    /\ pc = "examine" /\ left > 0 /\ ~Exceeds
    /\ "fails" \in Verdicts
    /\ IF "source" \in op.skips THEN Passed ELSE Fail /\ UNCHANGED warned
    /\ IF Unknowns
       THEN /\ examined' = Smaller(examined + left, job.limit)
            /\ rows' = Before
       ELSE UNCHANGED <<rows, examined>>
    /\ UNCHANGED <<job, queue, here, reading, seen, dropped, weight, total, truncated>>

\* A folder is queued unless it has been seen or lies too deep.
Folder == job.holds[Here][pos + 1]
Follows == op.walk = "tree" /\ Folder # 0

Fresh == Folder \notin seen /\ here.depth < MaxDepth

Reaches(given) == op.stop = "reached" /\ Len(given) >= job.limit

Examine ==
    /\ pc = "examine" /\ left > 0 /\ ~Exceeds /\ ~TooHeavy
    /\ LET given == IF Wanted(pos + 1) THEN Append(rows, <<Here, pos + 1>>) ELSE rows
       IN /\ rows' = given
          /\ pos' = pos + 1 /\ left' = left - 1
          /\ examined' = examined + 1
          /\ weight' = IF op.weighs /\ ~Categories /\ Wanted(pos + 1) THEN weight + 1 ELSE weight
          /\ IF Follows /\ Fresh
             THEN /\ queue' = Append(queue, [list |-> Folder, depth |-> here.depth + 1])
                  /\ seen' = seen \cup {Folder}
             ELSE UNCHANGED <<queue, seen>>
          /\ CASE Reaches(given) /\ op.beyond = "fail" -> Fail /\ UNCHANGED truncated
               [] Reaches(given) /\ op.beyond = "cut" ->
                    /\ truncated' = (pos + 1 < total)
                    /\ pc' = "open" /\ UNCHANGED answer
               [] OTHER ->
                    /\ truncated' = (truncated \/ (Follows /\ ~Fresh))
                    /\ UNCHANGED <<pc, answer>>
    /\ UNCHANGED <<job, here, got, next, pages, dropped, total, warned>>

-----------------------------------------------------------------------------
(* The end of a page.                                                      *)

PageDone == pc = "examine" /\ left = 0

Short == got < Asked
MoreAnnounced == IF total = Unknown THEN FALSE ELSE total > Len(rows)

\* A slip: a page that is not full is taken for the last.
ShortIsLast == Short

Exhausted ==
    CASE op.more \in {"no", "count"} -> TRUE
      [] op.more = "total" -> got = 0 \/ pos >= total
      [] op.more = "short" ->
            \/ got = 0
            \/ Len(rows) >= job.limit
            \/ Short /\ ~MoreAnnounced
      [] op.more = "header" -> ~next /\ Short
      [] op.more = "link" -> ~next

AtPageLimit == ~op.late /\ pages >= MaxPages

TurnPage ==
    /\ PageDone /\ ~Exhausted /\ ~AtPageLimit
    /\ pc' = "fetch"
    /\ UNCHANGED <<job, queue, here, reading, seen, kept, total, outcome, answer>>

\* A listing whose end is told by short pages is judged when it is answered.
HitPageLimit ==
    /\ PageDone /\ ~Exhausted /\ AtPageLimit /\ ~Categories
    /\ IF op.more = "short" THEN pc' = "open" /\ UNCHANGED <<queue, truncated, answer>> ELSE Cut
    /\ UNCHANGED <<job, here, reading, seen, kept, total, warned>>

EndList ==
    /\ PageDone /\ Exhausted /\ ~Categories
    /\ pc' = "open"
    /\ UNCHANGED <<job, queue, here, reading, seen, kept, total, outcome, answer>>

\* Of a category, what exceeds the rows that are left is cut off, and what
\* exceeds the bytes that are left is dropped, though its rows stay counted.
EndCategory ==
    /\ PageDone /\ Categories
    /\ Exhausted \/ AtPageLimit
    /\ LET room == Smaller(Normal, job.limit - (examined - pos))
           light == weight + room <= MaxWeight
       IN /\ rows' = IF light THEN SubSeq(rows, 1, Len(Before) + room) ELSE Before
          /\ weight' = IF light THEN weight + room ELSE weight
          /\ examined' = examined - pos + room
          /\ truncated' = (truncated \/ room < Normal \/ ~light \/ ~Exhausted)
    /\ pc' = "open"
    /\ UNCHANGED <<job, queue, here, reading, seen, dropped, total, warned, answer>>

-----------------------------------------------------------------------------
(* The answer.                                                             *)

\* As many as were asked for: there may be more.
FullAnswer == op.asks = "limit" /\ got >= job.limit

IsCut ==
    CASE op.more = "no" /\ op.stop = "after" -> Len(rows) > job.limit \/ FullAnswer
      [] op.more = "short" ->
            \/ Len(rows) > job.limit
            \/ MoreAnnounced
            \/ pages = MaxPages /\ Len(rows) < job.limit /\ ~Short
      [] op.more = "count" -> truncated \/ (total # Unknown /\ total > got)
      [] OTHER -> truncated \/ (op.stop = "after" /\ op.walk = "flat" /\ Len(rows) > job.limit)

\* A slip: what is given is counted, whether or not it is all.
TotalOfGiven == IF op.total = "counted" THEN Len(rows) ELSE Unknown

Total ==
    CASE op.total = "announced" -> total
      [] op.total = "counted" /\ op.more = "no" -> IF FullAnswer THEN Unknown ELSE Len(rows)
      [] op.total = "counted" /\ op.more = "total" -> IF truncated THEN Unknown ELSE Len(rows)
      [] OTHER -> Unknown

Answer ==
    /\ pc = "open" /\ queue = <<>>
    /\ pc' = "done" /\ answer' = "given"
    /\ truncated' = IsCut
    /\ total' = Total
    /\ rows' = IF op.stop = "after" /\ op.walk = "flat"
               THEN IF op.keeps = "tail"
                    THEN SubSeq(rows, Len(rows) - Smaller(Len(rows), job.limit) + 1, Len(rows))
                    ELSE SubSeq(rows, 1, Smaller(Len(rows), job.limit))
               ELSE rows
    /\ UNCHANGED <<job, queue, here, reading, seen, dropped, examined, weight, warned>>

-----------------------------------------------------------------------------
Next ==
    \/ Resolve \/ Open \/ Stop \/ Fetch \/ FetchFails \/ GiveUp \/ Unreadable
    \/ Overflow \/ SkipEntry \/ SkipHeavy \/ Drop \/ Refuse \/ Examine
    \/ TurnPage \/ HitPageLimit \/ EndList \/ EndCategory
    \/ Answer

\* The handler runs on, and its client answers or fails every request.
Spec == Init /\ [][Next]_vars
FairSpec == Spec /\ WF_vars(Next)

-----------------------------------------------------------------------------
(* Properties.                                                             *)

Given(s, i) == \E k \in 1 .. Len(rows) : rows[k] = <<s, i>>

\* Where the end of a listing is told by short pages and nobody announced a
\* total, exactly as many entries as were asked for are taken for all there are.
\* What is cut before it is looked at is not spoken of.
CutUnseen == op.cuts /\ Size(1) > MaxWeight
TakenForAll == op.more = "short" /\ total = Unknown /\ Len(rows) = job.limit

\* An answer that says it is complete (not truncated, without a warning) holds
\* every wanted entry, from where the call was to start, of every list the
\* operation is to read, and of every folder in them, though folders may hold
\* each other.  No answer gives an entry twice.
ToRead == IF op.walk = "each" THEN Source ELSE seen

CompleteIsTrue ==
    /\ \A i, j \in 1 .. Len(rows) : rows[i] = rows[j] => i = j
    /\ answer = "given" /\ ~truncated /\ ~warned /\ ~TakenForAll /\ ~CutUnseen =>
           /\ \A place \in job.wanted \ dropped :
                 place[1] \in ToRead /\ place[2] > job.from => Given(place[1], place[2])
           /\ op.walk = "tree" =>
                 \A s \in seen : \A i \in 1 .. Size(s) : job.holds[s][i] \in seen \cup {0}

\* What an answer says about the whole is true: a total is the number of the
\* wanted entries, and an answer is called truncated only if entries were left
\* out or not looked at, unless nobody could know that.
CouldKnow ==
    op.walk = "flat" /\ (op.more = "total" \/ op.asks = "all" \/ (op.more = "short" /\ total # Unknown))

EnvelopeIsTrue ==
    answer = "given" =>
        /\ total # Unknown =>
              total = Cardinality(IF op.total = "announced" THEN job.wanted ELSE job.wanted \ dropped)
        /\ truncated /\ CouldKnow => Len(rows) < Cardinality(job.wanted) \/ pos < Size(1)

\* No listing gives, examines or reads more than it is allowed to; those that
\* are late read one page more, and of several lists each has its pages.
BoundsKept ==
    /\ answer = "given" => Len(rows) <= IF op.stop = "never" THEN MaxWeight ELSE job.limit
    /\ op.bounds = "examined" => examined <= job.limit
    /\ answer = "given" /\ op.weighs => Len(rows) <= MaxWeight
    /\ pages <= IF op.late THEN MaxPages + 1 ELSE MaxPages

\* Every listing ends, also on a service that answers with empty pages.
ListingEnds == <>(pc = "done")
=============================================================================
