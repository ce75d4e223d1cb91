---------------------------- MODULE PagedListing ----------------------------
(***************************************************************************)
(* The bounded listings of the GitLab connector (operations.py): one call  *)
(* pages through its sources, groups and then projects for the group       *)
(* listing, and answers with the entries and, for each source it had to    *)
(* leave unfinished, a continuation.  A session repeats the call with the  *)
(* continuation it was given until it is told "complete".                  *)
(***************************************************************************)
EXTENDS Naturals, FiniteSets

CONSTANTS
    Sources,        \* how many sources a call reads, one after the other
    PerPage,        \* entries of a full page
    MaxPages,       \* max_pages of the client
    MaxTotal,       \* bound: entries of one source
    Limits,         \* the item limits a session may ask for
    MaxFailures     \* bound: calls that fail

ASSUME ListingAssumption ==
    /\ Sources \in Nat \ {0} /\ PerPage \in Nat \ {0} /\ MaxPages \in Nat \ {0}
    /\ MaxTotal \in Nat /\ MaxFailures \in Nat
    /\ Limits \subseteq Nat

Source == 1..Sources
Place == [page : Nat \ {0}, offset : 0..PerPage - 1]
Start == [page |-> 1, offset |-> 0]

\* A source that came to its end has no continuation.
Ended == [page |-> 0, offset |-> 0]

VARIABLES
    total,      \* how many entries each source has
    limit,      \* max_groups - 1, max_projects, max_items: fixed by the session
    cont,       \* the continuation the session passes
    delivered,  \* the entries it has been given
    complete,   \* it has been told that this is all
    at,         \* the source being read; 0 between calls
    place,      \* the page to ask for next, and where to begin in it
    items,      \* what this call has collected
    next,       \* where the sources it has read are to be continued
    failures

session == <<total, limit, cont, delivered, complete>>
sessionVars == <<session, at, place, items, next, failures>>

Nothing == [s \in Source |-> {}]

SessionTypeOK ==
    /\ total \in [Source -> 0..MaxTotal] /\ limit \in [Source -> Limits]
    /\ cont \in [Source -> Place]
    /\ delivered \in [Source -> SUBSET (1..MaxTotal)]
    /\ complete \in BOOLEAN
    /\ at \in 0..Sources + 1
    /\ place \in Place
    /\ items \in [Source -> SUBSET (1..MaxTotal)]
    /\ next \in [Source -> Place \cup {Ended}]
    /\ failures \in 0..MaxFailures

\* Only max_groups, which counts the root group too, can leave no room.
SessionInit ==
    /\ total \in [Source -> 0..MaxTotal]
    /\ limit \in {l \in [Source -> Limits] : l[Sources] > 0}
    /\ cont = [s \in Source |-> Start]
    /\ delivered = Nothing /\ complete = FALSE
    /\ at = 0 /\ place = Start /\ items = Nothing
    /\ next = [s \in Source |-> Ended]
    /\ failures = 0

-----------------------------------------------------------------------------
\* Between calls the local state is the initial one.
Return ==
    /\ at' = 0 /\ items' = Nothing /\ place' = Start
    /\ next' = [s \in Source |-> Ended]

Call ==
    /\ at = 0 /\ ~complete
    /\ at' = 1
    /\ place' = cont[1]
    /\ UNCHANGED <<session, items, next, failures>>

\* The next source begins where its own continuation says.
Leave(where) ==
    /\ next' = [next EXCEPT ![at] = where]
    /\ at' = at + 1
    /\ place' = IF at < Sources THEN cont[at + 1] ELSE Start

Reading == at \in Source

\* max_groups = 1 leaves no room for descendants: not read, and truncated.
SkipSource ==
    /\ Reading /\ limit[at] = 0
    /\ Leave(cont[at])
    /\ UNCHANGED <<session, items, failures>>

\* The loop over pages ends before its first page: no entries, no continuation.
PastCeiling ==
    /\ Reading /\ limit[at] > 0
    /\ place.page > MaxPages
    /\ Leave(Ended)
    /\ UNCHANGED <<session, items, failures>>

First(page) == (page - 1) * PerPage

Least(a, b) == IF a < b THEN a ELSE b

\* How many entries the service returns on that page.
OnPage(page) ==
    IF total[at] <= First(page) THEN 0 ELSE Least(PerPage, total[at] - First(page))

\* The offset counts from 0: it names the first entry not taken.
ResumeOffset(stop) == stop

\* The page holds more than the limit allows: go on at the entry not taken.
\* (An offset beyond the page is an error; with a fixed list there is none.)
FillUp ==
    LET count == limit[at] - Cardinality(items[at])
        stop == place.offset + count
    IN  /\ Reading /\ limit[at] > 0 /\ place.page <= MaxPages
        /\ stop < OnPage(place.page)
        /\ items' = [items EXCEPT ![at] = @ \cup
                        {First(place.page) + i : i \in place.offset + 1..stop}]
        /\ Leave([page |-> place.page, offset |-> ResumeOffset(stop)])
        /\ UNCHANGED <<session, failures>>

TakesAll ==
    LET count == limit[at] - Cardinality(items[at])
    IN  /\ Reading /\ limit[at] > 0 /\ place.page <= MaxPages
        /\ place.offset <= OnPage(place.page)
        /\ place.offset + count >= OnPage(place.page)
        /\ items' = [items EXCEPT ![at] = @ \cup
                 {First(place.page) + i : i \in place.offset + 1..OnPage(place.page)}]

\* No X-Next-Page and a short page.
LastPage(announced) == ~announced /\ OnPage(place.page) < PerPage

\* X-Next-Page, which a service may leave out, names the next page if any.
Announced == IF total[at] > place.page * PerPage THEN BOOLEAN ELSE {FALSE}

EndSource ==
    /\ TakesAll
    /\ \E announced \in Announced : LastPage(announced)
    /\ Leave(Ended)
    /\ UNCHANGED <<session, failures>>

NextPage ==
    /\ TakesAll
    /\ \E announced \in Announced : ~LastPage(announced)
    /\ place.page < MaxPages
    /\ place' = [page |-> place.page + 1, offset |-> 0]
    /\ UNCHANGED <<session, at, next, failures>>

\* Slip: the last page read is named again.
SamePage(page) == page

Beyond(page) == page + 1

\* The page ceiling: truncated, to be continued at the page beyond it.
Ceiling ==
    /\ TakesAll
    /\ \E announced \in Announced : ~LastPage(announced)
    /\ place.page = MaxPages
    /\ Leave([page |-> Beyond(place.page), offset |-> 0])
    /\ UNCHANGED <<session, failures>>

\* Slip: only the last source decides.
LastSourceEnded == next[Sources] = Ended

AllEnded == \A s \in Source : next[s] = Ended

\* A source that ended has no entry in the continuation: it begins anew when
\* another one makes the session call again.
Answer ==
    /\ at = Sources + 1
    /\ delivered' = [s \in Source |-> delivered[s] \cup items[s]]
    /\ complete' = AllEnded
    /\ cont' = [s \in Source |-> IF next[s] = Ended THEN Start ELSE next[s]]
    /\ Return
    /\ UNCHANGED <<total, limit, failures>>

\* An error of the service, its data or the deadline: the call gives nothing.
Fail ==
    /\ Reading /\ failures < MaxFailures
    /\ failures' = failures + 1
    /\ Return
    /\ UNCHANGED session

Step ==
    \/ Call \/ SkipSource \/ PastCeiling
    \/ FillUp \/ EndSource \/ NextPage \/ Ceiling \/ Answer

SessionNext == Step \/ Fail

(***************************************************************************)
(* The session goes on with its continuation until it is told "complete",  *)
(* and a call is answered or fails; it fails MaxFailures times at most.    *)
(***************************************************************************)
SessionSpec == SessionInit /\ [][SessionNext]_sessionVars /\ WF_sessionVars(Step)

-----------------------------------------------------------------------------
Ceil == MaxPages * PerPage

(***************************************************************************)
(* "complete" is told only to a session that has every entry of every      *)
(* source, with one exception: of a list that goes beyond the page ceiling *)
(* it has what is under the ceiling.  Nobody is told so who has not been   *)
(* told before that the list is cut there: the answer before named the     *)
(* page beyond the ceiling, and this call was made with it.  (The loop     *)
(* over the pages then ends before its first page and takes the source for *)
(* finished, where gitlab-behavior-map.md:113 wants the truncation told.)  *)
(***************************************************************************)
CompleteMeansAll ==
    /\ complete => \A s \in Source : /\ {i \in 1..total[s] : i <= Ceil} \subseteq delivered[s]
                                     /\ delivered[s] \subseteq 1..total[s]
    /\ at = Sources + 1 /\ AllEnded =>
           \A s \in Source : total[s] > Ceil => cont[s].page > MaxPages

(***************************************************************************)
(* A session that leaves room for each source is told "complete" at last,  *)
(* although a source that ended early, or was continued beyond the page    *)
(* ceiling, is read again from its start as long as another one goes on.   *)
(***************************************************************************)
EventuallyComplete ==
    (\A s \in Source : limit[s] > 0) => <>complete
=============================================================================
