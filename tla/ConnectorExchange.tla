-------------------------- MODULE ConnectorExchange --------------------------
(***************************************************************************)
(* One connector client at work: the calls an operation makes, one after   *)
(* the other, with the requests each call takes.  A Jira client may have   *)
(* to find out first which version of the interface is served, reaches     *)
(* Jira itself or through a curl process, and unpacks what it is sent; an  *)
(* Artifactory client knows a refusal of the edge.  BoundedClient has the  *)
(* waiting times and the breaker of the retry loop, which is kept short    *)
(* here; a body is a number of parts.                                      *)
(*                                                                         *)
(* The service and the edge in front of it are external.                   *)
(***************************************************************************)
EXTENDS Naturals, FiniteSets

CONSTANTS
    MaxCalls,      \* bound: calls of an operation
    MaxRetries,    \* max_retries
    MaxParts,      \* how much of a body is accepted
    Probe,         \* how much of one is unpacked in two ways
    Body,          \* the bodies of successful answers
    Settings,      \* the configurations, and what they meet
    Reasons        \* why time may be up; what follows is the same

Calls == 1 .. MaxCalls

ASSUME ExchangeAssumption ==
    /\ MaxCalls \in Nat \ {0} /\ MaxRetries \in Nat
    /\ MaxParts \in Nat \ {0} /\ Probe \in 1 .. MaxParts
    /\ Reasons \subseteq {"cancelled", "deadline"}

\* Jira serves at least one version; a body is packed in a way that is known, or not.
ASSUME SettingsAssumption ==
    /\ \A s \in Settings :
          /\ s.upto \in 0 .. MaxCalls
          /\ s.service \in {"gitlab", "confluence", "arm", "jira"}
          /\ s.serves \subseteq {"2", "3"} /\ s.sends \subseteq Body
          /\ s.service = "jira" => s.serves # {} /\ s.version \in {"auto", "2", "3"}
    /\ \A b \in Body :
          /\ b.kind \in {"json", "other", "empty"} /\ b.parts \in Nat /\ b.twin \in Nat
          /\ b.as \in {"plain", "zlib", "raw", "unknown"}

-----------------------------------------------------------------------------
(* The kinds of call.                                                      *)
(*                                                                         *)
(*  plan      which requests it takes: one ("plain", or "v2" at a fixed    *)
(*            version), a "fallback" to version 2, one for which the       *)
(*            version is "resolved" before, or was "known" from a former   *)
(*            call; a "probe" returns whatever answer there is             *)
(*  read      whether it is a GET                                          *)
(*  empty     whether a success may have no body, and with which status    *)
(*  unusable  what a success is called whose body is no JSON               *)

Plain(read) ==
    [plan |-> "plain", read |-> read, empty |-> {}, unusable |-> "invalid_remote_data"]

Doubted(row) == IF row.read THEN row ELSE [row EXCEPT !.unusable = "write_ambiguous"]

GitLabJson(read) == Doubted(Plain(read))
ConfluenceJson(read) == [Plain(read) EXCEPT !.empty = {"2xx", "204"}]
ArmJson(read) == [Plain(read) EXCEPT !.empty = {"2xx", "204"}]
ChecksumProbe == [Plain(FALSE) EXCEPT !.plan = "probe"]

RestJson == [Plain(TRUE) EXCEPT !.plan = "fallback"]
RestV2 == [Plain(TRUE) EXCEPT !.plan = "v2"]
RestV2Mutation == Doubted([Plain(FALSE) EXCEPT !.plan = "v2", !.empty = {"204"}])
VersionedMutation == Doubted([Plain(FALSE) EXCEPT !.plan = "resolve", !.empty = {"204"}])
ResolvedRead == [Plain(TRUE) EXCEPT !.plan = "known"]

Kinds(service) ==
    CASE service = "gitlab" -> {GitLabJson(TRUE), GitLabJson(FALSE)}
      [] service = "confluence" -> {ConfluenceJson(TRUE), ConfluenceJson(FALSE)}
      [] service = "arm" -> {ArmJson(TRUE), ArmJson(FALSE), ChecksumProbe}
      [] service = "jira" -> {RestJson, RestV2, RestV2Mutation, VersionedMutation, ResolvedRead}

VARIABLES
    with,       \* service, version, transport; exists, serves, blocks, sends: what is
                \* out there; upto: how many calls (a bound)
    resolved,   \* the version a Jira client has resolved, or "none"
    calls,      \* the kinds of the calls of the operation
    n,          \* calls begun
    outcome,    \* how each call ended
    pc,         \* "idle", "attempt", "local", "files", "flight", "body", "judge", "decode"
    ver,        \* the version asked for, "-" where there are none
    finding,    \* whether the request is to find out the version
    attempt, route,
    stop,       \* "none", or why time is up: "cancelled", "deadline"
    wire,       \* the attempt as the service sees it: "none", "sent", or its status
    sent,       \* the body of the answer
    status,     \* what the client knows of the answer
    taken,      \* parts of the body it has
    readings,   \* the ways in which a deflated body may still be meant
    held,       \* what it has for a body: "none", "lost", "empty", "json", "other"
    fault,      \* the category the transport failed with
    uncertain,  \* ... and whether the request may have been acted upon
    late,       \* copies of a request that the service has yet to see
    effect      \* how often each write has taken effect

session == <<with, calls, n>>
request == <<ver, finding, attempt, route>>
answer == <<status, taken, readings, held>>
failure == <<fault, uncertain>>
remote == <<late, effect>>
vars == <<session, resolved, outcome, pc, request, stop, wire, sent, answer,
          failure, remote>>

NoBody == [kind |-> "empty", as |-> "plain", parts |-> 0, whole |-> TRUE, twin |-> 1]

ClientError == {"404", "4xx", "429", "edge", "unsupported"}
Trouble == {"3xx", "503"}
Status == {"2xx", "204", "challenge"} \cup ClientError \cup Trouble

Category ==
    {"ok", "write_ambiguous", "invalid_remote_data", "invalid_input",
     "invalid_configuration", "not_found", "refused", "rate_limited", "transient",
     "capacity", "cancelled", "deadline", "edge_authentication", "returned"}

TypeOK ==
    /\ with \in Settings
    /\ resolved \in {"none", "2", "3"}
    /\ n \in 0 .. MaxCalls
    /\ calls \in [Calls -> Kinds(with.service)]
    /\ outcome \in [Calls -> Category \cup {"none"}]
    /\ pc \in {"idle", "attempt", "local", "files", "flight", "body", "judge", "decode"}
    /\ ver \in {"-", "2", "3"} /\ finding \in BOOLEAN
    /\ attempt \in 0 .. MaxRetries
    /\ route \in {"native", "curl"}
    /\ stop \in {"none", "cancelled", "deadline"}
    /\ wire \in {"none", "sent"} \cup Status
    /\ sent \in Body \cup {NoBody}
    /\ status \in {"none"} \cup Status
    /\ taken \in 0 .. MaxParts
    /\ readings \subseteq {"zlib", "raw"}
    /\ held \in {"none", "lost", "empty", "json", "other"}
    /\ fault \in {"none"} \cup Category
    /\ uncertain \in BOOLEAN
    /\ late \in [Calls -> Nat] /\ effect \in [Calls -> Nat]

Init ==
    /\ with \in Settings
    /\ resolved = "none"
    /\ calls \in [Calls -> Kinds(with.service)]
    /\ n = 0
    /\ outcome = [i \in Calls |-> "none"]
    /\ pc = "idle" /\ ver = "-" /\ finding = FALSE /\ attempt = 0 /\ route = "native"
    /\ stop = "none"
    /\ wire = "none" /\ sent = NoBody
    /\ status = "none" /\ taken = 0 /\ readings = {} /\ held = "none"
    /\ fault = "none" /\ uncertain = FALSE
    /\ late = [i \in Calls |-> 0] /\ effect = [i \in Calls |-> 0]

-----------------------------------------------------------------------------
call == calls[n]
Reading == finding \/ call.read
Stopped == stop # "none"
Jira == with.service = "jira"
Automatic == with.version = "auto"

NoAnswer ==
    /\ status' = "none" /\ taken' = 0 /\ readings' = {} /\ held' = "none"
    /\ fault' = "none" /\ uncertain' = FALSE
    /\ wire' = "none" /\ sent' = NoBody

Return(category) ==
    /\ outcome' = [outcome EXCEPT ![n] = category]
    /\ pc' = "idle" /\ ver' = "-" /\ finding' = FALSE /\ attempt' = 0 /\ route' = "native"
    /\ NoAnswer

Ask(version, first) ==
    /\ ver' = version /\ finding' = first
    /\ pc' = "attempt" /\ attempt' = 0 /\ route' = "native"
    /\ NoAnswer

-----------------------------------------------------------------------------
(* A call, and the version it is made at.                                  *)

\* What the first request of a call asks for; "none" if that is not known.
FirstVersion(k) ==
    CASE k.plan \in {"plain", "probe"} -> "-"
      [] k.plan = "v2" -> "2"
      [] k.plan \in {"fallback", "resolve", "known"} /\ ~Automatic -> with.version
      [] k.plan \in {"resolve", "known"} /\ Automatic /\ resolved # "none" -> resolved
      [] k.plan = "known" /\ Automatic /\ resolved = "none" -> "none"
      [] OTHER -> "3"

Begin ==
    /\ pc = "idle" /\ n < with.upto
    /\ n' = n + 1
    /\ LET kind == calls[n']
           version == FirstVersion(kind)
       IN IF version = "none"
          THEN /\ outcome' = [outcome EXCEPT ![n'] = "invalid_configuration"]
               /\ UNCHANGED <<pc, request, wire, sent, answer, failure>>
          ELSE /\ Ask(version, kind.plan = "resolve" /\ Automatic /\ resolved = "none")
               /\ UNCHANGED outcome
    /\ UNCHANGED <<with, calls, resolved, stop, remote>>

-----------------------------------------------------------------------------
(* An attempt, up to the moment the request leaves.                        *)

Fault(category, unsure) ==
    /\ pc' = "judge" /\ fault' = category /\ uncertain' = unsure

\* The loop of BoundedClient looks at the time first.
Attempt ==
    /\ pc = "attempt"
    /\ IF Stopped THEN Return(stop)
       ELSE /\ pc' = "local"
            /\ route' = IF Jira /\ with.transport = "curl" THEN "curl" ELSE "native"
            /\ UNCHANGED <<outcome, ver, finding, attempt, wire, sent, answer, failure>>
    /\ UNCHANGED <<session, resolved, stop, remote>>

\* A request that cannot be sent: out of time, no valid path or body, too long.
Refuse ==
    /\ pc = "local"
    /\ \/ Stopped /\ Fault(stop, FALSE)
       \/ \E category \in {"invalid_input", "capacity"} :
             (category = "capacity" => Jira) /\ Fault(category, FALSE)
    /\ UNCHANGED <<session, resolved, outcome, request, stop, wire, sent, answer, remote>>

Leaves ==
    /\ pc' = "flight" /\ wire' = "sent"
    /\ UNCHANGED <<session, resolved, outcome, request, stop, sent, answer, failure, remote>>

Dispatch == pc = "local" /\ route = "native" /\ ~Stopped /\ Leaves

\* curl is told by files what to do.
WriteFiles ==
    /\ pc = "local" /\ route = "curl" /\ ~Stopped
    /\ pc' = "files"
    /\ UNCHANGED <<session, resolved, outcome, request, stop, wire, sent, answer, failure, remote>>

\* The files cannot be written, time is up, or curl cannot be started.
FilesFail ==
    /\ pc = "files"
    /\ \/ \E category \in {"capacity", "transient", "deadline"} : Fault(category, FALSE)
       \/ Stopped /\ Fault(stop, FALSE)
    /\ UNCHANGED <<session, resolved, outcome, request, stop, wire, sent, answer, remote>>

StartCurl == pc = "files" /\ ~Stopped /\ Leaves

-----------------------------------------------------------------------------
(* The service.                                                            *)

\* The edge in front of it refuses what does not come from curl (Jira), or
\* everything (Artifactory).
Edge == IF Jira THEN "edge" ELSE "challenge"
AtTheEdge == with.blocks /\ route = "native"

\* What may be answered, and what it means for a write.
Acts(s) ==
    effect' \in {[effect EXCEPT ![n] = @ + k] :
                   k \in IF Reading \/ s \in ClientError \cup {"challenge"} THEN {0}
                         ELSE IF s \in {"2xx", "204"} THEN {1} ELSE {0, 1}}

Regular ==
    IF AtTheEdge THEN {Edge}
    ELSE IF ver # "-" /\ ver \notin with.serves
    THEN {IF ver = "3" THEN "unsupported" ELSE "404"}
    ELSE CASE finding -> {"2xx"}
           [] ~finding /\ call.read -> IF with.exists THEN {"2xx", "204"} ELSE {"404"}
           [] OTHER -> {"2xx", "204", "4xx"}

\* Only a Jira client that is no curl process asks for packed bodies.
Suits(b) == b.as # "plain" => Jira /\ route = "native"

Serve ==
    /\ wire = "sent"
    /\ \E s \in Regular \cup IF AtTheEdge THEN {} ELSE {"429"} \cup Trouble :
        /\ wire' = s
        /\ sent' \in IF s = "2xx" THEN {b \in with.sends : Suits(b)} ELSE {NoBody}
        /\ Acts(s)
    /\ UNCHANGED <<session, resolved, outcome, pc, request, stop, answer, failure, late>>

ServeLate(i) ==
    /\ late[i] > 0
    /\ late' = [late EXCEPT ![i] = @ - 1]
    /\ \E k \in {0, 1} : effect' = [effect EXCEPT ![i] = @ + k]
    /\ UNCHANGED <<session, resolved, outcome, pc, request, stop, wire, sent, answer, failure>>

\* Nobody waits any more for what has not been served.
Abandon ==
    /\ late' = IF wire = "sent" /\ ~Reading THEN [late EXCEPT ![n] = @ + 1] ELSE late
    /\ wire' = "none"
    /\ UNCHANGED effect

\* Time runs out for the whole operation, or its caller cancels it.
RunOut ==
    /\ stop = "none" /\ n > 0
    /\ stop' \in Reasons
    /\ UNCHANGED <<session, resolved, outcome, pc, request, wire, sent, answer, failure, remote>>

-----------------------------------------------------------------------------
(* What comes back, natively.                                              *)

\* No connection, a timeout, a broken stream.
TransportFails ==
    /\ pc = "flight" /\ route = "native"
    /\ Fault("transient", TRUE)
    /\ Abandon
    /\ UNCHANGED <<session, resolved, outcome, request, stop, sent, answer>>

Packed == sent.as \in {"zlib", "raw"}

\* The status and the headers.  "deflate" has two meanings.
Headers ==
    /\ pc = "flight" /\ route = "native" /\ wire \in Status
    /\ pc' = "body"
    /\ status' = wire
    /\ readings' = IF Packed THEN {"zlib", "raw"} ELSE {}
    /\ UNCHANGED <<session, resolved, outcome, request, stop, wire, sent, taken, held,
                   failure, remote>>

\* The rest of the answer is lost.  A client error is told by its status alone.
Breaks(category) ==
    /\ IF status \in ClientError
       THEN pc' = "judge" /\ held' = "lost" /\ UNCHANGED failure
       ELSE Fault(category, TRUE) /\ UNCHANGED held
    /\ UNCHANGED <<session, resolved, outcome, request, stop, wire, sent, status,
                   taken, readings, remote>>

BodyBreaks ==
    /\ pc = "body"
    /\ \/ Stopped /\ Breaks(stop)
       \/ Breaks("transient")
       \/ sent.as = "unknown" /\ Breaks("invalid_remote_data")

\* The ways of reading it that the next part leaves open.
StillOpen ==
    IF Cardinality(readings) = 2 /\ taken + 1 >= sent.twin THEN {sent.as} ELSE readings

\* A slip: what is still open when enough is unpacked is taken for zlib.
DecidesForZlib(open) == IF Cardinality(open) = 2 /\ taken + 1 > Probe THEN {"zlib"} ELSE open

Decides(open) == open

Undecided == Cardinality(Decides(StillOpen)) = 2 /\ taken + 1 > Probe

Part ==
    /\ pc = "body" /\ ~Stopped /\ sent.as # "unknown" /\ taken < sent.parts
    /\ IF taken + 1 > MaxParts THEN Breaks("capacity")
       ELSE IF Undecided THEN Breaks("invalid_remote_data")
       ELSE /\ taken' = taken + 1
            /\ readings' = Decides(StillOpen)
            /\ UNCHANGED <<session, resolved, outcome, pc, request, stop, wire, sent,
                           status, held, failure, remote>>

\* The end of the stream: a packed body must be whole, and mean one thing.
EndOfBody ==
    /\ pc = "body" /\ ~Stopped /\ sent.as # "unknown" /\ taken = sent.parts
    /\ IF ~sent.whole THEN Breaks(IF sent.as = "plain" THEN "transient" ELSE "invalid_remote_data")
       ELSE \/ Cardinality(readings) = 2 /\ Breaks("invalid_remote_data")
            \/ /\ held' = sent.kind
               /\ pc' = "judge"
               /\ readings' = IF Packed /\ sent.as \in readings THEN {sent.as} ELSE readings
               /\ UNCHANGED <<session, resolved, outcome, request, stop, wire, sent,
                              status, taken, failure, remote>>

-----------------------------------------------------------------------------
(* What comes back through curl.                                           *)

\* curl is stopped because time is up, or cannot be waited for.
WaitingFails ==
    \/ Stopped /\ Fault(stop, TRUE)
    \/ \E category \in {"deadline", "transient"} : Fault(category, TRUE)

\* What it has written is too long, or makes no sense.
Illegible == \E category \in {"capacity", "invalid_remote_data"} : Fault(category, TRUE)

\* A client error that got as far as its headers, or its status, still counts.
StatusOnly ==
    /\ wire \in ClientError
    /\ pc' = "judge" /\ status' = wire /\ held' = "lost"
    /\ UNCHANGED failure

CurlStopped ==
    /\ pc = "flight" /\ route = "curl"
    /\ StatusOnly \/ (WaitingFails /\ UNCHANGED <<status, held>>)
    /\ Abandon
    /\ UNCHANGED <<session, resolved, outcome, request, stop, sent, taken, readings>>

\* curl has ended and reports a failure, without a status if it was killed.
CurlFails ==
    /\ pc = "flight" /\ route = "curl"
    /\ \/ StatusOnly
       \/ /\ \/ \E category \in {"capacity", "deadline", "transient"} : Fault(category, TRUE)
             \/ wire \notin ClientError /\ Illegible
          /\ UNCHANGED <<status, held>>
    /\ Abandon
    /\ UNCHANGED <<session, resolved, outcome, request, stop, sent, taken, readings>>

CurlAnswers ==
    /\ pc = "flight" /\ route = "curl" /\ wire \in Status
    /\ sent.whole /\ sent.parts <= MaxParts
    /\ pc' = "judge"
    /\ status' = wire /\ held' = sent.kind /\ taken' = sent.parts
    /\ UNCHANGED <<session, resolved, outcome, request, stop, wire, sent, readings,
                   failure, remote>>

-----------------------------------------------------------------------------
(* Judging it.                                                             *)

Answered == pc = "judge" /\ fault = "none"

\* Refused by the edge, and nothing else, on a client that may use curl.
Blocked == status = "edge" /\ held # "lost"

TriesCurl == Answered /\ Jira /\ with.transport = "auto" /\ route = "native" /\ Blocked

TryCurl ==
    /\ TriesCurl
    /\ pc' = "local" /\ route' = "curl"
    /\ NoAnswer
    /\ UNCHANGED <<session, resolved, outcome, ver, finding, attempt, stop, remote>>

Again ==
    /\ pc' = "attempt" /\ attempt' = attempt + 1
    /\ NoAnswer
    /\ UNCHANGED <<outcome, ver, finding, route>>

\* The retry would come too late, or time is up already.
TooLate == Return(IF Stopped THEN stop ELSE "deadline")

JudgeFailure ==
    /\ pc = "judge" /\ fault # "none"
    /\ CASE ~Reading -> Return(IF uncertain THEN "write_ambiguous" ELSE fault)
         [] Reading /\ fault # "transient" -> Return(fault)
         [] Reading /\ fault = "transient" ->
               IF ~Stopped /\ attempt >= MaxRetries THEN Return("transient")
               ELSE TooLate \/ (~Stopped /\ Again)
    /\ UNCHANGED <<session, resolved, stop, remote>>

\* A slip: a write is sent again when the service is too busy.
TriesAgainAnyway == status \in {"429", "503"} /\ attempt < MaxRetries

TriesAgain == Reading /\ status \in {"429", "503"} /\ attempt < MaxRetries

Final ==
    /\ pc' = "decode"
    /\ UNCHANGED <<outcome, request, wire, sent, answer, failure>>

JudgeAnswer ==
    /\ Answered /\ ~TriesCurl /\ call.plan # "probe"
    /\ CASE status = "challenge" -> Return("edge_authentication")
         [] status \notin ClientError \cup {"challenge"} /\ Stopped ->
               Return(IF Reading THEN stop ELSE "write_ambiguous")
         [] TriesAgain -> TooLate \/ (~Stopped /\ Again)
         [] ~Reading /\ status \in Trouble -> Return("write_ambiguous")
         [] OTHER -> Final
    /\ UNCHANGED <<session, resolved, stop, remote>>

\* The checksum probe has no other policy than the edge's and the clock's.
JudgeProbe ==
    /\ Answered /\ call.plan = "probe"
    /\ Return(CASE Stopped -> "write_ambiguous"
                [] ~Stopped /\ status = "challenge" -> "edge_authentication"
                [] ~Stopped /\ status \in {"2xx", "204"} -> "ok"
                [] ~Stopped /\ status \in ClientError -> "refused"
                [] OTHER -> "returned")
    /\ UNCHANGED <<session, resolved, stop, remote>>

-----------------------------------------------------------------------------
(* What a final answer says.                                               *)

\* category_for_status; what a redirect is called.
Named ==
    CASE status \in {"404", "unsupported"} -> "not_found"
      [] status = "429" -> "rate_limited"
      [] status \in {"4xx", "edge"} -> "refused"
      [] status = "503" -> "transient"
      [] status = "3xx" -> "invalid_remote_data"

Succeeds == status \in {"2xx", "204"}
Usable == held = "json" \/ (held = "empty" /\ status \in call.empty /\ ~finding)

Verdict == IF ~Succeeds THEN Named
           ELSE IF Usable THEN "ok"
           ELSE IF finding THEN "invalid_remote_data" ELSE call.unusable

\* A slip: any 404 but the one that names the version.
PlainNotFound == status = "404" /\ held # "lost"

\* A short JSON answer that names the version; one that lost its body does not.
IsUnsupported == status = "unsupported" /\ held # "lost"

\* Version 3 is not served: the same again at version 2.
FallsBack == Automatic /\ ver = "3" /\ (call.plan = "fallback" \/ finding) /\ IsUnsupported

FallBack ==
    /\ pc = "decode" /\ FallsBack
    /\ Ask("2", finding)
    /\ UNCHANGED <<session, resolved, outcome, stop, remote>>

\* A slip: a version is taken for served because it has answered at all.
ResolvesAnyway == ver

\* The version is kept for all later calls, and the write is made.
Resolves == IF Verdict = "ok" THEN ver ELSE "none"

Resolve ==
    /\ pc = "decode" /\ finding /\ ~FallsBack
    /\ resolved' = Resolves
    /\ IF resolved' # "none" THEN Ask(resolved', FALSE) /\ UNCHANGED outcome
       ELSE Return(Verdict)
    /\ UNCHANGED <<session, stop, remote>>

Conclude ==
    /\ pc = "decode" /\ ~finding /\ ~FallsBack
    /\ Return(Verdict)
    /\ UNCHANGED <<session, resolved, stop, remote>>

-----------------------------------------------------------------------------
Client ==
    \/ Attempt \/ Refuse \/ Dispatch \/ WriteFiles \/ FilesFail \/ StartCurl
    \/ TransportFails \/ Headers \/ BodyBreaks \/ Part \/ EndOfBody
    \/ CurlStopped \/ CurlFails \/ CurlAnswers
    \/ TryCurl \/ JudgeFailure \/ JudgeAnswer \/ JudgeProbe
    \/ FallBack \/ Resolve \/ Conclude

Next ==
    \/ Begin \/ Client
    \/ Serve \/ (\E i \in Calls : ServeLate(i)) \/ RunOut

Spec == Init /\ [][Next]_vars

-----------------------------------------------------------------------------
(* Properties.                                                             *)

Told(i) ==
    IF calls[i].read \/ outcome[i] = "none" THEN "open"
    ELSE CASE outcome[i] = "ok" -> "ok"
           [] outcome[i] \in {"write_ambiguous", "invalid_remote_data", "returned"} -> "ambiguous"
           [] OTHER -> "failed"

(***************************************************************************)
(* Whatever version is looked for first, whatever is sent again through    *)
(* curl, and wherever the answer breaks off: a write happens at most once  *)
(* and its caller is told the truth.  An answer that cannot be used, of    *)
(* Confluence and Artifactory, says nothing of the write.                  *)
(***************************************************************************)
Write == INSTANCE RemoteWrite WITH
             Request <- Calls, effect <- effect, verdict <- [i \in Calls |-> Told(i)]

ImplementsWrite == Write!Spec

\* The configuration does not name a version that is not served.
Fits ==
    CASE call.plan \in {"plain", "probe"} -> TRUE
      [] call.plan = "v2" -> "2" \in with.serves
      [] OTHER -> Automatic \/ with.version \in with.serves

(***************************************************************************)
(* "not_found" is said only of what is not there: a version that is not    *)
(* served is never taken for a missing thing.  The one exception is an     *)
(* answer that lost its body, which no longer tells the two apart.         *)
(***************************************************************************)
NotFoundIsTrue ==
    [][\A i \in Calls :
         outcome[i] = "none" /\ outcome'[i] = "not_found" /\ Fits /\ held # "lost"
            => call.read /\ ~with.exists]_vars

(***************************************************************************)
(* The version a client keeps is served, and once a write has left that    *)
(* needed one, a read that is to settle its outcome has one too.           *)
(***************************************************************************)
VersionHolds ==
    /\ resolved # "none" => resolved \in with.serves
    /\ \A i, j \in Calls :
          /\ i < j /\ calls[i].plan = "resolve" /\ calls[j].plan = "known"
          /\ outcome[i] \in {"ok", "write_ambiguous"}
          => outcome[j] # "invalid_configuration"

(***************************************************************************)
(* A body that is handed on is whole, not too long, and unpacked the way   *)
(* it was meant, though "deflate" does not say which.                      *)
(***************************************************************************)
BodyIsRight ==
    pc \in {"judge", "decode"} /\ fault = "none" /\ held \in {"json", "other", "empty"} =>
        /\ taken = sent.parts /\ sent.whole /\ taken <= MaxParts
        /\ Packed => readings = {sent.as}

=============================================================================
