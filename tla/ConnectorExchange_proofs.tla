----------------------- MODULE ConnectorExchange_proofs -----------------------
(***************************************************************************)
(* What ConnectorExchange promises, for every number of calls and retries, *)
(* every set of configurations and bodies.                                 *)
(*                                                                         *)
(* The invariant Sound says what is known of an answer at each point of an *)
(* attempt (Staged), which version is asked for and why (Versions, Kept),  *)
(* what a status means for the thing and the write (Truthful), what may    *)
(* still happen to a write (Ledger) and how a body is read (Unpacking).    *)
(* The steps of a client fall into three shapes, so that most of it is     *)
(* shown once a shape and not once an action.                              *)
(***************************************************************************)
EXTENDS ConnectorExchange, FiniteSetTheorems, TLAPS

Faults ==
    {"transient", "capacity", "cancelled", "deadline", "invalid_input", "invalid_remote_data"}

\* What the kinds of call have in common.
RowOK(row, service) ==
    /\ row.plan \in {"plain", "probe", "v2", "fallback", "resolve", "known"}
    /\ row.read \in BOOLEAN
    /\ row.unusable \in {"invalid_remote_data", "write_ambiguous"}
    /\ row.plan \in {"fallback", "known"} => row.read
    /\ row.plan \notin {"plain", "probe"} => service = "jira"

-----------------------------------------------------------------------------
(* The invariant.                                                          *)

\* Calls that are over have an outcome, the others have none yet.
Counted ==
    /\ pc # "idle" => n > 0 /\ outcome[n] = "none"
    /\ \A i \in Calls : i > n => outcome[i] = "none" /\ effect[i] = 0 /\ late[i] = 0
    /\ n <= with.upto

\* What is known of an answer at each point of an attempt.
Staged ==
    /\ pc = "idle" => ver = "-" /\ ~finding
    /\ pc \in {"idle", "attempt", "local", "files"} => wire = "none"
    /\ pc \in {"idle", "attempt", "local", "files", "flight"} =>
          status = "none" /\ readings = {} /\ taken = 0
    /\ pc \in {"idle", "attempt", "local", "files", "flight", "body"} =>
          held = "none" /\ fault = "none"
    /\ wire = "sent" => pc = "flight"
    /\ pc = "body" => status \in Status
    /\ pc = "judge" => fault \in Faults \/ (fault = "none" /\ status \in Status)
    /\ pc = "judge" /\ fault = "invalid_remote_data" => uncertain
    /\ pc = "decode" => fault = "none" /\ status \in Status \ {"challenge"}
    /\ pc = "decode" /\ ~Reading => status \notin Trouble

\* The version that is asked for, or looked for.
Versions ==
    pc # "idle" =>
        /\ finding => /\ Automatic /\ call.plan = "resolve" /\ resolved = "none"
                      /\ ver \in {"2", "3"} /\ (ver = "2" => "3" \notin with.serves)
        /\ call.plan \in {"plain", "probe"} => ver = "-"
        /\ call.plan = "v2" => ver = "2"
        /\ call.plan = "fallback" /\ Automatic =>
              ver \in {"2", "3"} /\ (ver = "2" => "3" \notin with.serves)
        /\ call.plan \in {"fallback", "resolve", "known"} /\ ~Automatic => ver = with.version
        /\ call.plan \in {"resolve", "known"} /\ Automatic /\ ~finding =>
              resolved # "none" /\ ver = resolved

\* What a client has kept for the calls to come.
Kept ==
    /\ resolved # "none" => resolved \in with.serves
    /\ Automatic => \A i \in Calls :
          calls[i].plan = "resolve" /\ outcome[i] \in {"ok", "write_ambiguous"} =>
              resolved # "none"
    /\ \A i, j \in Calls :
          /\ i < j /\ calls[i].plan = "resolve" /\ calls[j].plan = "known"
          /\ outcome[i] \in {"ok", "write_ambiguous"}
          => outcome[j] # "invalid_configuration"

\* What a status says of the versions, of the thing, and of the write.
Means(s) ==
    s \in Status =>
        /\ s = "unsupported" => ver = "3" /\ "3" \notin with.serves
        /\ s = "404" => \/ ver = "2" /\ "2" \notin with.serves
                        \/ ~finding /\ call.read /\ ~with.exists
        /\ s \in {"2xx", "204"} /\ ver # "-" => ver \in with.serves
        /\ ~Reading => /\ late[n] = 0 /\ effect[n] \in {0, 1}
                       /\ s \in ClientError \cup {"challenge"} => effect[n] = 0
                       /\ s \in {"2xx", "204"} => effect[n] = 1

Truthful == pc # "idle" => Means(wire) /\ Means(status)

\* The accounts of the writes: what has happened, what may still.
Nothing(i) == effect[i] = 0 /\ late[i] = 0

Balanced(i) ==
    /\ effect[i] + late[i] <= 1
    /\ calls[i].read => Nothing(i)
    /\ Told(i) = "ok" => effect[i] = 1 /\ late[i] = 0
    /\ Told(i) = "failed" => Nothing(i)

Ledger ==
    /\ \A i \in Calls : Balanced(i)
    /\ pc # "idle" =>
          /\ Reading \/ wire = "sent" \/ pc \in {"attempt", "local", "files"} => Nothing(n)
          /\ pc = "judge" /\ fault # "none" /\ ~uncertain => Nothing(n)

\* A body that is being unpacked, or was.
Unpacking ==
    /\ pc \in {"idle", "attempt", "local", "files"} => sent = NoBody
    /\ pc \in {"flight", "body"} /\ route = "curl" => sent.as = "plain"
    /\ pc = "body" /\ ~Packed => readings = {}
    /\ pc = "body" /\ Packed => readings \in {{"zlib", "raw"}, {sent.as}}

Sound ==
    /\ TypeOK /\ Counted /\ Staged /\ Versions /\ Kept /\ Truthful /\ Ledger
    /\ Unpacking /\ BodyIsRight

\* Every row of the tables of calls is such a kind.
LEMMA Rows ==
    ASSUME NEW service, NEW row \in Kinds(service),
           service \in {"gitlab", "confluence", "arm", "jira"}
    PROVE  RowOK(row, service)
  <1>1. RowOK(GitLabJson(TRUE), service) /\ RowOK(GitLabJson(FALSE), service)
    BY DEF RowOK, GitLabJson, Doubted, Plain
  <1>2. RowOK(ConfluenceJson(TRUE), service) /\ RowOK(ConfluenceJson(FALSE), service)
    BY DEF RowOK, ConfluenceJson, Plain
  <1>3. RowOK(ArmJson(TRUE), service) /\ RowOK(ArmJson(FALSE), service)
    BY DEF RowOK, ArmJson, Plain
  <1>4. RowOK(ChecksumProbe, service)
    BY DEF RowOK, ChecksumProbe, Plain
  <1>5. RowOK(RestJson, "jira") /\ RowOK(RestV2, "jira") /\ RowOK(ResolvedRead, "jira")
    BY DEF RowOK, RestJson, RestV2, ResolvedRead, Plain
  <1>6. RowOK(RestV2Mutation, "jira") /\ RowOK(VersionedMutation, "jira")
    BY DEF RowOK, RestV2Mutation, VersionedMutation, Doubted, Plain
  <1> QED
    BY <1>1, <1>2, <1>3, <1>4, <1>5, <1>6 DEF Kinds

-----------------------------------------------------------------------------
(* Types.                                                                  *)

SessionTyped ==
    /\ with \in Settings /\ resolved \in {"none", "2", "3"} /\ n \in 0 .. MaxCalls
    /\ calls \in [Calls -> Kinds(with.service)]
    /\ stop \in {"none", "cancelled", "deadline"}
PlaceTyped ==
    /\ outcome \in [Calls -> Category \cup {"none"}]
    /\ pc \in {"idle", "attempt", "local", "files", "flight", "body", "judge", "decode"}
    /\ ver \in {"-", "2", "3"} /\ finding \in BOOLEAN
    /\ attempt \in 0 .. MaxRetries /\ route \in {"native", "curl"}
AnswerTyped ==
    /\ wire \in {"none", "sent"} \cup Status /\ sent \in Body \cup {NoBody}
    /\ status \in {"none"} \cup Status /\ taken \in 0 .. MaxParts
    /\ readings \subseteq {"zlib", "raw"}
    /\ held \in {"none", "lost", "empty", "json", "other"}
    /\ fault \in {"none"} \cup Category /\ uncertain \in BOOLEAN
RemoteTyped == late \in [Calls -> Nat] /\ effect \in [Calls -> Nat]

\* TypeOK, in four parts.
LEMMA TypesApart == TypeOK <=> SessionTyped /\ PlaceTyped /\ AnswerTyped /\ RemoteTyped
  BY DEF TypeOK, SessionTyped, PlaceTyped, AnswerTyped, RemoteTyped

LEMMA FaultsAreCategories == Faults \subseteq Category /\ "none" \notin Category
  BY DEF Faults, Category

LEMMA NoAnswerTyped == NoAnswer => AnswerTyped'
  <1>1. 0 \in 0 .. MaxParts
    BY ExchangeAssumption
  <1> QED
    BY <1>1 DEF NoAnswer, AnswerTyped, Category

LEMMA ReturnTyped ==
    ASSUME PlaceTyped, NEW c \in Category, Return(c)
    PROVE  PlaceTyped' /\ AnswerTyped'
  <1>1. AnswerTyped'
    BY NoAnswerTyped DEF Return
  <1>2. 0 \in 0 .. MaxRetries
    BY ExchangeAssumption
  <1> QED
    BY <1>1, <1>2 DEF Return, PlaceTyped

LEMMA AskTyped ==
    ASSUME NEW v \in {"-", "2", "3"}, NEW f \in BOOLEAN, Ask(v, f), PlaceTyped,
           outcome' \in [Calls -> Category \cup {"none"}]
    PROVE  PlaceTyped' /\ AnswerTyped'
  <1>1. AnswerTyped'
    BY NoAnswerTyped DEF Ask
  <1>2. 0 \in 0 .. MaxRetries
    BY ExchangeAssumption
  <1> QED
    BY <1>1, <1>2 DEF Ask, PlaceTyped

LEMMA FaultTyped ==
    ASSUME NEW c \in Faults, NEW u \in BOOLEAN, Fault(c, u)
    PROVE  pc' = "judge" /\ fault' \in Faults /\ uncertain' = u
  BY DEF Fault

LEMMA FaultKeepsTypes ==
    ASSUME PlaceTyped, AnswerTyped, NEW c \in Faults, NEW u \in BOOLEAN, Fault(c, u),
           UNCHANGED <<outcome, request, wire, sent, answer>>
    PROVE  PlaceTyped' /\ AnswerTyped'
  <1>1. PlaceTyped'
    BY DEF Fault, PlaceTyped, request
  <1>2. AnswerTyped'
    BY FaultsAreCategories DEF Fault, AnswerTyped, answer
  <1> QED
    BY <1>1, <1>2

LEMMA BreaksTyped ==
    ASSUME PlaceTyped, AnswerTyped, NEW c \in Faults, Breaks(c)
    PROVE  PlaceTyped' /\ AnswerTyped'
  <1>1. PlaceTyped'
    BY DEF Breaks, Fault, PlaceTyped, request
  <1>2. AnswerTyped'
    BY FaultsAreCategories DEF Breaks, Fault, AnswerTyped, failure
  <1> QED
    BY <1>1, <1>2

LEMMA AbandonTyped == RemoteTyped /\ n \in Calls /\ Abandon => RemoteTyped'
  BY DEF Abandon, RemoteTyped

LEMMA StopIsFault == SessionTyped /\ Stopped => stop \in Faults
  BY DEF SessionTyped, Stopped, Faults

LEMMA NamedTyped ==
    ASSUME status \in Status \ {"challenge"}, n \in Calls, SessionTyped
    PROVE  Verdict \in Category
  <1>1. RowOK(call, with.service)
    BY Rows, SettingsAssumption DEF call, SessionTyped
  <1>2. Named \in Category \/ status \in {"2xx", "204"}
    BY DEF Named, Status, ClientError, Trouble, Category
  <1> QED
    BY <1>1, <1>2 DEF Verdict, Succeeds, RowOK, Category

\* Types are kept, action by action.
LEMMA TypedNext == Sound /\ [Next]_vars => TypeOK'
  <1> SUFFICES ASSUME Sound, [Next]_vars
               PROVE  SessionTyped' /\ PlaceTyped' /\ AnswerTyped' /\ RemoteTyped'
    BY TypesApart DEF TypeOK, SessionTyped, PlaceTyped, AnswerTyped, RemoteTyped
  <1>a. SessionTyped /\ PlaceTyped /\ AnswerTyped /\ RemoteTyped /\ Counted /\ Staged
    BY TypesApart DEF Sound
  <1>b. pc # "idle" => n \in Calls
    BY <1>a, ExchangeAssumption DEF Counted, SessionTyped, Calls
  <1>c. Faults \subseteq Category /\ (Stopped => stop \in Faults)
    BY <1>a, FaultsAreCategories, StopIsFault
  <1>d. {"transient", "capacity", "cancelled", "deadline", "invalid_input",
         "invalid_remote_data"} \subseteq Faults
    BY DEF Faults
  <1>e. {"ok", "write_ambiguous", "deadline", "transient", "edge_authentication", "refused",
         "returned", "invalid_configuration"} \subseteq Category
    BY DEF Category
  <1>1. CASE Begin
    <2>1. n' \in Calls /\ n' = n + 1 /\ UNCHANGED <<calls, with>>
      BY <1>a, <1>1, ExchangeAssumption, SettingsAssumption DEF Begin, Calls, session, SessionTyped
    <2>2. SessionTyped' /\ RemoteTyped'
      BY <1>a, <1>1, <2>1 DEF Begin, SessionTyped, RemoteTyped, remote, Calls
    <2>3. RowOK(calls[n'], with.service)
      BY <1>a, <1>1, <2>1, Rows, SettingsAssumption DEF SessionTyped
    <2>4. calls[n'].plan \in {"plain", "probe"} \/ with.version \in {"auto", "2", "3"}
      BY <1>a, <1>1, <2>3, SettingsAssumption DEF SessionTyped, RowOK
    <2>5. FirstVersion(calls[n']) \in {"-", "2", "3", "none"}
      BY <1>a, <1>1, <2>3, <2>4 DEF FirstVersion, SessionTyped, RowOK, Automatic
    <2>6. CASE FirstVersion(calls[n']) = "none"
      <3>1. outcome' = [outcome EXCEPT ![n'] = "invalid_configuration"]
            /\ UNCHANGED <<pc, request, wire, sent, answer, failure>>
        BY <1>1, <2>6 DEF Begin
      <3>2. PlaceTyped'
        BY <1>a, <1>e, <2>1, <3>1 DEF PlaceTyped, request
      <3>3. AnswerTyped'
        BY <1>a, <3>1 DEF AnswerTyped, answer, failure
      <3> QED
        BY <2>2, <3>2, <3>3
    <2>7. CASE FirstVersion(calls[n']) # "none"
      <3>1. outcome' = outcome /\ \E f \in BOOLEAN : Ask(FirstVersion(calls[n']), f)
        BY <1>1, <2>7 DEF Begin
      <3>2. outcome' \in [Calls -> Category \cup {"none"}]
        BY <1>a, <3>1 DEF PlaceTyped
      <3> QED
        BY <1>a, <2>2, <2>5, <2>7, <3>1, <3>2, AskTyped
    <2> QED
      BY <2>6, <2>7
  <1>2. CASE Attempt
    <2>1. SessionTyped' /\ RemoteTyped'
      BY <1>a, <1>2 DEF Attempt, SessionTyped, RemoteTyped, session, remote
    <2>2. PlaceTyped' /\ AnswerTyped'
      BY <1>a, <1>2, <1>b, <1>c, ReturnTyped DEF Attempt, PlaceTyped, AnswerTyped, answer, failure
    <2> QED
      BY <2>1, <2>2
  <1>3. CASE Refuse
    <2>1. SessionTyped' /\ RemoteTyped'
      BY <1>a, <1>3 DEF Refuse, SessionTyped, RemoteTyped, session, remote
    <2>2. PlaceTyped' /\ AnswerTyped'
      BY <1>a, <1>3, <1>c, <1>d, FaultKeepsTypes DEF Refuse
    <2> QED
      BY <2>1, <2>2
  <1>4. CASE Dispatch
    <2>1. SessionTyped' /\ RemoteTyped'
      BY <1>a, <1>4 DEF Dispatch, SessionTyped, RemoteTyped, session, remote, Leaves
    <2>2. PlaceTyped' /\ AnswerTyped'
      BY <1>a, <1>4 DEF Dispatch, Leaves, PlaceTyped, AnswerTyped, request, answer, failure
    <2> QED
      BY <2>1, <2>2
  <1>5. CASE WriteFiles
    <2>1. SessionTyped' /\ RemoteTyped'
      BY <1>a, <1>5 DEF WriteFiles, SessionTyped, RemoteTyped, session, remote
    <2>2. PlaceTyped' /\ AnswerTyped'
      BY <1>a, <1>5 DEF WriteFiles, PlaceTyped, AnswerTyped, request, answer, failure
    <2> QED
      BY <2>1, <2>2
  <1>6. CASE FilesFail
    <2>1. SessionTyped' /\ RemoteTyped'
      BY <1>a, <1>6 DEF FilesFail, SessionTyped, RemoteTyped, session, remote
    <2>2. PlaceTyped' /\ AnswerTyped'
      BY <1>a, <1>6, <1>c, <1>d, FaultKeepsTypes DEF FilesFail
    <2> QED
      BY <2>1, <2>2
  <1>7. CASE StartCurl
    <2>1. SessionTyped' /\ RemoteTyped'
      BY <1>a, <1>7 DEF StartCurl, SessionTyped, RemoteTyped, session, remote, Leaves
    <2>2. PlaceTyped' /\ AnswerTyped'
      BY <1>a, <1>7 DEF StartCurl, Leaves, PlaceTyped, AnswerTyped, request, answer, failure
    <2> QED
      BY <2>1, <2>2
  <1>8. CASE TransportFails
    <2>1. SessionTyped' /\ RemoteTyped'
      BY <1>a, <1>8, <1>b, AbandonTyped DEF TransportFails, SessionTyped, session
    <2>2. PlaceTyped' /\ AnswerTyped'
      BY <1>a, <1>8, <1>c, <1>d DEF TransportFails, Fault, Abandon, ClientError, Status, PlaceTyped, AnswerTyped, request, answer, failure
    <2> QED
      BY <2>1, <2>2
  <1>9. CASE Headers
    <2>1. SessionTyped' /\ RemoteTyped'
      BY <1>a, <1>9 DEF Headers, SessionTyped, RemoteTyped, session, remote
    <2>2. PlaceTyped' /\ AnswerTyped'
      BY <1>a, <1>9 DEF Headers, PlaceTyped, AnswerTyped, request, answer, failure
    <2> QED
      BY <2>1, <2>2
  <1>10. CASE BodyBreaks
    <2>1. SessionTyped' /\ RemoteTyped'
      BY <1>a, <1>10 DEF BodyBreaks, SessionTyped, RemoteTyped, session, remote, Breaks
    <2>2. PlaceTyped' /\ AnswerTyped'
      BY <1>a, <1>10, <1>c, <1>d, BreaksTyped DEF BodyBreaks
    <2> QED
      BY <2>1, <2>2
  <1>11. CASE Part
    <2>1. SessionTyped' /\ RemoteTyped'
      BY <1>a, <1>11 DEF Part, Breaks, SessionTyped, RemoteTyped, session, remote
    <2>2. Packed \/ (readings = {} /\ Cardinality(readings) # 2)
      BY <1>a, <1>11, FS_EmptySet DEF Sound, Unpacking, Part
    <2>3. Decides(StillOpen) \subseteq {"zlib", "raw"}
      BY <1>a, <1>11, <2>2, Zenon DEF Decides, StillOpen, AnswerTyped, Packed
    <2>4. taken + 1 > MaxParts \/ taken + 1 \in 0 .. MaxParts
      BY <1>a, <1>11, ExchangeAssumption DEF AnswerTyped
    <2>5. CASE \E c \in Faults : Breaks(c)
      BY <1>a, <2>1, <2>5, BreaksTyped
    <2>6. CASE /\ taken' = taken + 1 /\ taken + 1 <= MaxParts
               /\ readings' = Decides(StillOpen)
               /\ UNCHANGED <<outcome, pc, request, wire, sent, status, held, failure>>
      <3>1. PlaceTyped'
        BY <1>a, <2>6 DEF PlaceTyped, request
      <3>2. taken' \in 0 .. MaxParts
        BY <1>a, <2>6, ExchangeAssumption DEF AnswerTyped
      <3>3. AnswerTyped'
        BY <1>a, <2>3, <2>6, <3>2 DEF AnswerTyped, failure
      <3> QED
        BY <2>1, <3>1, <3>3
    <2>7. taken + 1 > MaxParts \/ taken + 1 <= MaxParts
      BY <1>a, <2>4, ExchangeAssumption
    <2> QED
      BY <1>11, <1>d, <2>1, <2>5, <2>6, <2>7 DEF Part
  <1>12. CASE EndOfBody
    <2>1. SessionTyped' /\ RemoteTyped'
      BY <1>a, <1>12 DEF EndOfBody, SessionTyped, RemoteTyped, session, remote, Breaks
    <2>2. sent.kind \in {"json", "other", "empty"}
      BY <1>a, <1>12, SettingsAssumption DEF AnswerTyped, NoBody
    <2>3. CASE \E c \in Faults : Breaks(c)
      BY <1>a, <2>1, <2>3, BreaksTyped
    <2>4. CASE /\ held' = sent.kind /\ pc' = "judge"
               /\ readings' = IF Packed /\ sent.as \in readings THEN {sent.as} ELSE readings
               /\ UNCHANGED <<outcome, request, wire, sent, status, taken, failure>>
      <3>1. PlaceTyped'
        BY <1>a, <2>4 DEF PlaceTyped, request
      <3>2. AnswerTyped'
        BY <1>a, <2>2, <2>4 DEF AnswerTyped, failure
      <3> QED
        BY <2>1, <3>1, <3>2
    <2> QED
      BY <1>12, <1>d, <2>1, <2>3, <2>4 DEF EndOfBody
  <1>13. CASE CurlStopped
    <2>1. SessionTyped' /\ RemoteTyped'
      BY <1>a, <1>13, <1>b, AbandonTyped DEF CurlStopped, SessionTyped, session
    <2>2. /\ pc' = "judge" /\ fault' \in {fault} \cup Faults /\ uncertain' \in {TRUE, uncertain}
          /\ status' \in {status} \cup ClientError /\ held' \in {held, "lost"}
      BY <1>a, <1>13, <1>c, <1>d DEF CurlStopped, StatusOnly, WaitingFails, Fault, failure
    <2>3. wire' = "none" /\ UNCHANGED <<outcome, request, sent, taken, readings>>
      BY <1>13 DEF CurlStopped, Abandon
    <2>4. PlaceTyped'
      BY <1>a, <2>2, <2>3 DEF PlaceTyped, request
    <2>5. AnswerTyped'
      BY <1>a, <1>c, <2>2, <2>3 DEF AnswerTyped, Status
    <2> QED
      BY <2>1, <2>4, <2>5
  <1>14. CASE CurlFails
    <2>1. SessionTyped' /\ RemoteTyped'
      BY <1>a, <1>14, <1>b, AbandonTyped DEF CurlFails, SessionTyped, session
    <2>2. /\ pc' = "judge" /\ fault' \in {fault} \cup Faults /\ uncertain' \in {TRUE, uncertain}
          /\ status' \in {status} \cup ClientError /\ held' \in {held, "lost"}
      BY <1>a, <1>14, <1>c, <1>d DEF CurlFails, StatusOnly, Illegible, Fault, failure
    <2>3. wire' = "none" /\ UNCHANGED <<outcome, request, sent, taken, readings>>
      BY <1>14 DEF CurlFails, Abandon
    <2>4. PlaceTyped'
      BY <1>a, <2>2, <2>3 DEF PlaceTyped, request
    <2>5. AnswerTyped'
      BY <1>a, <1>c, <2>2, <2>3 DEF AnswerTyped, Status
    <2> QED
      BY <2>1, <2>4, <2>5
  <1>15. CASE CurlAnswers
    <2>1. SessionTyped' /\ RemoteTyped'
      BY <1>a, <1>15 DEF CurlAnswers, SessionTyped, RemoteTyped, session, remote
    <2>2. sent.kind \in {"json", "other", "empty"} /\ sent.parts \in Nat
      BY <1>a, <1>15, SettingsAssumption DEF AnswerTyped, NoBody
    <2>3. PlaceTyped' /\ AnswerTyped'
      BY <1>a, <1>15, <2>2, ExchangeAssumption DEF CurlAnswers, PlaceTyped, AnswerTyped, request, answer, failure
    <2> QED
      BY <2>1, <2>2, <2>3
  <1>16. CASE TryCurl
    <2>1. SessionTyped' /\ RemoteTyped'
      BY <1>a, <1>16 DEF TryCurl, SessionTyped, RemoteTyped, session, remote
    <2>2. PlaceTyped' /\ AnswerTyped'
      BY <1>a, <1>16, NoAnswerTyped DEF TryCurl, PlaceTyped
    <2> QED
      BY <2>1, <2>2
  <1>17. CASE JudgeFailure
    <2>1. SessionTyped' /\ RemoteTyped'
      BY <1>a, <1>17 DEF JudgeFailure, SessionTyped, RemoteTyped, session, remote
    <2>2. ASSUME Again, ~Stopped, attempt < MaxRetries PROVE PlaceTyped' /\ AnswerTyped'
      BY <1>a, <1>17, <2>2, NoAnswerTyped, ExchangeAssumption DEF Again, PlaceTyped
    <2>3. fault \in Category
      BY <1>a, <1>17, <1>c DEF JudgeFailure, Staged
    <2>4. attempt >= MaxRetries \/ attempt < MaxRetries
      BY <1>a, <1>17, ExchangeAssumption DEF PlaceTyped
    <2>5. PlaceTyped' /\ AnswerTyped'
      BY <1>a, <1>17, <1>b, <1>c, <1>e, <2>2, <2>3, <2>4, ReturnTyped DEF JudgeFailure, TooLate
    <2> QED
      BY <2>1, <2>2, <2>3, <2>4, <2>5
  <1>18. CASE JudgeAnswer
    <2>1. SessionTyped' /\ RemoteTyped'
      BY <1>a, <1>18 DEF JudgeAnswer, SessionTyped, RemoteTyped, session, remote
    <2>2. ASSUME Again, attempt < MaxRetries PROVE PlaceTyped' /\ AnswerTyped'
      BY <1>a, <1>18, <2>2, NoAnswerTyped, ExchangeAssumption DEF Again, PlaceTyped
    <2>3. ASSUME Final PROVE PlaceTyped' /\ AnswerTyped'
      BY <1>a, <1>18, <2>1, <2>3 DEF Final, PlaceTyped, AnswerTyped, request, answer, failure
    <2>4. PlaceTyped' /\ AnswerTyped'
      BY <1>a, <1>18, <1>b, <1>c, <1>e, <2>2, <2>3, ReturnTyped DEF JudgeAnswer, TooLate, TriesAgain
    <2> QED
      BY <2>1, <2>2, <2>3, <2>4
  <1>19. CASE JudgeProbe
    <2>1. SessionTyped' /\ RemoteTyped'
      BY <1>a, <1>19 DEF JudgeProbe, SessionTyped, RemoteTyped, session, remote
    <2>2. PlaceTyped' /\ AnswerTyped'
      BY <1>a, <1>19, <1>b, <1>e, ReturnTyped DEF JudgeProbe
    <2> QED
      BY <2>1, <2>2
  <1>20. CASE FallBack
    <2>1. SessionTyped' /\ RemoteTyped'
      BY <1>a, <1>20 DEF FallBack, SessionTyped, RemoteTyped, session, remote
    <2>2. PlaceTyped' /\ AnswerTyped'
      BY <1>a, <1>20, AskTyped DEF FallBack, PlaceTyped
    <2> QED
      BY <2>1, <2>2
  <1>21. CASE Resolve
    <2>1. Verdict \in Category /\ ver \in {"-", "2", "3"}
      BY <1>a, <1>21, <1>b, NamedTyped DEF Resolve, Staged, PlaceTyped
    <2>2. resolved' \in {"none", "2", "3"}
      BY <1>a, <1>21, <2>1 DEF Resolve, Resolves, Staged, Sound, Versions, PlaceTyped
    <2>3. SessionTyped' /\ RemoteTyped'
      BY <1>a, <1>21, <2>2 DEF Resolve, SessionTyped, RemoteTyped, session, remote
    <2>4. PlaceTyped' /\ AnswerTyped'
      BY <1>a, <1>21, <2>1, <2>2, AskTyped, ReturnTyped DEF Resolve, PlaceTyped
    <2> QED
      BY <2>1, <2>2, <2>3, <2>4
  <1>22. CASE Conclude
    <2>1. SessionTyped' /\ RemoteTyped'
      BY <1>a, <1>22 DEF Conclude, SessionTyped, RemoteTyped, session, remote
    <2>2. Verdict \in Category
      BY <1>a, <1>22, <1>b, NamedTyped DEF Conclude, Staged
    <2>3. PlaceTyped' /\ AnswerTyped'
      BY <1>a, <1>22, <2>2, ReturnTyped DEF Conclude
    <2> QED
      BY <2>1, <2>2, <2>3
  <1>23. CASE Serve
    <2>1. n \in Calls
      BY <1>a, <1>23, <1>b DEF Serve, Staged
    <2>2. Regular \cup {"429"} \cup Trouble \subseteq Status
      BY <1>a, <1>23 DEF Regular, Edge, Status, ClientError, Trouble
    <2>3. RemoteTyped' /\ late' = late
      BY <1>a, <1>23, <2>1 DEF Serve, Acts, RemoteTyped
    <2>4. SessionTyped' /\ PlaceTyped'
      BY <1>a, <1>23 DEF Serve, SessionTyped, PlaceTyped, session, request
    <2>5. AnswerTyped'
      BY <1>a, <1>23, <2>2, SettingsAssumption DEF Serve, AnswerTyped, SessionTyped, answer, failure
    <2> QED
      BY <2>1, <2>2, <2>3, <2>4, <2>5
  <1>24. CASE \E i \in Calls : ServeLate(i)
    <2>1. SessionTyped' /\ PlaceTyped' /\ AnswerTyped'
      BY <1>a, <1>24 DEF ServeLate, SessionTyped, session, PlaceTyped, AnswerTyped, request, answer, failure
    <2>2. RemoteTyped'
      BY <1>a, <1>24 DEF ServeLate, RemoteTyped
    <2> QED
      BY <2>1, <2>2
  <1>25. CASE RunOut
    <2>1. RemoteTyped'
      BY <1>a, <1>25 DEF RunOut, SessionTyped, RemoteTyped, session, remote
    <2>2. SessionTyped'
      BY <1>a, <1>25, ExchangeAssumption DEF RunOut, SessionTyped, session
    <2>3. PlaceTyped' /\ AnswerTyped'
      BY <1>a, <1>25 DEF RunOut, PlaceTyped, AnswerTyped, request, answer, failure
    <2> QED
      BY <2>1, <2>2, <2>3
  <1>26. CASE UNCHANGED vars
    BY <1>a, <1>26 DEF vars, SessionTyped, RemoteTyped, session, remote, PlaceTyped, AnswerTyped, request, answer, failure
  <1> QED
    BY <1>1, <1>2, <1>3, <1>4, <1>5, <1>6, <1>7, <1>8, <1>9, <1>10, <1>11, <1>12, <1>13, <1>14, <1>15, <1>16, <1>17, <1>18, <1>19, <1>20, <1>21, <1>22, <1>23, <1>24, <1>25, <1>26 DEF Next, Client

-----------------------------------------------------------------------------
(* The steps of a client, by what they do to the rest of the call.         *)

Early == {"attempt", "local", "files"}

\* It goes on with the same version.
Continues ==
    /\ pc # "idle" /\ pc' # "idle"
    /\ UNCHANGED <<session, resolved, outcome, ver, finding>>
    /\ status' \in {"none", status, wire} /\ wire' \in {"none", "sent", wire}
    /\ \/ UNCHANGED remote
       \/ wire = "sent" /\ Abandon /\ status' = "none"
    /\ wire' = "sent" \/ pc' \in Early => Reading \/ pc \in Early \/ status = "edge"
    /\ pc' = "judge" /\ fault' # "none" /\ ~uncertain' => pc \in {"local", "files"}

\* It is over: c is what the caller is told.
Truly(c) ==
    /\ c \in Category \ {"invalid_configuration"}
    /\ finding => c \notin {"ok", "write_ambiguous"}
    /\ c = "ok" /\ ~call.read => effect[n] = 1 /\ late[n] = 0
    /\ ~call.read =>
          c \in {"ok", "write_ambiguous", "invalid_remote_data", "returned"} \/ Nothing(n)
    /\ c = "not_found" =>
          pc = "decode" /\ status \in {"404", "unsupported"} /\ ~FallsBack

Ends ==
    /\ pc # "idle" /\ UNCHANGED <<session, resolved, remote>>
    /\ \E c \in Category : Return(c) /\ Truly(c)

\* The version is known now.
Settles ==
    /\ pc # "idle" /\ finding /\ ver \in with.serves /\ resolved' = ver
    /\ Ask(ver, FALSE)
    /\ UNCHANGED <<session, outcome, remote>>

Shape == Continues \/ Ends \/ Settles

\* Every step of a client but the fallback has one of the three shapes.
LEMMA ClientSteps == Sound /\ Client => FallBack \/ Shape
  <1> SUFFICES ASSUME Sound, Client PROVE FallBack \/ Shape
    OBVIOUS
  <1>a. SessionTyped /\ PlaceTyped /\ AnswerTyped /\ RemoteTyped /\ Counted /\ Staged /\ Ledger
    BY TypesApart DEF Sound
  <1>b. pc # "idle" => n \in Calls
    BY <1>a, ExchangeAssumption DEF Counted, SessionTyped, Calls
  <1>c. pc # "idle" => Means(status)
    BY DEF Sound, Truthful
  <1>e. {"ok", "write_ambiguous", "deadline", "transient", "edge_authentication", "refused",
         "returned", "cancelled", "capacity", "invalid_input"}
        \subseteq Category \ {"invalid_configuration", "not_found"}
    BY DEF Category
  <1>f. /\ Faults \subseteq Category \ {"ok", "write_ambiguous", "invalid_configuration", "not_found",
                                       "returned"}
        /\ {"transient", "deadline", "cancelled"} \subseteq Faults
    BY DEF Faults, Category
  <1>d. pc # "idle" /\ Reading => Nothing(n)
    BY <1>a DEF Ledger
  <1>1. CASE Attempt
    <2>1. Attempt /\ ~Stopped => Continues
      BY <1>a, <1>1 DEF Attempt, Continues, Shape, Early, Staged, request, answer, failure
    <2>2. ASSUME Stopped PROVE Ends
      BY <1>a, <1>1, <2>2, <1>b, <1>f, StopIsFault DEF Attempt, Ends, Truly, Ledger, Early
    <2> QED
      BY <1>1, <2>1, <2>2 DEF Shape
  <1>2. CASE Refuse
    BY <1>a, <1>2 DEF Refuse, Fault, Continues, Shape, Early, Staged, request, answer, failure
  <1>3. CASE Dispatch
    BY <1>a, <1>3 DEF Dispatch, Leaves, Continues, Shape, Early, Staged, request, answer, failure
  <1>4. CASE WriteFiles
    BY <1>a, <1>4 DEF WriteFiles, Continues, Shape, Early, Staged, request, answer, failure
  <1>5. CASE FilesFail
    BY <1>a, <1>5 DEF FilesFail, Fault, Continues, Shape, Early, Staged, request, answer, failure
  <1>6. CASE StartCurl
    BY <1>a, <1>6 DEF StartCurl, Leaves, Continues, Shape, Early, Staged, request, answer, failure
  <1>7. CASE TransportFails
    BY <1>a, <1>7 DEF TransportFails, Fault, Abandon, remote, Continues, Shape, Early, Staged, request, answer, failure
  <1>8. CASE Headers
    BY <1>a, <1>8 DEF Headers, Status, ClientError, Trouble, Continues, Shape, Early, Staged, request, answer, failure
  <1>9. CASE BodyBreaks
    BY <1>a, <1>9 DEF BodyBreaks, Breaks, Fault, Continues, Shape, Early, Staged, request, answer, failure
  <1>10. CASE Part
    BY <1>a, <1>10 DEF Part, Breaks, Fault, Continues, Shape, Early, Staged, request, answer, failure
  <1>11. CASE EndOfBody
    BY <1>a, <1>11 DEF EndOfBody, Breaks, Fault, Continues, Shape, Early, Staged, request, answer, failure
  <1>12. CASE CurlStopped
    BY <1>a, <1>12 DEF CurlStopped, StatusOnly, WaitingFails, Fault, Abandon, remote, ClientError, Continues, Shape, Early, Staged, request, answer, failure
  <1>13. CASE CurlFails
    BY <1>a, <1>13 DEF CurlFails, StatusOnly, Illegible, Fault, Abandon, remote, ClientError, Continues, Shape, Early, Staged, request, answer, failure
  <1>14. CASE CurlAnswers
    BY <1>a, <1>14 DEF CurlAnswers, Status, ClientError, Trouble, Continues, Shape, Early, Staged, request, answer, failure
  <1>15. CASE TryCurl
    BY <1>a, <1>15 DEF TryCurl, TriesCurl, Blocked, NoAnswer, Continues, Shape, Early, Staged, request, answer, failure
  <1>16. CASE JudgeFailure
    <2>1. fault \in Faults /\ (~uncertain => Nothing(n) /\ fault # "invalid_remote_data")
      BY <1>a, <1>16 DEF JudgeFailure, Staged, Ledger
    <2>2. CASE ~Reading
      <3>1. Truly(IF uncertain THEN "write_ambiguous" ELSE fault)
        BY <1>e, <1>f, <2>1, <2>2 DEF Truly, Reading
      <3> QED
        BY <1>a, <1>16, <1>e, <1>f, <2>1, <2>2, <3>1 DEF JudgeFailure, Ends, Shape
    <2>3. CASE Reading
      <3>1. ASSUME NEW c \in Faults PROVE Truly(c)
        BY <1>a, <1>16, <1>d, <1>f, <2>3, <3>1 DEF Truly, Reading, JudgeFailure
      <3>2. CASE Again
        BY <1>a, <1>16, <2>3, <3>2 DEF JudgeFailure, Again, NoAnswer, Continues, Shape, Early, Staged, request, answer, failure
      <3>3. CASE \E c \in Faults : Return(c)
        BY <1>a, <1>16, <1>f, <3>1, <3>3 DEF JudgeFailure, Ends, Shape
      <3>4. Again \/ \E c \in Faults : Return(c)
        BY <1>a, <1>16, <1>f, <2>1, <2>3, StopIsFault DEF JudgeFailure, TooLate
      <3> QED
        BY <3>2, <3>3, <3>4
    <2> QED
      BY <2>2, <2>3
  <1>17. CASE JudgeAnswer
    <2>1. status \in Status /\ n \in Calls /\ Means(status)
      BY <1>a, <1>17, <1>b, <1>c, FaultsAreCategories DEF JudgeAnswer, Answered, Staged, Faults
    <2>2. status = "challenge" => Truly("edge_authentication")
      BY <1>a, <1>17, <1>d, <1>e, <2>1 DEF Truly, Means, Nothing, Reading, JudgeAnswer, Answered
    <2>3. Reading => \A c \in Faults : Truly(c)
      BY <1>a, <1>17, <1>d, <1>f DEF Truly, Reading, JudgeAnswer, Answered
    <2>4. ~Reading => Truly("write_ambiguous")
      BY <1>e DEF Truly, Reading
    <2>5. CASE Reading /\ Again
      BY <1>a, <1>17, <2>5 DEF JudgeAnswer, Answered, Again, NoAnswer, Continues, Shape, Early, Staged, request, answer, failure
    <2>6. CASE Final
      BY <1>a, <1>17, <2>6 DEF JudgeAnswer, Answered, Final, Continues, Shape, Early, Staged, request, answer, failure
    <2>7. CASE \E c \in Category : Return(c) /\ Truly(c)
      BY <1>a, <1>17, <2>7 DEF JudgeAnswer, Answered, Ends, Shape
    <2>8. \/ Reading /\ Again
          \/ Final
          \/ \E c \in Category : Return(c) /\ Truly(c)
      BY <1>a, <1>17, <1>e, <1>f, <2>2, <2>3, <2>4, StopIsFault DEF JudgeAnswer, TooLate, TriesAgain
    <2> QED
      BY <2>5, <2>6, <2>7, <2>8
  <1>18. CASE JudgeProbe
    <2>1. status \in Status /\ n \in Calls /\ Means(status) /\ ~finding
      BY <1>a, <1>18, <1>b, <1>c DEF JudgeProbe, Answered, Staged, Sound, Versions, Faults
    <2>2. Truly("write_ambiguous") /\ Truly("returned")
      BY <1>e, <2>1 DEF Truly
    <2>3. status \in ClientError \cup {"challenge"} =>
             Truly("refused") /\ Truly("edge_authentication")
      BY <1>e, <2>1 DEF Truly, Means, Nothing, Reading
    <2>4. status \in {"2xx", "204"} => Truly("ok")
      BY <1>e, <2>1 DEF Truly, Means, Nothing, Reading
    <2> QED
      BY <1>a, <1>18, <1>e, <2>2, <2>3, <2>4 DEF JudgeProbe, Answered, Ends, Shape
  <1>19. CASE FallBack
    BY <1>19
  <1>20. CASE Resolve
    <2>1. n \in Calls /\ Means(status) /\ Nothing(n) /\ status \in Status \ {"challenge"}
      BY <1>a, <1>20, <1>b, <1>c, <1>d DEF Resolve, Staged, Reading
    <2>2. Verdict \in Category
      BY <1>a, <2>1, NamedTyped
    <2>3. finding /\ resolved = "none" /\ ver \in {"2", "3"}
      BY <1>a, <1>20 DEF Resolve, Sound, Versions, Staged
    <2>4. CASE resolved' = "none"
      <3>1. Verdict \notin {"ok", "write_ambiguous", "invalid_configuration"}
        BY <1>a, <1>20, <2>1, <2>3, <2>4 DEF Resolve, Resolves, Verdict, Named, Succeeds, Status, ClientError, Trouble
      <3>2. Verdict = "not_found" => status \in {"404", "unsupported"}
        BY <2>1, <2>3 DEF Verdict, Named, Status, ClientError, Trouble, Succeeds
      <3>3. Truly(Verdict)
        BY <1>a, <1>20, <2>1, <2>2, <3>1, <3>2 DEF Truly, Resolve
      <3> QED
        BY <1>a, <1>20, <2>2, <2>3, <2>4, <3>3 DEF Resolve, Ends, Shape
    <2>5. CASE resolved' # "none"
      <3>1. resolved' = ver /\ status \in {"2xx", "204"}
        BY <1>a, <1>20, <2>1, <2>3, <2>5 DEF Resolve, Resolves, Verdict, Named, Succeeds, Status, ClientError, Trouble
      <3>2. ver \in with.serves
        BY <2>1, <2>3, <3>1 DEF Means
      <3> QED
        BY <1>a, <1>20, <2>3, <2>5, <3>1, <3>2 DEF Resolve, Settles, Shape
    <2> QED
      BY <2>4, <2>5
  <1>21. CASE Conclude
    <2>1. n \in Calls /\ Means(status) /\ status \in Status \ {"challenge"} /\ pc = "decode"
          /\ ~finding /\ ~FallsBack
      BY <1>a, <1>21, <1>b, <1>c DEF Conclude, Staged
    <2>2. Verdict \in Category
      BY <1>a, <2>1, NamedTyped
    <2>3. call.unusable \in {"invalid_remote_data", "write_ambiguous"}
      BY <1>a, <2>1, Rows, SettingsAssumption DEF RowOK, call, SessionTyped
    <2>4. ~call.read => status \notin Trouble
      BY <1>a, <2>1 DEF Staged, Reading
    <2>5. CASE Succeeds
      BY <1>a, <1>21, <1>e, <2>1, <2>2, <2>3, <2>5 DEF Conclude, Verdict, Succeeds, Truly, Means, Reading, Ends, Shape
    <2>6. CASE ~Succeeds
      <3>1. status \in ClientError \cup Trouble /\ Verdict = Named
        BY <2>1, <2>6 DEF Verdict, Succeeds, Status
      <3>2. Named \notin {"ok", "write_ambiguous", "invalid_configuration"}
            /\ (Named = "not_found" => status \in {"404", "unsupported"})
        BY <3>1 DEF Named, ClientError, Trouble
      <3>3. ~call.read => Nothing(n)
        BY <2>1, <2>4, <3>1 DEF Means, Nothing, Reading
      <3>4. Truly(Verdict)
        BY <2>1, <2>2, <3>1, <3>2, <3>3 DEF Truly
      <3> QED
        BY <1>a, <1>21, <2>1, <2>2, <3>4 DEF Conclude, Ends, Shape
    <2> QED
      BY <2>5, <2>6
  <1> QED
    BY <1>1, <1>2, <1>3, <1>4, <1>5, <1>6, <1>7, <1>8, <1>9, <1>10, <1>11, <1>12, <1>13, <1>14, <1>15, <1>16, <1>17, <1>18, <1>19, <1>20, <1>21 DEF Client

-----------------------------------------------------------------------------
(* The parts of the invariant.                                             *)

\* What is known of an answer, step by step.
LEMMA StagedNext == Sound /\ [Next]_vars => Staged'
  <1> SUFFICES ASSUME Sound, [Next]_vars PROVE Staged'
    OBVIOUS
  <1>a. Staged /\ SessionTyped /\ AnswerTyped
    BY TypesApart DEF Sound
  <1>b. Stopped => stop \in {"cancelled", "deadline"}
    BY <1>a DEF SessionTyped, Stopped
  <1>c. "none" \notin Faults /\ {"transient", "capacity", "cancelled", "deadline", "invalid_input",
                               "invalid_remote_data"} \subseteq Faults
    BY DEF Faults
  <1> USE DEF Staged, Reading, call, Status, ClientError, Trouble
  <1>1. CASE Begin
    BY <1>a, <1>1 DEF Begin, Ask, NoAnswer, FirstVersion, session, request, answer, failure, remote
  <1>2. CASE Attempt
    BY <1>a, <1>2 DEF Attempt, Return, NoAnswer, session, request, answer, failure, remote
  <1>3. CASE Refuse
    BY <1>a, <1>3, <1>b, <1>c DEF Refuse, Fault, session, request, answer, failure, remote
  <1>4. CASE Dispatch
    BY <1>a, <1>4 DEF Dispatch, Leaves, session, request, answer, failure, remote
  <1>5. CASE WriteFiles
    BY <1>a, <1>5 DEF WriteFiles, session, request, answer, failure, remote
  <1>6. CASE FilesFail
    BY <1>a, <1>6, <1>b, <1>c DEF FilesFail, Fault, session, request, answer, failure, remote
  <1>7. CASE StartCurl
    BY <1>a, <1>7 DEF StartCurl, Leaves, session, request, answer, failure, remote
  <1>8. CASE TransportFails
    BY <1>a, <1>8, <1>b, <1>c DEF TransportFails, Fault, Abandon, session, request, answer, failure, remote
  <1>9. CASE Headers
    BY <1>a, <1>9 DEF Headers, session, request, answer, failure, remote
  <1>10. CASE BodyBreaks
    BY <1>a, <1>10, <1>b, <1>c DEF BodyBreaks, Breaks, Fault, session, request, answer, failure, remote
  <1>11. CASE Part
    BY <1>a, <1>11, <1>b, <1>c DEF Part, Breaks, Fault, Decides, StillOpen, session, request, answer, failure, remote
  <1>12. CASE EndOfBody
    BY <1>a, <1>12, <1>b, <1>c DEF EndOfBody, Breaks, Fault, session, request, answer, failure, remote
  <1>13. CASE CurlStopped
    BY <1>a, <1>13, <1>b, <1>c DEF CurlStopped, StatusOnly, WaitingFails, Fault, Abandon, session, request, answer, failure, remote
  <1>14. CASE CurlFails
    BY <1>a, <1>14, <1>b, <1>c DEF CurlFails, StatusOnly, Illegible, Fault, Abandon, session, request, answer, failure, remote
  <1>15. CASE CurlAnswers
    BY <1>a, <1>15 DEF CurlAnswers, session, request, answer, failure, remote
  <1>16. CASE TryCurl
    BY <1>a, <1>16 DEF TryCurl, TriesCurl, Answered, Blocked, NoAnswer, session, request, answer, failure, remote
  <1>17. CASE JudgeFailure
    BY <1>a, <1>17, <1>b, <1>c DEF JudgeFailure, Return, NoAnswer, TooLate, Again, session, request, answer, failure, remote
  <1>18. CASE JudgeAnswer
    BY <1>a, <1>18, <1>b, <1>c DEF JudgeAnswer, Answered, Return, NoAnswer, TooLate, Again, Final, TriesAgain, session, request, answer, failure, remote
  <1>19. CASE JudgeProbe
    BY <1>a, <1>19 DEF JudgeProbe, Answered, Return, NoAnswer, session, request, answer, failure, remote
  <1>20. CASE FallBack
    BY <1>a, <1>20 DEF FallBack, FallsBack, IsUnsupported, Ask, NoAnswer, session, request, answer, failure, remote
  <1>21. CASE Resolve
    BY <1>a, <1>21 DEF Resolve, FallsBack, IsUnsupported, Resolves, Ask, Return, NoAnswer, session, request, answer, failure, remote
  <1>22. CASE Conclude
    BY <1>a, <1>22 DEF Conclude, FallsBack, IsUnsupported, Return, NoAnswer, session, request, answer, failure, remote
  <1>23. CASE Serve
    BY <1>a, <1>23 DEF Serve, Regular, Acts, AtTheEdge, Edge, Suits, session, request, answer, failure, remote
  <1>24. CASE RunOut
    BY <1>a, <1>24 DEF RunOut, session, request, answer, failure, remote
  <1>25. CASE \E i \in Calls : ServeLate(i)
    BY <1>a, <1>25 DEF ServeLate, session, request, answer, failure, remote
  <1>26. CASE UNCHANGED vars
    BY <1>a, <1>26 DEF vars, session, request, answer, failure, remote
  <1> QED
    BY <1>1, <1>2, <1>3, <1>4, <1>5, <1>6, <1>7, <1>8, <1>9, <1>10, <1>11, <1>12, <1>13, <1>14, <1>15, <1>16, <1>17, <1>18, <1>19, <1>20, <1>21, <1>22, <1>23, <1>24, <1>25, <1>26 DEF Next, Client

\* How far the operation has come.
LEMMA CountedNext == Sound /\ TypeOK' /\ [Next]_vars => Counted'
  <1> SUFFICES ASSUME Sound, TypeOK', [Next]_vars PROVE Counted'
    OBVIOUS
  <1>a. Counted /\ SessionTyped /\ PlaceTyped /\ RemoteTyped
    BY TypesApart DEF Sound
  <1>b. pc # "idle" => n \in Calls
    BY <1>a, ExchangeAssumption DEF Counted, SessionTyped, Calls
  <1>1. CASE Begin
    <2>1. n' = n + 1 /\ n' \in Calls /\ n' <= with'.upto
      BY <1>a, <1>1, ExchangeAssumption, SettingsAssumption DEF Begin, SessionTyped, Calls, session
    <2>2. \A i \in Calls : i > n' => i > n /\ i # n'
      BY <1>a, <1>1, <2>1 DEF SessionTyped, Calls
    <2> QED
      <3>1. UNCHANGED <<effect, late, with>> /\ (pc' # "idle" => outcome' = outcome)
        BY <1>a, <1>1 DEF Begin, remote
      <3>2. \A i \in Calls : i # n' => outcome'[i] = outcome[i]
        BY <1>a, <1>1 DEF Begin, PlaceTyped
      <3>3. n' > n
        BY <1>a, <1>1, <2>1 DEF SessionTyped
      <3>4. outcome[n'] = "none"
        BY <1>a, <2>1, <3>3 DEF Counted
      <3>5. pc' # "idle" => n' > 0 /\ outcome'[n'] = "none"
        BY <1>a, <2>1, <3>1, <3>3, <3>4 DEF SessionTyped
      <3>6. \A i \in Calls : i > n' => outcome'[i] = "none" /\ effect'[i] = 0 /\ late'[i] = 0
        BY <1>a, <2>2, <3>1, <3>2 DEF Counted
      <3> QED
        BY <2>1, <3>5, <3>6 DEF Counted
  <1>2. CASE Continues
    <2>1. n \in Calls /\ UNCHANGED <<with, n, outcome>>
      BY <1>a, <1>2, <1>b DEF Continues, session
    <2>2. \A i \in Calls : i # n => effect'[i] = effect[i] /\ late'[i] = late[i]
      BY <1>a, <1>2 DEF Continues, Abandon, remote, RemoteTyped
    <2> QED
      BY <1>a, <1>2, <2>1, <2>2 DEF Continues, Counted, Calls
  <1>3. CASE Ends
    BY <1>a, <1>3, <1>b DEF Ends, Return, Counted, session, remote, Calls, SessionTyped, PlaceTyped
  <1>4. CASE Settles
    BY <1>a, <1>4 DEF Settles, Ask, Counted, session, remote
  <1>5. CASE FallBack
    BY <1>a, <1>5 DEF FallBack, Ask, Counted, session, remote
  <1>6. CASE Serve
    <2>1. \A i \in Calls : i # n => effect'[i] = effect[i]
      BY <1>a, <1>6 DEF Serve, Acts, RemoteTyped
    <2>2. pc # "idle"
      BY <1>a, <1>6 DEF Serve, Sound, Staged
    <2> QED
      BY <1>a, <1>6, <1>b, <2>1, <2>2 DEF Serve, Counted, session, SessionTyped, Calls
  <1>7. CASE \E i \in Calls : ServeLate(i)
    BY <1>a, <1>7 DEF ServeLate, Counted, session, RemoteTyped
  <1>8. CASE RunOut
    BY <1>a, <1>8 DEF RunOut, Counted, session, remote
  <1>9. CASE UNCHANGED vars
    BY <1>a, <1>9 DEF vars, Counted, session, remote
  <1> QED
    BY <1>1, <1>2, <1>3, <1>4, <1>5, <1>6, <1>7, <1>8, <1>9, ClientSteps DEF Next, Shape

\* The version asked for.
LEMMA VersionsNext == Sound /\ TypeOK' /\ [Next]_vars => Versions'
  <1> SUFFICES ASSUME Sound, TypeOK', [Next]_vars PROVE Versions'
    OBVIOUS
  <1>a. Versions /\ SessionTyped /\ PlaceTyped /\ Counted /\ Kept /\ Staged
    BY TypesApart DEF Sound
  <1>b. pc # "idle" => n \in Calls
    BY <1>a, ExchangeAssumption DEF Counted, SessionTyped, Calls
  <1>1. CASE Begin
    <2>1. n' = n + 1 /\ n' \in Calls /\ UNCHANGED <<with, calls, resolved>>
      BY <1>a, <1>1, ExchangeAssumption, SettingsAssumption DEF Begin, SessionTyped, Calls, session
    <2>2. RowOK(calls[n'], with.service)
      BY <1>a, <1>1, <2>1, Rows, SettingsAssumption DEF SessionTyped
    <2>3. calls[n'].plan \in {"plain", "probe"} \/ with.version \in {"auto", "2", "3"}
      BY <1>a, <1>1, <2>2, SettingsAssumption DEF SessionTyped, RowOK
    <2>4. CASE FirstVersion(calls[n']) = "none"
      BY <1>a, <1>1, <2>4 DEF Begin, Versions
    <2>5. CASE FirstVersion(calls[n']) # "none"
      <3>1. /\ ver' = FirstVersion(calls[n'])
            /\ finding' = (calls[n'].plan = "resolve" /\ Automatic /\ resolved = "none")
        BY <1>a, <1>1, <2>5 DEF Begin, Ask
      <3> QED
        BY <1>a, <1>1, <2>1, <2>2, <2>3, <2>5, <3>1 DEF Versions, FirstVersion, call, Automatic, RowOK
    <2> QED
      BY <2>4, <2>5
  <1>2. CASE Continues
    BY <1>a, <1>2 DEF Continues, Versions, session, call, Automatic
  <1>3. CASE Ends
    BY <1>a, <1>3 DEF Ends, Return, Versions
  <1>4. CASE Settles
    BY <1>a, <1>4 DEF Settles, Ask, Versions, session, call, Automatic, Kept, PlaceTyped
  <1>5. CASE FallBack
    <2>1. status = "unsupported" /\ Means(status)
      BY <1>a, <1>5 DEF FallBack, FallsBack, IsUnsupported, Sound, Truthful
    <2>2. "3" \notin with.serves
      BY <2>1 DEF Means, Status, ClientError
    <2> QED
      BY <1>a, <1>5, <2>2 DEF FallBack, FallsBack, Ask, Versions, session, call, Automatic
  <1>6. CASE Serve
    BY <1>a, <1>6 DEF Serve, Versions, session, request, call, Automatic
  <1>7. CASE \E i \in Calls : ServeLate(i)
    BY <1>a, <1>7 DEF ServeLate, Versions, session, request, call, Automatic
  <1>8. CASE RunOut
    BY <1>a, <1>8 DEF RunOut, Versions, session, request, call, Automatic
  <1>9. CASE UNCHANGED vars
    BY <1>a, <1>9 DEF vars, Versions, session, request, call, Automatic
  <1> QED
    BY <1>1, <1>2, <1>3, <1>4, <1>5, <1>6, <1>7, <1>8, <1>9, ClientSteps DEF Next, Shape

\* What the client keeps.
LEMMA KeptNext == Sound /\ TypeOK' /\ [Next]_vars => Kept'
  <1> SUFFICES ASSUME Sound, TypeOK', [Next]_vars PROVE Kept'
    OBVIOUS
  <1>a. Kept /\ SessionTyped /\ PlaceTyped /\ Counted /\ Staged /\ Versions
    BY TypesApart DEF Sound
  <1>b. pc # "idle" => n \in Calls
    BY <1>a, ExchangeAssumption DEF Counted, SessionTyped, Calls
  <1>1. CASE Begin
    <2>1. n' = n + 1 /\ n' \in Calls /\ UNCHANGED <<with, calls, resolved>>
      BY <1>a, <1>1, ExchangeAssumption, SettingsAssumption DEF Begin, SessionTyped, Calls, session
    <2>2. CASE FirstVersion(calls[n']) = "none"
      <3>1. outcome' = [outcome EXCEPT ![n'] = "invalid_configuration"]
        BY <1>a, <1>1, <2>2 DEF Begin
      <3>2. RowOK(calls[n'], with.service)
        BY <1>a, <1>1, <2>1, Rows, SettingsAssumption DEF SessionTyped
      <3>3. calls[n'].plan \in {"plain", "probe"} \/ with.version \in {"auto", "2", "3"}
        BY <1>a, <1>1, <3>2, SettingsAssumption DEF SessionTyped, RowOK
      <3>4. Automatic /\ resolved = "none"
        BY <1>a, <1>1, <2>2, <3>3 DEF FirstVersion, SessionTyped, Automatic
      <3>5. \A i \in Calls : calls[i].plan = "resolve" => outcome'[i] \notin {"ok", "write_ambiguous"}
        BY <1>a, <1>1, <2>1, <3>1, <3>4 DEF Kept, PlaceTyped
      <3> QED
        BY <1>a, <1>1, <2>1, <3>1, <3>5 DEF Kept, Automatic
    <2>3. CASE FirstVersion(calls[n']) # "none"
      BY <1>a, <1>1, <2>1, <2>3 DEF Begin, Kept, Automatic
    <2> QED
      BY <2>2, <2>3
  <1>2. CASE Continues
    BY <1>a, <1>2 DEF Continues, Kept, session, Automatic
  <1>3. CASE Ends
    <2>1. PICK c \in Category : Return(c) /\ Truly(c)
      BY <1>a, <1>3 DEF Ends
    <2>2. /\ n \in Calls /\ outcome' = [outcome EXCEPT ![n] = c]
          /\ UNCHANGED <<with, calls, n, resolved>>
      BY <1>a, <1>3, <1>b, <2>1 DEF Ends, Return, session
    <2>3. Automatic /\ call.plan = "resolve" /\ c \in {"ok", "write_ambiguous"} => resolved # "none"
      BY <1>a, <1>3, <2>1 DEF Truly, Versions, Ends
    <2>4. \A i \in Calls : i > n => outcome'[i] = "none"
      BY <1>a, <1>3, <2>2 DEF Counted, PlaceTyped, Calls, SessionTyped
    <2>5. ASSUME NEW i \in Calls, NEW j \in Calls, i < j, calls[i].plan = "resolve",
                 calls[j].plan = "known", outcome'[i] \in {"ok", "write_ambiguous"}
          PROVE  outcome'[j] # "invalid_configuration"
      <3>1. CASE i = n
        BY <1>a, <1>3, <2>4, <2>5, <3>1
      <3>2. CASE i # n
        BY <1>a, <1>3, <2>1, <2>2, <2>5, <3>2 DEF Kept, Truly, PlaceTyped
      <3> QED
        BY <3>1, <3>2
    <2> QED
      BY <1>a, <1>3, <2>2, <2>3, <2>5 DEF Kept, Automatic, call, PlaceTyped
  <1>4. CASE Settles
    BY <1>a, <1>4 DEF Settles, PlaceTyped, Kept, session, Versions
  <1>5. CASE FallBack
    BY <1>a, <1>5 DEF FallBack, Kept, session, Automatic
  <1>6. CASE Serve
    BY <1>a, <1>6 DEF Serve, Kept, session, Automatic
  <1>7. CASE \E i \in Calls : ServeLate(i)
    BY <1>a, <1>7 DEF ServeLate, Kept, session, Automatic
  <1>8. CASE RunOut
    BY <1>a, <1>8 DEF RunOut, Kept, session, Automatic
  <1>9. CASE UNCHANGED vars
    BY <1>a, <1>9 DEF vars, Kept, session, Automatic
  <1> QED
    BY <1>1, <1>2, <1>3, <1>4, <1>5, <1>6, <1>7, <1>8, <1>9, ClientSteps DEF Next, Shape

\* What a status means.
LEMMA TruthfulNext == Sound /\ TypeOK' /\ [Next]_vars => Truthful'
  <1> SUFFICES ASSUME Sound, TypeOK', [Next]_vars PROVE Truthful'
    OBVIOUS
  <1>a. Truthful /\ SessionTyped /\ PlaceTyped /\ RemoteTyped /\ Counted /\ Staged /\ Ledger
    BY TypesApart DEF Sound
  <1>b. pc # "idle" => n \in Calls
    BY <1>a, ExchangeAssumption DEF Counted, SessionTyped, Calls
  <1>1. CASE Begin
    BY <1>a, <1>1 DEF Begin, Ask, NoAnswer, Truthful, Means, Status, ClientError, Trouble
  <1>2. CASE Continues
    <2>1. Means(wire) /\ Means(status)
      BY <1>a, <1>2 DEF Continues, Truthful
    <2>2. CASE UNCHANGED remote
      BY <1>a, <1>2, <2>1, <2>2 DEF Continues, Truthful, Means, Reading, call, session, remote, Status, ClientError, Trouble
    <2>3. CASE wire = "sent" /\ Abandon /\ status' = "none"
      BY <1>a, <1>2, <2>3 DEF Continues, Abandon, Truthful, Means, Status, ClientError, Trouble
    <2> QED
      BY <1>a, <1>2, <2>2, <2>3 DEF Continues
  <1>3. CASE Ends
    BY <1>a, <1>3 DEF Ends, Return, Truthful
  <1>4. CASE Settles
    BY <1>a, <1>4 DEF Settles, Ask, NoAnswer, Truthful, Means, Status, ClientError, Trouble
  <1>5. CASE FallBack
    BY <1>a, <1>5 DEF FallBack, Ask, NoAnswer, Truthful, Means, Status, ClientError, Trouble
  <1>6. CASE Serve
    <2>1. n \in Calls /\ Nothing(n) /\ pc # "idle"
      BY <1>a, <1>6, <1>b DEF Serve, Staged, Ledger
    <2>2. PICK s \in Status : /\ s \in Regular \cup IF AtTheEdge THEN {} ELSE {"429"} \cup Trouble
                              /\ wire' = s /\ Acts(s)
      BY <1>a, <1>6 DEF Serve, Regular, Edge, Status, ClientError, Trouble
    <2>3. /\ s = "unsupported" => ver = "3" /\ "3" \notin with.serves
          /\ s = "404" => \/ ver = "2" /\ "2" \notin with.serves
                          \/ ~finding /\ call.read /\ ~with.exists
          /\ s \in {"2xx", "204"} /\ ver # "-" => ver \in with.serves
      <3>1. CASE s \in {"429"} \cup Trouble
        BY <3>1 DEF Trouble
      <3>2. CASE s \in Regular
        <4>1. CASE AtTheEdge
          BY <3>2, <4>1 DEF Regular, Edge
        <4>2. CASE ~AtTheEdge /\ ver # "-" /\ ver \notin with.serves
          BY <1>a, <1>6, <3>2, <4>2 DEF Regular, PlaceTyped
        <4>3. CASE ~AtTheEdge /\ ~(ver # "-" /\ ver \notin with.serves) /\ finding
          BY <3>2, <4>3 DEF Regular
        <4>4. CASE ~AtTheEdge /\ ~(ver # "-" /\ ver \notin with.serves) /\ ~finding
          BY <3>2, <4>4 DEF Regular
        <4> QED
          BY <4>1, <4>2, <4>3, <4>4
      <3> QED
        BY <2>2, <3>1, <3>2
    <2>4. ~Reading =>
             /\ effect'[n] \in {0, 1}
             /\ s \in ClientError \cup {"challenge"} => effect'[n] = 0
             /\ s \in {"2xx", "204"} => effect'[n] = 1
      BY <1>a, <1>6, <2>1, <2>2 DEF Acts, RemoteTyped, Nothing, ClientError
    <2>5. Means(s)'
      BY <1>a, <1>6, <2>1, <2>2, <2>3, <2>4 DEF Serve, Means, Nothing, Reading, call, session, request
    <2>6. Means(status)'
      BY <1>a, <1>6 DEF Serve, Staged, Means, answer, Status, ClientError, Trouble
    <2> QED
      BY <2>2, <2>5, <2>6 DEF Truthful, Means
  <1>7. CASE \E i \in Calls : ServeLate(i)
    <2>1. PICK i \in Calls : ServeLate(i)
      BY <1>a, <1>7
    <2>2. i = n /\ pc # "idle" /\ ~Reading => wire \notin Status /\ status \notin Status
      BY <1>a, <1>7, <2>1 DEF ServeLate, Truthful, Means
    <2>3. i # n /\ pc # "idle" => late'[n] = late[n] /\ effect'[n] = effect[n]
      BY <1>a, <1>7, <1>b, <2>1 DEF ServeLate, RemoteTyped
    <2> QED
      BY <1>a, <1>7, <2>1, <2>2, <2>3 DEF ServeLate, Truthful, Means, Reading, call, session, request, answer
  <1>8. CASE RunOut
    BY <1>a, <1>8 DEF RunOut, Truthful, Means, Reading, call, session, request, answer, remote
  <1>9. CASE UNCHANGED vars
    BY <1>a, <1>9 DEF vars, Truthful, Means, Reading, call, session, request, answer, remote
  <1> QED
    BY <1>1, <1>2, <1>3, <1>4, <1>5, <1>6, <1>7, <1>8, <1>9, ClientSteps DEF Next, Shape

\* What has happened, and what may still.
LEMMA LedgerNext == Sound /\ TypeOK' /\ [Next]_vars => Ledger'
  <1> SUFFICES ASSUME Sound, TypeOK', [Next]_vars PROVE Ledger'
    OBVIOUS
  <1>a. Ledger /\ SessionTyped /\ PlaceTyped /\ RemoteTyped /\ Counted /\ Staged /\ Truthful
    BY TypesApart DEF Sound
  <1>b. pc # "idle" => n \in Calls
    BY <1>a, ExchangeAssumption DEF Counted, SessionTyped, Calls
  <1>1. CASE Begin
    <2>1. n' = n + 1 /\ n' \in Calls /\ UNCHANGED <<with, calls, late, effect>>
      BY <1>a, <1>1, ExchangeAssumption, SettingsAssumption DEF Begin, SessionTyped, Calls, session, remote
    <2>2. Nothing(n')
      BY <1>a, <1>1, <2>1 DEF Counted, Nothing, SessionTyped, Calls
    <2>3. outcome' = outcome \/ (calls[n'].read /\ outcome' = [outcome EXCEPT ![n'] = "invalid_configuration"])
      <3>1. RowOK(calls[n'], with.service)
        BY <1>a, <1>1, <2>1, Rows, SettingsAssumption DEF SessionTyped
      <3>2. calls[n'].plan \in {"plain", "probe"} \/ with.version \in {"auto", "2", "3"}
        BY <1>a, <1>1, <3>1, SettingsAssumption DEF SessionTyped, RowOK
      <3>3. FirstVersion(calls[n']) = "none" => calls[n'].plan = "known"
        BY <1>a, <1>1, <3>1, <3>2 DEF FirstVersion, Automatic, RowOK, SessionTyped
      <3> QED
        BY <1>a, <1>1, <3>1, <3>3 DEF Begin, RowOK
    <2>4. \A i \in Calls : Balanced(i)'
      BY <1>a, <1>1, <2>1, <2>3 DEF Ledger, Balanced, Nothing, Told, PlaceTyped
    <2>5. pc' # "idle" => fault' = "none"
      BY <1>a, <1>1 DEF Begin, Ask, NoAnswer, Staged
    <2> QED
      BY <1>a, <1>1, <2>1, <2>2, <2>4, <2>5 DEF Ledger, Nothing
  <1>2. CASE Continues
    <2>1. n \in Calls /\ UNCHANGED <<with, calls, n, outcome, finding>>
      BY <1>a, <1>2, <1>b DEF Continues, session
    <2>2. ~Reading /\ status = "edge" => Nothing(n)
      BY <1>a, <1>2, <2>1 DEF Continues, Truthful, Means, Nothing, Status, ClientError
    <2>3. pc \in Early => Nothing(n)
      BY <1>a, <1>2 DEF Ledger, Early
    <2>4. Reading => Nothing(n)
      BY <1>a, <1>2 DEF Continues, Ledger
    <2>5. CASE UNCHANGED remote
      <3>1. \A i \in Calls : Balanced(i)'
        BY <1>a, <1>2, <2>1, <2>5 DEF Ledger, Balanced, Nothing, Told, remote
      <3>2. Nothing(n)' <=> Nothing(n)
        BY <2>1, <2>5 DEF Nothing, remote
      <3> QED
        BY <1>a, <1>2, <2>1, <2>2, <2>3, <2>4, <3>1, <3>2 DEF Continues, Ledger, Reading, call, Early
    <2>6. CASE wire = "sent" /\ Abandon /\ status' = "none"
      <3>1. Nothing(n) /\ wire' = "none" /\ UNCHANGED effect /\ pc = "flight" /\ outcome[n] = "none"
        BY <1>a, <1>2, <2>6 DEF Ledger, Abandon, Continues, Staged, Counted
      <3>2. late' = IF ~Reading THEN [late EXCEPT ![n] = late[n] + 1] ELSE late
        BY <2>6 DEF Abandon
      <3>3. ASSUME NEW i \in Calls PROVE Balanced(i)'
        BY <1>a, <1>2, <2>1, <3>1, <3>2 DEF Ledger, Balanced, Nothing, Told, Reading, call, RemoteTyped
      <3>4. pc' \in Early => Reading
        BY <1>a, <1>2, <3>1, <2>6 DEF Continues, Staged, Early
      <3>5. Reading => Nothing(n)'
        BY <3>1, <3>2, <2>1 DEF Nothing
      <3> QED
        BY <1>a, <1>2, <2>1, <3>1, <3>3, <3>4, <3>5 DEF Continues, Ledger, Reading, call, Early
    <2> QED
      BY <1>a, <1>2, <2>5, <2>6 DEF Continues
  <1>3. CASE Ends
    <2>1. PICK c \in Category : Return(c) /\ Truly(c)
      BY <1>a, <1>3 DEF Ends
    <2>2. /\ n \in Calls /\ outcome' = [outcome EXCEPT ![n] = c]
          /\ UNCHANGED <<calls, late, effect>> /\ pc' = "idle" /\ outcome[n] = "none"
      BY <1>a, <1>3, <1>b, <2>1 DEF Ends, Return, session, remote, Counted
    <2>3. ASSUME NEW i \in Calls PROVE Balanced(i)'
      <3>1. CASE i = n
        BY <1>a, <1>3, <2>1, <2>2, <3>1 DEF Ledger, Balanced, Nothing, Told, Truly, call, PlaceTyped
      <3>2. CASE i # n
        BY <1>a, <1>3, <2>2, <3>2 DEF Ledger, Balanced, Nothing, Told, PlaceTyped
      <3> QED
        BY <3>1, <3>2
    <2> QED
      BY <2>2, <2>3 DEF Ledger
  <1>4. CASE Settles
    <2>1. Nothing(n)
      BY <1>a, <1>4 DEF Settles, Ledger, Reading
    <2> QED
      BY <1>a, <1>4, <2>1 DEF Settles, Ask, NoAnswer, Ledger, Balanced, Nothing, Told, session, remote
  <1>5. CASE FallBack
    <2>1. Nothing(n)
      <3>1. finding \/ call.plan = "fallback"
        BY <1>a, <1>5 DEF FallBack, FallsBack
      <3>2. RowOK(call, with.service)
        BY <1>a, <1>5, <1>b, Rows, SettingsAssumption DEF FallBack, SessionTyped, call
      <3> QED
        BY <1>a, <1>5, <3>1, <3>2 DEF FallBack, Ledger, Reading, RowOK
    <2> QED
      BY <1>a, <1>5, <2>1 DEF FallBack, Ask, NoAnswer, Ledger, Balanced, Nothing, Told, session, remote
  <1>6. CASE Serve
    <2>1. n \in Calls /\ Nothing(n) /\ pc = "flight" /\ outcome[n] = "none"
      BY <1>a, <1>6, <1>b DEF Serve, Staged, Ledger, Counted
    <2>2. PICK s \in Status : wire' = s /\ Acts(s)
      BY <1>a, <1>6 DEF Serve, Regular, Edge, Status, ClientError, Trouble
    <2>3. /\ Reading => effect' = effect
          /\ effect'[n] \in {0, 1} /\ \A i \in Calls : i # n => effect'[i] = effect[i]
      <3>1. PICK k \in {0, 1} : effect' = [effect EXCEPT ![n] = effect[n] + k] /\ (Reading => k = 0)
        BY <2>2, SMTT(30) DEF Acts
      <3> QED
        BY <1>a, <2>1, <3>1 DEF Nothing, RemoteTyped
    <2>4. ASSUME NEW i \in Calls PROVE Balanced(i)'
      <3>1. CASE i = n
        BY <1>a, <1>6, <2>1, <2>3, <3>1 DEF Serve, Ledger, Balanced, Nothing, Told, Reading, call, session
      <3>2. CASE i # n
        BY <1>a, <1>6, <2>3, <3>2 DEF Serve, Ledger, Balanced, Nothing, Told, session
      <3> QED
        BY <3>1, <3>2
    <2>5. wire' # "sent"
      BY <2>2 DEF Status, ClientError, Trouble
    <2> QED
      BY <1>a, <1>6, <2>1, <2>3, <2>4, <2>5 DEF Serve, Ledger, Nothing, Reading, call, session, request, failure
  <1>7. CASE \E i \in Calls : ServeLate(i)
    <2>1. PICK i \in Calls : ServeLate(i)
      BY <1>a, <1>7
    <2>2. ~Nothing(i) /\ late'[i] + effect'[i] <= 1 /\ ~calls[i].read /\ Told(i) \notin {"ok", "failed"}
      BY <1>a, <1>7, <2>1 DEF ServeLate, Ledger, Balanced, Nothing, RemoteTyped
    <2>3. \A k \in Calls \ {i} : late'[k] = late[k] /\ effect'[k] = effect[k]
      BY <1>a, <1>7, <2>1 DEF ServeLate, RemoteTyped
    <2>4. UNCHANGED <<calls, n, outcome, pc, finding, wire, fault, uncertain>>
      BY <2>1 DEF ServeLate, session, request, failure
    <2>5. \A k \in Calls : Balanced(k)'
      <3>1. Told(i)' = Told(i) /\ calls'[i].read = calls[i].read
        BY <2>4 DEF Told
      <3>2. effect'[i] + late'[i] <= 1
        BY <1>a, <2>1, <2>2 DEF ServeLate, RemoteTyped
      <3>3. Balanced(i)'
        BY <2>2, <3>1, <3>2 DEF Balanced
      <3>4. ASSUME NEW k \in Calls \ {i} PROVE Balanced(k)'
        BY <1>a, <2>3, <2>4 DEF Ledger, Balanced, Nothing, Told
      <3> QED
        BY <3>3, <3>4
    <2>6. i # n => (Nothing(n)' <=> Nothing(n)) \/ n \notin Calls
      BY <2>3, <2>4 DEF Nothing
    <2> QED
      BY <1>a, <1>7, <1>b, <2>2, <2>4, <2>5, <2>6 DEF Ledger, Reading, call
  <1>8. CASE RunOut
    BY <1>a, <1>8 DEF RunOut, Ledger, Reading, call, session, request, failure, remote, Balanced, Nothing, Told
  <1>9. CASE UNCHANGED vars
    BY <1>a, <1>9 DEF vars, Ledger, Reading, call, session, request, failure, remote, Balanced, Nothing, Told
  <1> QED
    BY <1>1, <1>2, <1>3, <1>4, <1>5, <1>6, <1>7, <1>8, <1>9, ClientSteps DEF Next, Shape

-----------------------------------------------------------------------------
(* Bodies.                                                                 *)

\* What has been read of a body, and how.
LEMMA BodyNext == Sound /\ TypeOK' /\ [Next]_vars => Unpacking' /\ BodyIsRight'
  <1> SUFFICES ASSUME Sound, TypeOK', [Next]_vars PROVE Unpacking' /\ BodyIsRight'
    OBVIOUS
  <1>a. Unpacking /\ BodyIsRight /\ Staged /\ PlaceTyped /\ AnswerTyped
    BY TypesApart DEF Sound
  <1>b. "none" \notin Faults /\ NoBody.as = "plain"
    BY DEF Faults, NoBody
  <1>c. Cardinality({}) # 2
    BY FS_EmptySet
  <1>d. taken \in 0 .. MaxParts /\ (taken' \in 0 .. MaxParts)
    BY DEF Sound, TypeOK
  <1>e. (Stopped => stop # "none") /\ MaxParts \in Nat
    BY ExchangeAssumption DEF Stopped
  <1> USE DEF Unpacking, BodyIsRight, Packed
  <1>1. CASE Begin
    BY <1>a, <1>b, <1>c, <1>d, <1>e, <1>1 DEF Begin, Staged, Ask, NoAnswer, NoBody, session, request, answer, failure, remote
  <1>2. CASE Attempt
    BY <1>a, <1>b, <1>c, <1>d, <1>e, <1>2 DEF Attempt, Staged, Return, NoAnswer, session, request, answer, failure, remote
  <1>3. CASE Refuse
    BY <1>a, <1>b, <1>c, <1>d, <1>e, <1>3 DEF Refuse, Staged, Fault, session, request, answer, failure, remote
  <1>4. CASE Dispatch
    BY <1>a, <1>b, <1>c, <1>d, <1>e, <1>4 DEF Dispatch, Staged, Leaves, session, request, answer, failure, remote
  <1>5. CASE WriteFiles
    BY <1>a, <1>b, <1>c, <1>d, <1>e, <1>5 DEF WriteFiles, Staged, session, request, answer, failure, remote
  <1>6. CASE FilesFail
    BY <1>a, <1>b, <1>c, <1>d, <1>e, <1>6 DEF FilesFail, Staged, Fault, session, request, answer, failure, remote
  <1>7. CASE StartCurl
    BY <1>a, <1>b, <1>c, <1>d, <1>e, <1>7 DEF StartCurl, Staged, Leaves, session, request, answer, failure, remote
  <1>8. CASE TransportFails
    BY <1>a, <1>b, <1>c, <1>d, <1>e, <1>8 DEF TransportFails, Staged, Fault, session, request, answer, failure, remote
  <1>9. CASE Headers
    BY <1>a, <1>b, <1>c, <1>d, <1>e, <1>9 DEF Headers, Staged, session, request, answer, failure, remote
  <1>10. CASE BodyBreaks
    BY <1>a, <1>b, <1>c, <1>d, <1>e, <1>10 DEF BodyBreaks, Staged, Breaks, Fault, session, request, answer, failure, remote
  <1>11. CASE Part
    BY <1>a, <1>b, <1>c, <1>d, <1>e, <1>11 DEF Part, Staged, Breaks, Fault, Decides, StillOpen, session, request, answer, failure, remote
  <1>12. CASE EndOfBody
    BY <1>a, <1>b, <1>c, <1>d, <1>e, <1>12 DEF EndOfBody, Staged, Breaks, Fault, session, request, answer, failure, remote
  <1>13. CASE CurlStopped
    BY <1>a, <1>b, <1>c, <1>d, <1>e, <1>13 DEF CurlStopped, Staged, StatusOnly, WaitingFails, Fault, session, request, answer, failure, remote
  <1>14. CASE CurlFails
    BY <1>a, <1>b, <1>c, <1>d, <1>e, <1>14 DEF CurlFails, Staged, StatusOnly, Illegible, Fault, session, request, answer, failure, remote
  <1>15. CASE CurlAnswers
    BY <1>a, <1>b, <1>c, <1>d, <1>e, <1>15 DEF CurlAnswers, Staged, session, request, answer, failure, remote
  <1>16. CASE TryCurl
    BY <1>a, <1>b, <1>c, <1>d, <1>e, <1>16 DEF TryCurl, Staged, NoAnswer, session, request, answer, failure, remote
  <1>17. CASE JudgeFailure
    BY <1>a, <1>b, <1>c, <1>d, <1>e, <1>17 DEF JudgeFailure, Staged, Return, NoAnswer, TooLate, Again, session, request, answer, failure, remote
  <1>18. CASE JudgeAnswer
    BY <1>a, <1>b, <1>c, <1>d, <1>e, <1>18 DEF JudgeAnswer, Answered, Staged, Return, NoAnswer, TooLate, Again, Final, session, request, answer, failure, remote
  <1>19. CASE JudgeProbe
    BY <1>a, <1>b, <1>c, <1>d, <1>e, <1>19 DEF JudgeProbe, Staged, Return, NoAnswer, session, request, answer, failure, remote
  <1>20. CASE FallBack
    BY <1>a, <1>b, <1>c, <1>d, <1>e, <1>20 DEF FallBack, Staged, Ask, NoAnswer, session, request, answer, failure, remote
  <1>21. CASE Resolve
    BY <1>a, <1>b, <1>c, <1>d, <1>e, <1>21 DEF Resolve, Staged, Ask, Return, NoAnswer, session, request, answer, failure, remote
  <1>22. CASE Conclude
    BY <1>a, <1>b, <1>c, <1>d, <1>e, <1>22 DEF Conclude, Staged, Return, NoAnswer, session, request, answer, failure, remote
  <1>23. CASE Serve
    BY <1>a, <1>b, <1>c, <1>d, <1>e, <1>23 DEF Serve, Staged, Suits, AtTheEdge, session, request, answer, failure, remote
  <1>24. CASE RunOut
    BY <1>a, <1>b, <1>c, <1>d, <1>e, <1>24 DEF RunOut, Staged, session, request, answer, failure, remote
  <1>25. CASE \E i \in Calls : ServeLate(i)
    BY <1>a, <1>25 DEF ServeLate, session, request, answer, failure, remote
  <1>26. CASE UNCHANGED vars
    BY <1>a, <1>26 DEF vars, session, request, answer, failure, remote
  <1> QED
    BY <1>1, <1>2, <1>3, <1>4, <1>5, <1>6, <1>7, <1>8, <1>9, <1>10, <1>11, <1>12, <1>13, <1>14, <1>15, <1>16, <1>17, <1>18, <1>19, <1>20, <1>21, <1>22, <1>23, <1>24, <1>25, <1>26 DEF Next, Client

-----------------------------------------------------------------------------
(* The invariant holds.                                                    *)

LEMMA SoundInit == Init => Sound
  <1> SUFFICES ASSUME Init PROVE Sound
    OBVIOUS
  <1>1. SessionTyped /\ PlaceTyped /\ AnswerTyped /\ RemoteTyped
    <2>1. SessionTyped /\ RemoteTyped
      BY ExchangeAssumption DEF Init, SessionTyped, RemoteTyped
    <2>4. 0 \in 0 .. MaxRetries /\ 0 \in 0 .. MaxParts
      BY ExchangeAssumption
    <2>2. PlaceTyped
      BY <2>4 DEF Init, PlaceTyped
    <2>3. AnswerTyped
      BY <2>4 DEF Init, AnswerTyped
    <2> QED
      BY <2>1, <2>2, <2>3
  <1>2. Counted
    BY ExchangeAssumption, SettingsAssumption DEF Init, Counted, Calls
  <1>3. Staged /\ Versions /\ Kept /\ Truthful /\ Unpacking /\ BodyIsRight
    BY DEF Init, Staged, Versions, Kept, Truthful, Unpacking, BodyIsRight, Automatic
  <1>4. Ledger
    BY DEF Init, Ledger, Balanced, Nothing, Told
  <1> QED
    BY <1>1, <1>2, <1>3, <1>4, TypesApart DEF Sound

LEMMA SoundNext == Sound /\ [Next]_vars => Sound'
  BY TypedNext, CountedNext, StagedNext, VersionsNext, KeptNext, TruthfulNext,
     LedgerNext, BodyNext DEF Sound

LEMMA SoundAlways == Spec => []Sound
  BY SoundInit, SoundNext, PTL DEF Spec

-----------------------------------------------------------------------------
(* The theorems.                                                           *)

(***************************************************************************)
(* Every state a client, its service and the edge get into is a legal one. *)
(***************************************************************************)
THEOREM TypeCorrect == Spec => []TypeOK
  <1>1. Sound => TypeOK
    BY DEF Sound
  <1> QED
    BY <1>1, SoundAlways, PTL

(***************************************************************************)
(* A Jira client keeps only a version that answered, which _resolved_api   *)
(* never changes again; a write that needed one leaves it to the reads.    *)
(***************************************************************************)
THEOREM VersionHoldsAlways == Spec => []VersionHolds
  <1>1. Sound => VersionHolds
    BY DEF Sound, Kept, VersionHolds
  <1> QED
    BY <1>1, SoundAlways, PTL

(***************************************************************************)
(* The client hands on only whole bodies within the limit, and never takes *)
(* a raw deflated one for zlib, or the other way round.                    *)
(***************************************************************************)
THEOREM BodyIsRightAlways == Spec => []BodyIsRight
  <1>1. Sound => BodyIsRight
    BY DEF Sound
  <1> QED
    BY <1>1, SoundAlways, PTL

\* The one step that may tell of a call is that of its own client.
LEMMA StepTells ==
    ASSUME Sound, Next, NEW i \in Calls, outcome'[i] # outcome[i]
    PROVE  \/ Begin /\ outcome'[i] = "invalid_configuration" /\ calls[i].read
           \/ Ends /\ i = n
  <1>a. SessionTyped /\ PlaceTyped
    BY TypesApart DEF Sound
  <1>1. CASE Begin
    <2>1. n' = n + 1 /\ n' \in Calls
      BY <1>a, <1>1, ExchangeAssumption, SettingsAssumption DEF Begin, SessionTyped, Calls, session
    <2>2. RowOK(calls[n'], with.service)
      BY <1>a, <2>1, Rows, SettingsAssumption DEF SessionTyped
    <2>3. calls[n'].plan \in {"plain", "probe"} \/ with.version \in {"auto", "2", "3"}
      BY <1>a, <2>2, SettingsAssumption DEF SessionTyped, RowOK
    <2>4. FirstVersion(calls[n']) = "none" => calls[n'].plan = "known"
      BY <1>a, <2>2, <2>3 DEF FirstVersion, Automatic, RowOK, SessionTyped
    <2>5. outcome' = [outcome EXCEPT ![n'] = "invalid_configuration"] /\ calls[n'].read
      BY <1>1, <2>2, <2>4 DEF Begin, RowOK
    <2> QED
      BY <1>a, <1>1, <2>1, <2>5 DEF PlaceTyped
  <1>2. CASE Ends
    BY <1>a, <1>2 DEF Ends, Return, PlaceTyped
  <1>3. CASE Continues \/ Settles \/ FallBack \/ Serve \/ RunOut \/ \E k \in Calls : ServeLate(k)
    BY <1>3 DEF Continues, Settles, FallBack, Serve, RunOut, ServeLate
  <1> QED
    BY <1>1, <1>2, <1>3, ClientSteps DEF Next, Shape

-----------------------------------------------------------------------------
(* Writes: a call takes effect, its caller is told, or nothing changes.    *)

Verdicts == [i \in Calls |-> Told(i)]

LEMMA Effects ==
    ASSUME Sound, NEW i \in Calls, NEW k \in {0, 1}, effect[i] = 0,
           Told(i) \in {"open", "ambiguous"},
           effect' = [effect EXCEPT ![i] = effect[i] + k], UNCHANGED <<calls, outcome>>
    PROVE  Write!Next \/ UNCHANGED <<effect, Verdicts>>
  <1>1. UNCHANGED Verdicts
    BY DEF Verdicts, Told
  <1>2. CASE k = 0
    BY <1>1, <1>2 DEF Sound, TypeOK
  <1>3. CASE k = 1
    <2>1. effect' = [effect EXCEPT ![i] = 1]
      BY <1>3
    <2>2. Write!TakeEffect(i)
      BY <1>1, <2>1 DEF Write!TakeEffect, Verdicts
    <2> QED
      BY <2>2 DEF Write!Next
  <1> QED
    BY <1>2, <1>3

LEMMA Tells ==
    ASSUME Sound, Sound', NEW i \in Calls, NEW c \in Category, outcome[i] = "none",
           outcome' = [outcome EXCEPT ![i] = c], UNCHANGED <<calls, effect>>
    PROVE  Write!Next \/ UNCHANGED <<effect, Verdicts>>
  <1>1. \A j \in Calls : j # i => Told(j)' = Told(j)
    BY DEF Told, Sound, TypeOK
  <1>2. CASE calls[i].read
    <2>1. Told(i)' = Told(i)
      BY <1>2 DEF Told
    <2> QED
      BY <1>1, <2>1 DEF Verdicts
  <1>3. CASE ~calls[i].read
    <2>1. outcome'[i] = c /\ c # "none"
      BY DEF Sound, TypeOK, Category
    <2>2. Told(i) = "open" /\ Told(i)' \in {"ok", "ambiguous", "failed"}
      BY <1>3, <2>1 DEF Told
    <2>3. Verdicts' = [Verdicts EXCEPT ![i] = Told(i)']
      BY <1>1 DEF Verdicts
    <2>4. Balanced(i)'
      BY DEF Sound, Ledger
    <2>5. (Told(i)' = "ok" => effect[i] = 1) /\ (Told(i)' = "failed" => effect[i] = 0)
      BY <2>4 DEF Balanced, Nothing
    <2>6. Write!Tell(i, Told(i)')
      BY <2>2, <2>3 DEF Write!Tell, Verdicts
    <2> QED
      BY <2>2, <2>5, <2>6 DEF Write!Next
  <1> QED
    BY <1>2, <1>3

LEMMA WritesStep == Sound /\ Sound' /\ [Next]_vars => Write!Next \/ UNCHANGED <<effect, Verdicts>>
  <1> SUFFICES ASSUME Sound, Sound', [Next]_vars
               PROVE  Write!Next \/ UNCHANGED <<effect, Verdicts>>
    OBVIOUS
  <1>a. SessionTyped /\ PlaceTyped /\ RemoteTyped /\ Counted /\ Staged /\ Ledger
    BY TypesApart DEF Sound
  <1>b. pc # "idle" => n \in Calls
    BY <1>a, ExchangeAssumption DEF Counted, SessionTyped, Calls
  <1>1. CASE Begin /\ outcome' = outcome
    BY <1>1 DEF Begin, remote, Verdicts, Told
  <1>2. CASE Begin /\ outcome' # outcome
    <2>1. n' = n + 1 /\ n' \in Calls /\ UNCHANGED <<calls, effect>>
      BY <1>a, <1>2, ExchangeAssumption, SettingsAssumption DEF Begin, SessionTyped, Calls, remote
    <2>2. outcome' = [outcome EXCEPT ![n'] = "invalid_configuration"]
      BY <1>2 DEF Begin
    <2>3. outcome[n'] = "none"
      BY <1>a, <2>1 DEF Counted, SessionTyped
    <2> QED
      BY <2>1, <2>2, <2>3, Tells DEF Category
  <1>3. CASE Ends
    <2>1. PICK c \in Category : Return(c)
      BY <1>3 DEF Ends
    <2> QED
      BY <1>a, <1>b, <1>3, <2>1, Tells DEF Ends, Return, Counted, session, remote
  <1>4. CASE Continues \/ Settles \/ FallBack \/ RunOut \/ UNCHANGED vars
    BY <1>4 DEF Continues, Settles, FallBack, RunOut, vars, session, remote, Abandon, Verdicts, Told
  <1>5. CASE Serve
    <2>1. n \in Calls /\ Nothing(n) /\ outcome[n] = "none"
      BY <1>a, <1>b, <1>5 DEF Serve, Staged, Ledger, Counted
    <2>2. PICK s \in Regular \cup IF AtTheEdge THEN {} ELSE {"429"} \cup Trouble : Acts(s)
      BY <1>5 DEF Serve
    <2>3. PICK k \in {0, 1} : effect' = [effect EXCEPT ![n] = effect[n] + k]
      BY <2>2 DEF Acts
    <2> QED
      BY <1>5, <2>1, <2>3, Effects DEF Serve, Nothing, Told, session
  <1>6. CASE \E i \in Calls : ServeLate(i)
    <2>1. PICK i \in Calls : ServeLate(i)
      BY <1>6
    <2>2. PICK k \in {0, 1} : effect' = [effect EXCEPT ![i] = effect[i] + k]
      BY <2>1 DEF ServeLate
    <2>5. Balanced(i) /\ late[i] > 0 /\ late[i] \in Nat /\ effect[i] \in Nat
      BY <1>a, <2>1 DEF ServeLate, Ledger, RemoteTyped
    <2>3. effect[i] = 0 /\ Told(i) \notin {"ok", "failed"}
      BY <2>5 DEF Balanced, Nothing
    <2>4. Told(i) \in {"open", "ambiguous"}
      BY <2>3 DEF Told
    <2> QED
      BY <2>1, <2>2, <2>3, <2>4, Effects DEF ServeLate, session
  <1> QED
    BY <1>1, <1>2, <1>3, <1>4, <1>5, <1>6, ClientSteps DEF Next, Shape

(***************************************************************************)
(* A write that goes through rest_json, a curl process or a retry happens  *)
(* at most once, and its caller is never told otherwise.                   *)
(***************************************************************************)
THEOREM WritesAreHonest == Spec => ImplementsWrite
  <1>1. Init => Write!Init
    BY DEF Init, Write!Init, Told
  <1>2. Sound /\ Sound' /\ [Next]_vars =>
            [Write!Next]_<<effect, [i \in Calls |-> Told(i)]>>
    BY WritesStep DEF Verdicts
  <1> QED
    BY <1>1, <1>2, SoundAlways, PTL DEF Spec, ImplementsWrite, Write!Spec

(***************************************************************************)
(* "not_found" is never said for a version that is not served.             *)
(***************************************************************************)
THEOREM NotFoundIsTrueAlways == Spec => NotFoundIsTrue
  <1>1. ASSUME Sound, [Next]_vars
        PROVE  [\A i \in Calls :
                  outcome[i] = "none" /\ outcome'[i] = "not_found" /\ Fits /\ held # "lost"
                     => call.read /\ ~with.exists]_vars
    <2> SUFFICES ASSUME NEW i \in Calls, Next, outcome[i] = "none",
                        outcome'[i] = "not_found", Fits, held # "lost"
                 PROVE  call.read /\ ~with.exists
      BY <1>1
    <2>1. Ends /\ i = n
      BY <1>1, StepTells
    <2>2. PICK c \in Category : Return(c) /\ Truly(c)
      BY <2>1 DEF Ends
    <2>3. c = "not_found"
      BY <1>1, <2>1, <2>2 DEF Return, Sound, TypeOK
    <2>4. /\ pc = "decode" /\ status \in {"404", "unsupported"} /\ ~FallsBack
          /\ Means(status)
      BY <1>1, <2>2, <2>3 DEF Truly, Sound, Truthful
    <2>5. SessionTyped /\ Versions
      BY <1>1, TypesApart DEF Sound
    <2>6. RowOK(call, with.service)
      BY <2>1, <2>5, Rows, SettingsAssumption DEF SessionTyped, call
    <2>7. with.service = "jira" => with.serves # {} /\ with.serves \subseteq {"2", "3"}
      BY <2>5, SettingsAssumption DEF SessionTyped
    <2>8. status # "unsupported"
      BY <2>4, <2>5, <2>6, <2>7, <1>1 DEF FallsBack, IsUnsupported, Means, Versions, RowOK, Fits, Sound, Kept, Status, ClientError
    <2>9. ~(ver = "2" /\ "2" \notin with.serves)
      BY <2>4, <2>5, <2>6, <2>7, <1>1 DEF Versions, RowOK, Fits, Sound, Kept
    <2> QED
      BY <2>4, <2>8, <2>9 DEF Means, Status, ClientError
  <1> QED
    BY <1>1, SoundAlways, PTL DEF Spec, NotFoundIsTrue
=============================================================================
