--------------------------- MODULE BoundedClient ---------------------------
(***************************************************************************)
(* The retry, deadline and breaker policy of shared/ericsson_common that   *)
(* the Jira, GitLab, Confluence and Artifactory connectors share.          *)
(*                                                                         *)
(* One BoundedClient serves one operation, which issues its requests one   *)
(* after the other.  A request is a loop of attempts: check cancellation   *)
(* and deadline, hand the request to the transport, and judge what came    *)
(* back.  The service is external: it may act on a request whose caller    *)
(* has stopped waiting, and its answer may be lost.                        *)
(*                                                                         *)
(* Time is counted in half seconds down to the deadline.  Any amount may   *)
(* pass at any moment.                                                     *)
(***************************************************************************)
EXTENDS Naturals

CONSTANTS
    Request,        \* the requests the operation issues
    Path,           \* the breaker's keys: paths without their query
    MaxRetries,     \* max_retries
    Threshold,      \* breaker_threshold
    Budget,         \* total_timeout_seconds
    RetryAfter,     \* the Retry-After values the service may send
    Nobody          \* no request is being served

ASSUME ClientAssumption ==
    /\ MaxRetries \in Nat /\ Threshold \in Nat \ {0} /\ Budget \in Nat \ {0}
    /\ RetryAfter \subseteq Nat
    /\ Nobody \notin Request

MaxHonoured == 10
MaxBackoff == 4

VARIABLES
    read,       \* the requests whose method is GET
    path,       \* the path of each request
    current,    \* the request being served, or Nobody
    pc,         \* "idle", "attempt", "flight" or "judge"
    attempt,    \* retries of the current request so far
    left,       \* time to the deadline
    cancelled,  \* cancel_check() answers true
    got,        \* what the transport has come back with
    outcome,    \* how each request ended
    failures,   \* the breaker's counters
    wire,       \* the current attempt as the service sees it
    late,       \* copies the service has yet to see, though nobody waits for them
    applied,    \* how often each write has taken effect
    sends       \* history: how often each request has been sent

call == <<read, path>>
remote == <<late, applied>>
vars == <<call, current, pc, attempt, left, cancelled, got, outcome, failures,
          wire, remote, sends>>

\* Classes of status; 502, 503 and 504 are "503", every other 5xx is "500".
Retryable == {"429", "503"}
ClientError == {"4xx", "429"}
ServerError == {"500", "503"}
Status == {"2xx", "3xx"} \cup ClientError \cup ServerError

\* A connector error with outcome_uncertain, and any other exception.
Uncertain == {"capacity", "deadline", "cancelled"}
Failure == Uncertain \cup {"exception"}

Outcome == {"none", "ok", "write_ambiguous", "circuit_open", "transient",
            "invalid_input", "deadline", "cancelled", "capacity"}
           \cup (Status \ {"2xx"})

TypeOK ==
    /\ read \subseteq Request
    /\ path \in [Request -> Path]
    /\ current \in Request \cup {Nobody}
    /\ pc \in {"idle", "attempt", "flight", "judge"}
    /\ pc = "idle" <=> current = Nobody
    /\ attempt \in Nat /\ left \in Nat
    /\ cancelled \in BOOLEAN
    /\ got \in Status \cup Failure \cup {"nothing"}
    /\ outcome \in [Request -> Outcome]
    /\ failures \in [Path -> Nat]
    /\ wire \in Status \cup {"none", "sent"}
    /\ pc # "flight" => wire = "none"
    /\ late \in [Request -> Nat] /\ applied \in [Request -> Nat]
    /\ sends \in [Request -> Nat]

Init ==
    /\ read \in SUBSET Request
    /\ path \in [Request -> Path]
    /\ current = Nobody /\ pc = "idle" /\ attempt = 0
    /\ left = Budget
    /\ cancelled = FALSE
    /\ got = "nothing"
    /\ outcome = [r \in Request |-> "none"]
    /\ failures = [p \in Path |-> 0]
    /\ wire = "none"
    /\ late = [r \in Request |-> 0]
    /\ applied = [r \in Request |-> 0]
    /\ sends = [r \in Request |-> 0]

-----------------------------------------------------------------------------
Smaller(a, b) == IF a <= b THEN a ELSE b

Here == path[current]

RecordFailure == failures' = [failures EXCEPT ![Here] = @ + 1]

ClearFailures == failures' = [failures EXCEPT ![Here] = 0]

\* Off by one.
OpenTooLate(p) == failures[p] > Threshold

Open(p) == failures[p] >= Threshold

Return(o) ==
    /\ outcome' = [outcome EXCEPT ![current] = o]
    /\ current' = Nobody /\ pc' = "idle" /\ attempt' = 0
    /\ got' = "nothing" /\ wire' = "none"

\* A request of the operation, under its shared deadline or a new one.
Call(r) ==
    /\ pc = "idle" /\ outcome[r] = "none"
    /\ IF Open(path[r])
       THEN outcome' = [outcome EXCEPT ![r] = "circuit_open"]
            /\ UNCHANGED <<current, pc, left>>
       ELSE /\ current' = r /\ pc' = "attempt"
            /\ left' \in {left, Budget}
            /\ UNCHANGED outcome
    /\ UNCHANGED <<call, attempt, cancelled, got, failures, wire, remote, sends>>

\* Why _remaining raises, now.
Exhausted(o) ==
    \/ o = "cancelled" /\ cancelled
    \/ o = "deadline" /\ ~cancelled /\ left = 0

InTime == ~cancelled /\ left > 0

\* Before anything is sent: _remaining, or the transport's own first checks.
Refuse ==
    /\ pc = "attempt"
    /\ \E o \in {"invalid_input", "cancelled", "deadline"} :
          /\ o = "invalid_input" \/ Exhausted(o)
          /\ Return(o)
    /\ UNCHANGED <<call, left, cancelled, failures, remote, sends>>

\* Bound: the history counts to one more than there may ever be.
Send ==
    /\ pc = "attempt" /\ InTime
    /\ pc' = "flight"
    /\ wire' = "sent"
    /\ sends' = [sends EXCEPT ![current] = Smaller(@ + 1, MaxRetries + 2)]
    /\ UNCHANGED <<call, current, attempt, left, cancelled, got, outcome, failures,
                   remote>>

\* The copy the service has not seen yet outlives the attempt.
Abandon ==
    /\ late' = IF wire = "sent" THEN [late EXCEPT ![current] = @ + 1] ELSE late
    /\ wire' = "none"

\* An exception of the HTTP library: no connection, a timeout, a broken stream.
TransportFails ==
    /\ pc = "flight"
    /\ pc' = "judge" /\ got' = "exception"
    /\ Abandon
    /\ UNCHANGED <<call, current, attempt, left, cancelled, outcome, failures,
                   applied, sends>>

\* Reading the answer stops at the deadline, a cancellation or the size
\* limit, except that a client error is told by its status alone.
Receive ==
    /\ pc = "flight" /\ wire \in Status
    /\ pc' = "judge"
    /\ \/ got' = wire
       \/ /\ wire \notin ClientError
          /\ \E o \in Uncertain : (o = "capacity" \/ Exhausted(o)) /\ got' = o
    /\ wire' = "none"
    /\ UNCHANGED <<call, current, attempt, left, cancelled, outcome, failures,
                   remote, sends>>

-----------------------------------------------------------------------------
(* Judging what came back.                                                 *)

Judging(values) ==
    /\ pc = "judge" /\ got \in values
    /\ UNCHANGED <<call, cancelled, remote, sends>>

Reading == current \in read

\* A write that may have been acted upon: the transport cannot tell, time is
\* up although an answer came, or the answer is a redirect or a server error.
AmbiguousWrite ==
    /\ ~Reading
    /\ \/ Judging(Failure \cup {"3xx"} \cup ServerError)
       \/ Judging({"2xx"}) /\ ~InTime
    /\ RecordFailure
    /\ Return("write_ambiguous")
    /\ UNCHANGED left

StopRead ==
    /\ Reading
    /\ Judging(Uncertain)
    /\ Return(got)
    /\ UNCHANGED <<left, failures>>

\* A read is out of time when its answer is looked at, or before a retry.
LateRead ==
    /\ Reading
    /\ \/ Judging({"exception"} \cup (Status \ ClientError))
       \/ Judging({"429"}) /\ attempt < MaxRetries
    /\ \E o \in {"cancelled", "deadline"} : Exhausted(o) /\ Return(o)
    /\ UNCHANGED <<left, failures>>

\* 0.5 * 2 ** attempt seconds, at most two.
Backoff == IF attempt < 2 THEN attempt + 1 ELSE MaxBackoff

\* retry_delay: what the service asks for when that is sane.
Delays ==
    {Backoff} \cup (IF got \in Retryable
                    THEN {d \in RetryAfter : d <= MaxHonoured} ELSE {})

\* Slips: the retry is not counted, is of any method, or is one too many.
RetryUncounted ==
    /\ Reading /\ InTime
    /\ Judging(Retryable \cup {"exception"})
    /\ attempt < MaxRetries
    /\ \E d \in Delays : d < left /\ left' = left - d
    /\ pc' = "attempt" /\ got' = "nothing"
    /\ UNCHANGED <<current, attempt, outcome, failures, wire>>

\* Only a read is sent again, and never after a delay that ends too late.
Retry ==
    /\ Reading /\ InTime
    /\ Judging(Retryable \cup {"exception"})
    /\ attempt < MaxRetries
    /\ \E d \in Delays : d < left /\ left' = left - d
    /\ pc' = "attempt" /\ got' = "nothing"
    /\ attempt' = attempt + 1
    /\ UNCHANGED <<current, outcome, failures, wire>>

RetryTooLate ==
    /\ Reading /\ InTime
    /\ Judging(Retryable \cup {"exception"})
    /\ attempt < MaxRetries
    /\ \E d \in Delays : d >= left
    /\ Return("deadline")
    /\ UNCHANGED <<left, failures>>

RetriesExhausted ==
    /\ Reading /\ InTime
    /\ Judging({"exception"})
    /\ attempt >= MaxRetries
    /\ RecordFailure
    /\ Return("transient")
    /\ UNCHANGED left

\* A slip: every status a write is answered with is taken at its word.
ConcludeWhatever ==
    /\ \/ Judging(ClientError)
       \/ Judging(Status \ ClientError) /\ InTime
    /\ Reading => got \notin Retryable \/ attempt >= MaxRetries
    /\ IF got \in ServerError \cup Retryable THEN RecordFailure ELSE ClearFailures
    /\ Return(IF got = "2xx" THEN "ok" ELSE got)
    /\ UNCHANGED left

\* The answer is final: the breaker counts it or is reset, the caller sees it.
Conclude ==
    /\ \/ Judging(ClientError)
       \/ Judging(Status \ ClientError) /\ InTime
    /\ Reading => got \notin Retryable \/ attempt >= MaxRetries
    /\ ~Reading => got \notin {"3xx"} \cup ServerError
    /\ IF got \in ServerError \cup Retryable THEN RecordFailure ELSE ClearFailures
    /\ Return(IF got = "2xx" THEN "ok" ELSE got)
    /\ UNCHANGED left

-----------------------------------------------------------------------------
(* The service and the clock.                                              *)

\* A write that is answered with success has taken effect, one refused with a
\* client error has not; otherwise it may have.
Acts(r, s) ==
    applied' \in {[applied EXCEPT ![r] = @ + n] :
                    n \in IF r \in read \/ s \in ClientError THEN {0}
                          ELSE IF s = "2xx" THEN {1} ELSE {0, 1}}

Serve ==
    /\ wire = "sent"
    /\ \E s \in Status : wire' = s /\ Acts(current, s)
    /\ UNCHANGED <<call, current, pc, attempt, left, cancelled, got, outcome,
                   failures, late, sends>>

ServeLate(r) ==
    /\ late[r] > 0
    /\ late' = [late EXCEPT ![r] = @ - 1]
    /\ \E s \in Status : Acts(r, s)
    /\ UNCHANGED <<call, current, pc, attempt, left, cancelled, got, outcome,
                   failures, wire, sends>>

Tick ==
    /\ pc # "idle" /\ left > 0
    /\ left' \in 0 .. (left - 1)
    /\ UNCHANGED <<call, current, pc, attempt, cancelled, got, outcome, failures,
                   wire, remote, sends>>

CancelOperation ==
    /\ ~cancelled
    /\ cancelled' = TRUE
    /\ UNCHANGED <<call, current, pc, attempt, left, got, outcome, failures,
                   wire, remote, sends>>

Client ==
    \/ Refuse \/ Send \/ TransportFails \/ Receive
    \/ AmbiguousWrite \/ StopRead \/ LateRead
    \/ Retry \/ RetryTooLate \/ RetriesExhausted \/ Conclude

Next ==
    \/ \E r \in Request : Call(r) \/ ServeLate(r)
    \/ Client \/ Serve \/ Tick \/ CancelOperation

Spec == Init /\ [][Next]_vars

\* The process runs on: no attempt waits for ever, since every read of the
\* socket has a timeout.
FairSpec == Spec /\ WF_vars(Client)

-----------------------------------------------------------------------------
Verdict(r) ==
    IF r \in read \/ outcome[r] = "none" THEN "open"
    ELSE CASE outcome[r] = "ok" -> "ok"
           [] outcome[r] = "write_ambiguous" -> "ambiguous"
           [] OTHER -> "failed"

(***************************************************************************)
(* Whatever is lost, late, retried or cancelled, a write takes effect at   *)
(* most once and its caller is told the truth: a failure other than        *)
(* write_ambiguous means that it has not happened and never will.          *)
(***************************************************************************)
Write == INSTANCE RemoteWrite WITH
             effect <- applied,
             verdict <- [r \in Request |-> Verdict(r)]

ImplementsWrite == Write!Spec

\* A request is sent once, and a read again at most max_retries times.
SendsBounded ==
    \A r \in Request : sends[r] <= (IF r \in read THEN 1 + MaxRetries ELSE 1)

\* Once a path has failed as often as the breaker tolerates, nothing more is
\* sent to it in this operation, whatever request it is for.
OpenIsSilent ==
    [][\A r \in Request : failures[path[r]] >= Threshold => sends'[r] = sends[r]]_vars

(***************************************************************************)
(* What makes these inductive: the sends of the current request are its    *)
(* attempts, and the ledger of each write (copies still to be seen and     *)
(* effects) agrees with what the client has seen of it.                    *)
(***************************************************************************)
SendsAreAttempts ==
    /\ attempt <= MaxRetries
    /\ pc = "idle" => attempt = 0
    /\ current \in Request =>
          sends[current] = (IF pc = "attempt" THEN attempt ELSE attempt + 1)
    /\ current \in Request \ read => attempt = 0
    /\ \A r \in Request : r # current /\ outcome[r] = "none" => sends[r] = 0

Ledger(r, n, m) == late[r] = n /\ applied[r] = m

WritesAreKnown ==
    /\ wire # "none" <=> pc = "flight"
    /\ got # "nothing" <=> pc = "judge"
    /\ current \in Request => outcome[current] = "none"
    /\ \A r \in read : applied[r] = 0
    /\ \A r \in Request \ read :
          /\ late[r] + applied[r] <= 1
          /\ r # current =>
                /\ outcome[r] = "ok" => Ledger(r, 0, 1)
                /\ outcome[r] \notin {"ok", "write_ambiguous"} => Ledger(r, 0, 0)
          /\ r = current =>
                /\ pc # "judge" => late[r] = 0
                /\ pc = "attempt" \/ wire \in {"sent"} \cup ClientError \/ got \in ClientError
                      => Ledger(r, 0, 0)
                /\ wire = "2xx" \/ got = "2xx" => Ledger(r, 0, 1)

\* Every request ends: the retry loop runs out of attempts or of time.
RequestReturns == (pc # "idle") ~> (pc = "idle")
=============================================================================
