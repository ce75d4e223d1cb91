------------------------ MODULE BoundedClient_proofs ------------------------
(***************************************************************************)
(* Proofs about BoundedClient: a write takes effect at most once and its   *)
(* caller is told the truth, no request is sent more often than it may be, *)
(* and an open breaker lets nothing through, for any number of requests,   *)
(* paths and retries, any threshold, budget and Retry-After values.        *)
(***************************************************************************)
EXTENDS BoundedClient, TLAPS

LEMMA DelayType ==
    ASSUME TypeOK
    PROVE  Delays \subseteq Nat
<1>1. Backoff \in Nat
  BY DEF TypeOK, Backoff, MaxBackoff
<1>2. QED
  BY <1>1, ClientAssumption DEF Delays

LEMMA ReturnType ==
    ASSUME TypeOK, current # Nobody, NEW o \in Outcome, Return(o)
    PROVE  /\ current' \in Request \cup {Nobody}
           /\ pc' = "idle" /\ current' = Nobody
           /\ attempt' \in Nat
           /\ got' \in Status \cup Failure \cup {"nothing"}
           /\ wire' = "none"
           /\ outcome' \in [Request -> Outcome]
  BY DEF TypeOK, Return

LEMMA CountType ==
    ASSUME TypeOK, current # Nobody
    PROVE  /\ RecordFailure => failures' \in [Path -> Nat]
           /\ ClearFailures => failures' \in [Path -> Nat]
  BY DEF TypeOK, RecordFailure, ClearFailures, Here

LEMMA ActsType ==
    ASSUME TypeOK, NEW r \in Request, NEW s \in Status, Acts(r, s)
    PROVE  applied' \in [Request -> Nat]
  BY DEF TypeOK, Acts

LEMMA TypeStep == TypeOK /\ [Next]_vars => TypeOK'
<1> SUFFICES ASSUME TypeOK, [Next]_vars
             PROVE  TypeOK'
  OBVIOUS
<1> USE ClientAssumption
<1>1. CASE UNCHANGED vars
  BY <1>1 DEF TypeOK, vars, call, remote
<1>2. ASSUME NEW r \in Request, Call(r)
      PROVE  TypeOK'
  BY <1>2 DEF TypeOK, Call, call, remote, Outcome
<1>3. ASSUME NEW r \in Request, ServeLate(r)
      PROVE  TypeOK'
  <2>1. applied' \in [Request -> Nat]
    BY <1>3, ActsType DEF ServeLate
  <2>2. late' \in [Request -> Nat]
    BY <1>3 DEF ServeLate, TypeOK
  <2>3. QED
    BY <1>3, <2>1, <2>2 DEF TypeOK, ServeLate, call
<1>4. CASE Refuse
  <2>1. PICK o \in {"invalid_input", "cancelled", "deadline"} : Return(o)
    BY <1>4 DEF Refuse
  <2>2. o \in Outcome /\ current # Nobody
    BY <1>4 DEF Outcome, Refuse, TypeOK
  <2>3. QED
    BY <1>4, <2>1, <2>2, ReturnType DEF TypeOK, Refuse, call, remote
<1>5. CASE Send
  BY <1>5 DEF TypeOK, Send, call, remote, Smaller
<1>6. CASE TransportFails
  BY <1>6 DEF TypeOK, TransportFails, Abandon, call, Failure
<1>7. CASE Receive
  BY <1>7 DEF TypeOK, Receive, call, remote, Failure, Uncertain
<1>8. CASE AmbiguousWrite
  <2>1. "write_ambiguous" \in Outcome /\ current # Nobody
    BY <1>8 DEF Outcome, AmbiguousWrite, Judging, TypeOK
  <2>2. QED
    BY <1>8, <2>1, ReturnType, CountType DEF TypeOK, AmbiguousWrite, Judging, call, remote
<1>9. CASE StopRead
  <2>1. got \in Outcome /\ current # Nobody
    BY <1>9 DEF Outcome, StopRead, Judging, TypeOK, Uncertain
  <2>2. QED
    BY <1>9, <2>1, ReturnType DEF TypeOK, StopRead, Judging, call, remote
<1>10. CASE LateRead
  <2>1. PICK o \in {"cancelled", "deadline"} : Return(o)
    BY <1>10 DEF LateRead
  <2>2. o \in Outcome /\ current # Nobody
    BY <1>10 DEF Outcome, LateRead, Judging, TypeOK
  <2>3. QED
    BY <1>10, <2>1, <2>2, ReturnType DEF TypeOK, LateRead, Judging, call, remote
<1>11. CASE Retry
  <2>1. left' \in Nat
    BY <1>11, DelayType DEF Retry, TypeOK
  <2>2. QED
    BY <1>11, <2>1 DEF TypeOK, Retry, Judging, call, remote
<1>12. CASE RetryTooLate
  <2>1. "deadline" \in Outcome /\ current # Nobody
    BY <1>12 DEF Outcome, RetryTooLate, Judging, TypeOK
  <2>2. QED
    BY <1>12, <2>1, ReturnType DEF TypeOK, RetryTooLate, Judging, call, remote
<1>13. CASE RetriesExhausted
  <2>1. "transient" \in Outcome /\ current # Nobody
    BY <1>13 DEF Outcome, RetriesExhausted, Judging, TypeOK
  <2>2. QED
    BY <1>13, <2>1, ReturnType, CountType DEF TypeOK, RetriesExhausted, Judging, call, remote
<1>14. CASE Conclude
  <2>1. got \in Status /\ current # Nobody
    BY <1>14 DEF Conclude, Judging, TypeOK, Status
  <2>2. PICK o \in Outcome : Return(o)
    BY <1>14, <2>1 DEF Conclude, Outcome
  <2>3. failures' \in [Path -> Nat]
    BY <1>14, <2>1, CountType DEF Conclude
  <2>4. QED
    BY <1>14, <2>1, <2>2, <2>3, ReturnType DEF TypeOK, Conclude, Judging, call, remote
<1>15. CASE Serve
  <2>1. current \in Request
    BY <1>15 DEF Serve, TypeOK
  <2>2. QED
    BY <1>15, <2>1, ActsType DEF TypeOK, Serve, call
<1>16. CASE Tick
  BY <1>16 DEF TypeOK, Tick, call, remote
<1>17. CASE CancelOperation
  BY <1>17 DEF TypeOK, CancelOperation, call, remote
<1>18. QED
  BY <1>1, <1>2, <1>3, <1>4, <1>5, <1>6, <1>7, <1>8, <1>9, <1>10, <1>11, <1>12,
     <1>13, <1>14, <1>15, <1>16, <1>17 DEF Next, Client

\* The client's counters and what it knows of the service keep their types.
THEOREM TypeCorrect == Spec => []TypeOK
<1>1. Init => TypeOK
  <2> SUFFICES ASSUME Init
               PROVE  TypeOK
    OBVIOUS
  <2>1. outcome \in [Request -> Outcome]
    BY DEF Init, Outcome
  <2>2. /\ failures \in [Path -> Nat] /\ late \in [Request -> Nat]
        /\ applied \in [Request -> Nat] /\ sends \in [Request -> Nat]
    BY DEF Init
  <2>3. attempt \in Nat /\ left \in Nat
    BY ClientAssumption DEF Init
  <2>4. QED
    BY <2>1, <2>2, <2>3 DEF Init, TypeOK
<1>2. QED
  BY <1>1, TypeStep, PTL DEF Spec

-----------------------------------------------------------------------------
(* How often a request is sent.                                            *)

LEMMA SendsStep ==
    ASSUME TypeOK, TypeOK', SendsAreAttempts, SendsBounded, [Next]_vars
    PROVE  SendsAreAttempts' /\ SendsBounded'
<1> USE ClientAssumption
<1>1. CASE UNCHANGED vars
  BY <1>1 DEF SendsAreAttempts, SendsBounded, vars, call, remote
<1>2. ASSUME NEW r \in Request, Call(r)
      PROVE  SendsAreAttempts' /\ SendsBounded'
  BY <1>2 DEF SendsAreAttempts, SendsBounded, TypeOK, Call, call, remote
<1>3. ASSUME NEW r \in Request, ServeLate(r)
      PROVE  SendsAreAttempts' /\ SendsBounded'
  BY <1>3 DEF SendsAreAttempts, SendsBounded, ServeLate, call
<1>4. CASE Refuse
  BY <1>4 DEF SendsAreAttempts, SendsBounded, TypeOK, Refuse, Return, call, remote
<1>5. CASE Send
  BY <1>5 DEF SendsAreAttempts, SendsBounded, TypeOK, Send, Smaller, call, remote
<1>6. CASE TransportFails
  BY <1>6 DEF SendsAreAttempts, SendsBounded, TransportFails, call
<1>7. CASE Receive
  BY <1>7 DEF SendsAreAttempts, SendsBounded, Receive, call, remote
<1>8. CASE AmbiguousWrite
  BY <1>8 DEF SendsAreAttempts, SendsBounded, TypeOK, AmbiguousWrite, Judging, Return, call, remote
<1>9. CASE StopRead
  BY <1>9 DEF SendsAreAttempts, SendsBounded, TypeOK, StopRead, Judging, Return, call, remote, Uncertain
<1>10. CASE LateRead
  BY <1>10 DEF SendsAreAttempts, SendsBounded, TypeOK, LateRead, Judging, Return, call, remote
<1>11. CASE Retry
  BY <1>11 DEF SendsAreAttempts, SendsBounded, TypeOK, Retry, Reading, Judging, call, remote
<1>12. CASE RetryTooLate
  BY <1>12 DEF SendsAreAttempts, SendsBounded, TypeOK, RetryTooLate, Judging, Return, call, remote
<1>13. CASE RetriesExhausted
  BY <1>13 DEF SendsAreAttempts, SendsBounded, TypeOK, RetriesExhausted, Judging, Return, call, remote
<1>14. CASE Conclude
  <2>1. got \in Status
    BY <1>14 DEF Conclude, Judging, Status, ClientError
  <2>2. PICK o \in Status \cup {"ok"} : Return(o)
    BY <1>14, <2>1 DEF Conclude
  <2>3. o # "none"
    BY <2>2 DEF Status, ClientError, ServerError
  <2>4. QED
    BY <1>14, <2>2, <2>3 DEF SendsAreAttempts, SendsBounded, TypeOK, Conclude, Judging, Return, call, remote
<1>15. CASE Serve
  BY <1>15 DEF SendsAreAttempts, SendsBounded, Serve, call
<1>16. CASE Tick
  BY <1>16 DEF SendsAreAttempts, SendsBounded, Tick, call, remote
<1>17. CASE CancelOperation
  BY <1>17 DEF SendsAreAttempts, SendsBounded, CancelOperation, call, remote
<1>18. QED
  BY <1>1, <1>2, <1>3, <1>4, <1>5, <1>6, <1>7, <1>8, <1>9, <1>10, <1>11, <1>12,
     <1>13, <1>14, <1>15, <1>16, <1>17 DEF Next, Client

\* A write is sent once; a read at most once more for each retry allowed.
THEOREM SendsBoundedAlways == Spec => []SendsBounded
<1>1. Init => SendsAreAttempts /\ SendsBounded
  BY ClientAssumption DEF Init, SendsAreAttempts, SendsBounded
<1>2. TypeOK /\ TypeOK' /\ SendsAreAttempts /\ SendsBounded /\ [Next]_vars
        => SendsAreAttempts' /\ SendsBounded'
  BY SendsStep
<1>3. QED
  BY <1>1, <1>2, TypeCorrect, PTL DEF Spec

-----------------------------------------------------------------------------
(* What the client knows of its writes.                                    *)

LEMMA LedgerReturn ==
    ASSUME TypeOK, WritesAreKnown, current # Nobody, NEW o \in Outcome, o # "none",
           Return(o), UNCHANGED <<read, late, applied>>,
           current \notin read =>
               \/ o = "write_ambiguous"
               \/ o = "ok" /\ Ledger(current, 0, 1)
               \/ o # "ok" /\ Ledger(current, 0, 0)
    PROVE  WritesAreKnown'
  BY ClientAssumption DEF TypeOK, WritesAreKnown, Ledger, Return

LEMMA LedgerStep ==
    ASSUME TypeOK, TypeOK', WritesAreKnown, [Next]_vars
    PROVE  WritesAreKnown'
<1> USE ClientAssumption
<1>1. CASE UNCHANGED vars
  BY <1>1 DEF WritesAreKnown, Ledger, vars, call, remote
<1>2. ASSUME NEW r \in Request, Call(r)
      PROVE  WritesAreKnown'
  BY <1>2 DEF WritesAreKnown, Ledger, TypeOK, Call, call, remote
<1>3. ASSUME NEW r \in Request, ServeLate(r)
      PROVE  WritesAreKnown'
  BY <1>3 DEF WritesAreKnown, Ledger, TypeOK, ServeLate, Acts, call
<1>4. CASE Refuse
  <2>1. PICK o \in {"invalid_input", "cancelled", "deadline"} : Return(o)
    BY <1>4 DEF Refuse
  <2>2. o \in Outcome /\ o # "none" /\ o # "ok" /\ current # Nobody
    BY <1>4 DEF Outcome, Refuse, TypeOK
  <2>3. current \notin read => Ledger(current, 0, 0)
    BY <1>4, <2>2 DEF WritesAreKnown, Refuse, TypeOK
  <2>4. QED
    BY <1>4, <2>1, <2>2, <2>3, LedgerReturn DEF Refuse, call, remote
<1>5. CASE Send
  BY <1>5 DEF WritesAreKnown, Ledger, TypeOK, Send, call, remote, Status, ClientError
<1>6. CASE TransportFails
  BY <1>6 DEF WritesAreKnown, Ledger, TypeOK, TransportFails, Abandon, call, ClientError
<1>7. CASE Receive
  <2>1. current \in Request /\ wire \in Status /\ wire # "sent" /\ wire # "none"
    BY <1>7 DEF Receive, TypeOK, Status, ClientError, ServerError
  <2>2. pc' = "judge" /\ wire' = "none" /\ UNCHANGED <<current, outcome, read, late, applied>>
    BY <1>7 DEF Receive, call, remote
  <2>3. CASE got' = wire
    BY <1>7, <2>1, <2>2, <2>3 DEF WritesAreKnown, Receive, Ledger, Status, ClientError, ServerError
  <2>4. CASE got' \in Uncertain
    BY <1>7, <2>1, <2>2, <2>4 DEF WritesAreKnown, Receive, Ledger, Uncertain, ClientError
  <2>5. QED
    BY <1>7, <2>3, <2>4 DEF Receive
<1>8. CASE AmbiguousWrite
  <2>1. "write_ambiguous" \in Outcome /\ current # Nobody
    BY <1>8 DEF Outcome, AmbiguousWrite, Judging, TypeOK
  <2>2. QED
    BY <1>8, <2>1, LedgerReturn DEF AmbiguousWrite, Judging, call, remote
<1>9. CASE StopRead
  <2>1. got \in Outcome /\ current # Nobody /\ got # "none"
    BY <1>9 DEF Outcome, StopRead, Judging, TypeOK, Uncertain
  <2>2. QED
    BY <1>9, <2>1, LedgerReturn DEF StopRead, Reading, Judging, call, remote
<1>10. CASE LateRead
  <2>1. PICK o \in {"cancelled", "deadline"} : Return(o)
    BY <1>10 DEF LateRead
  <2>2. o \in Outcome /\ current # Nobody /\ o # "none"
    BY <1>10 DEF Outcome, LateRead, Judging, TypeOK
  <2>3. QED
    BY <1>10, <2>1, <2>2, LedgerReturn DEF LateRead, Reading, Judging, call, remote
<1>11. CASE Retry
  BY <1>11 DEF WritesAreKnown, TypeOK, Retry, Reading, Judging, call, remote, Ledger
<1>12. CASE RetryTooLate
  <2>1. "deadline" \in Outcome /\ current # Nobody
    BY <1>12 DEF Outcome, RetryTooLate, Judging, TypeOK
  <2>2. QED
    BY <1>12, <2>1, LedgerReturn DEF RetryTooLate, Reading, Judging, call, remote
<1>13. CASE RetriesExhausted
  <2>1. "transient" \in Outcome /\ current # Nobody
    BY <1>13 DEF Outcome, RetriesExhausted, Judging, TypeOK
  <2>2. QED
    BY <1>13, <2>1, LedgerReturn DEF RetriesExhausted, Reading, Judging, call, remote
<1>14. CASE Conclude
  <2>1. got \in Status /\ current # Nobody
    BY <1>14 DEF Conclude, Judging, Status, ClientError, TypeOK
  <2>2. current \notin read => got = "2xx" \/ got \in ClientError
    BY <1>14, <2>1 DEF Conclude, Reading, Status
  <2> DEFINE o == IF got = "2xx" THEN "ok" ELSE got
  <2>3. o \in Outcome /\ o # "none" /\ Return(o)
    BY <1>14, <2>1 DEF Conclude, Outcome, Status, ClientError, ServerError
  <2>4. current \notin read =>
            \/ o = "ok" /\ Ledger(current, 0, 1)
            \/ o # "ok" /\ Ledger(current, 0, 0)
    BY <2>1, <2>2 DEF WritesAreKnown, TypeOK, ClientError
  <2>5. QED
    <3> HIDE DEF o
    <3>1. UNCHANGED <<read, late, applied>>
      BY <1>14 DEF Conclude, Judging, call, remote
    <3>2. QED
      BY <2>1, <2>3, <2>4, <3>1, LedgerReturn
<1>15. CASE Serve
  <2>1. PICK s \in Status : wire' = s /\ Acts(current, s)
    BY <1>15 DEF Serve
  <2>2. /\ current \in Request /\ pc = "flight" /\ got = "nothing" /\ wire = "sent"
        /\ UNCHANGED <<read, current, pc, got, outcome, late>>
    BY <1>15 DEF Serve, TypeOK, WritesAreKnown, call
  <2>3. s # "none" /\ s # "sent"
    BY DEF Status, ClientError, ServerError
  <2>4. PICK n \in {0, 1} : /\ applied' = [applied EXCEPT ![current] = @ + n]
                            /\ current \in read \/ s \in ClientError => n = 0
                            /\ current \notin read /\ s = "2xx" => n = 1
    BY <2>1 DEF Acts, ClientError
  <2>5. current \notin read => Ledger(current, 0, 0)
    BY <2>2 DEF WritesAreKnown
  <2>6. \A r \in Request : r # current => applied'[r] = applied[r]
    BY <2>4 DEF TypeOK
  <2>7. applied'[current] = applied[current] + n
    BY <2>2, <2>4 DEF TypeOK
  <2>8. QED
    BY <2>1, <2>2, <2>3, <2>4, <2>5, <2>6, <2>7 DEF WritesAreKnown, Ledger, TypeOK, ClientError
<1>16. CASE Tick
  BY <1>16 DEF WritesAreKnown, Ledger, Tick, call, remote
<1>17. CASE CancelOperation
  BY <1>17 DEF WritesAreKnown, Ledger, CancelOperation, call, remote
<1>18. QED
  BY <1>1, <1>2, <1>3, <1>4, <1>5, <1>6, <1>7, <1>8, <1>9, <1>10, <1>11, <1>12,
     <1>13, <1>14, <1>15, <1>16, <1>17 DEF Next, Client

THEOREM LedgerAlways == Spec => []WritesAreKnown
<1>1. Init => WritesAreKnown
  BY ClientAssumption DEF Init, WritesAreKnown, Ledger, ClientError
<1>2. TypeOK /\ TypeOK' /\ WritesAreKnown /\ [Next]_vars => WritesAreKnown'
  BY LedgerStep
<1>3. QED
  BY <1>1, <1>2, TypeCorrect, PTL DEF Spec

-----------------------------------------------------------------------------
(* The refinement: every step is a step of RemoteWrite or changes nothing  *)
(* it knows.                                                               *)

Told == [r \in Request |-> Verdict(r)]

\* Ending request r with o, of which the ledger is as Return's callers know it.
LEMMA TellStep ==
    ASSUME TypeOK, NEW r \in Request, NEW o, o # "none", outcome[r] = "none",
           outcome' = [outcome EXCEPT ![r] = o],
           UNCHANGED <<read, applied>>,
           r \notin read =>
               \/ o = "write_ambiguous"
               \/ o = "ok" /\ applied[r] = 1
               \/ o # "ok" /\ applied[r] = 0
    PROVE  [Write!Next]_<<applied, Told>>
<1>1. \A q \in Request : q # r => Verdict(q)' = Verdict(q)
  BY DEF TypeOK, Verdict
<1>2. CASE r \in read
  <2>1. Verdict(r)' = Verdict(r)
    BY <1>2 DEF Verdict
  <2>2. QED
    BY <1>1, <2>1 DEF Told
<1>3. CASE r \notin read
  <2>1. Verdict(r) = "open"
    BY DEF Verdict
  <2>2. outcome'[r] = o
    BY DEF TypeOK
  <2>3. Told' = [Told EXCEPT ![r] = Verdict(r)']
    BY <1>1 DEF Told
  <2>4. CASE o = "write_ambiguous"
    <3>1. Verdict(r)' = "ambiguous"
      BY <1>3, <2>2, <2>4 DEF Verdict
    <3>2. QED
      BY <2>1, <2>3, <3>1 DEF Write!Next, Write!Tell, Told
  <2>5. CASE o = "ok" /\ applied[r] = 1
    <3>1. Verdict(r)' = "ok"
      BY <1>3, <2>2, <2>5 DEF Verdict
    <3>2. QED
      BY <2>1, <2>3, <2>5, <3>1 DEF Write!Next, Write!Tell, Told
  <2>6. CASE o # "write_ambiguous" /\ o # "ok" /\ applied[r] = 0
    <3>1. Verdict(r)' = "failed"
      BY <1>3, <2>2, <2>6 DEF Verdict
    <3>2. QED
      BY <2>1, <2>3, <2>6, <3>1 DEF Write!Next, Write!Tell, Told
  <2>7. QED
    BY <1>3, <2>4, <2>5, <2>6
<1>4. QED
  BY <1>2, <1>3

LEMMA EffectStep ==
    ASSUME TypeOK, NEW r \in Request, NEW s \in Status, Acts(r, s),
           UNCHANGED <<read, outcome>>,
           r \notin read =>
               /\ applied[r] = 0
               /\ outcome[r] \in {"none", "write_ambiguous"}
    PROVE  [Write!Next]_<<applied, Told>>
<1>1. PICK n \in {0, 1} : /\ applied' = [applied EXCEPT ![r] = @ + n]
                          /\ r \in read => n = 0
  BY DEF Acts
<1>2. Told' = Told
  BY DEF Told, Verdict
<1>3. CASE n = 0
  BY <1>1, <1>2, <1>3 DEF TypeOK
<1>4. CASE n = 1
  <2>1. r \notin read
    BY <1>1, <1>4
  <2>2. applied' = [applied EXCEPT ![r] = 1]
    BY <1>1, <1>4, <2>1 DEF TypeOK
  <2>3. Told[r] \in {"open", "ambiguous"}
    BY <2>1 DEF Told, Verdict
  <2>4. applied[r] = 0
    BY <2>1
  <2>5. Write!TakeEffect(r)
    BY <1>2, <2>2, <2>3, <2>4 DEF Write!TakeEffect, Told
  <2>6. QED
    BY <2>5 DEF Write!Next
<1>5. QED
  BY <1>3, <1>4

LEMMA WriteStep ==
    ASSUME TypeOK, WritesAreKnown, [Next]_vars
    PROVE  [Write!Next]_<<applied, Told>>
<1> USE ClientAssumption
<1>1. CASE UNCHANGED <<read, outcome, applied>>
  BY <1>1 DEF Told, Verdict
<1>2. CASE UNCHANGED vars
  BY <1>1, <1>2 DEF vars, call, remote
<1>3. ASSUME NEW r \in Request, Call(r)
      PROVE  [Write!Next]_<<applied, Told>>
  <2>1. CASE Open(path[r])
    <3>1. r # current
      BY <1>3 DEF Call, TypeOK
    <3>2. r \notin read => applied[r] = 0
      BY <1>3, <3>1 DEF Call, WritesAreKnown, Ledger
    <3>3. outcome' = [outcome EXCEPT ![r] = "circuit_open"] /\ outcome[r] = "none"
          /\ UNCHANGED <<read, applied>>
      BY <1>3, <2>1 DEF Call, call, remote
    <3>4. QED
      BY <3>2, <3>3, TellStep
  <2>2. CASE ~Open(path[r])
    BY <1>1, <1>3, <2>2 DEF Call, call, remote
  <2>3. QED
    BY <2>1, <2>2
<1>4. ASSUME NEW r \in Request, ServeLate(r)
      PROVE  [Write!Next]_<<applied, Told>>
  <2>1. PICK s \in Status : Acts(r, s)
    BY <1>4 DEF ServeLate
  <2>2. r \notin read => applied[r] = 0 /\ outcome[r] \in {"none", "write_ambiguous"}
    BY <1>4 DEF ServeLate, WritesAreKnown, Ledger, TypeOK
  <2>3. QED
    BY <1>4, <2>1, <2>2, EffectStep DEF ServeLate, call
<1>5. CASE Serve
  <2>1. PICK s \in Status : Acts(current, s)
    BY <1>5 DEF Serve
  <2>2. current \in Request
    BY <1>5 DEF Serve, TypeOK
  <2>3. current \notin read =>
            applied[current] = 0 /\ outcome[current] \in {"none", "write_ambiguous"}
    BY <1>5, <2>2 DEF Serve, WritesAreKnown, Ledger
  <2>4. QED
    BY <1>5, <2>1, <2>2, <2>3, EffectStep DEF Serve, call
<1>6. ASSUME NEW o, o # "none", current \in Request, Return(o),
             UNCHANGED <<read, applied>>,
             current \notin read =>
                 \/ o = "write_ambiguous"
                 \/ o = "ok" /\ applied[current] = 1
                 \/ o # "ok" /\ applied[current] = 0
      PROVE  [Write!Next]_<<applied, Told>>
  BY <1>6, TellStep DEF Return, WritesAreKnown
<1>7. CASE Refuse
  <2>1. PICK o \in {"invalid_input", "cancelled", "deadline"} : Return(o)
    BY <1>7 DEF Refuse
  <2>2. current \in Request /\ (current \notin read => applied[current] = 0)
    BY <1>7 DEF Refuse, TypeOK, WritesAreKnown, Ledger
  <2>3. QED
    BY <1>6, <1>7, <2>1, <2>2 DEF Refuse, call, remote
<1>8. CASE AmbiguousWrite
  <2>1. current \in Request /\ Return("write_ambiguous") /\ UNCHANGED <<read, applied>>
    BY <1>8 DEF AmbiguousWrite, Judging, TypeOK, call, remote
  <2>2. QED
    BY <1>6, <2>1
<1>9. CASE StopRead
  <2>1. current \in read /\ Return(got) /\ got # "none" /\ UNCHANGED <<read, applied>>
    BY <1>9 DEF StopRead, Reading, Judging, Uncertain, call, remote
  <2>2. QED
    BY <1>6, <2>1 DEF TypeOK
<1>10. CASE LateRead
  <2>1. PICK o \in {"cancelled", "deadline"} : Return(o)
    BY <1>10 DEF LateRead
  <2>2. current \in read /\ UNCHANGED <<read, applied>>
    BY <1>10 DEF LateRead, Reading, Judging, call, remote
  <2>3. QED
    BY <1>6, <2>1, <2>2 DEF TypeOK
<1>11. CASE RetryTooLate \/ RetriesExhausted
  <2>1. PICK o \in {"deadline", "transient"} : Return(o)
    BY <1>11 DEF RetryTooLate, RetriesExhausted
  <2>2. current \in read /\ UNCHANGED <<read, applied>>
    BY <1>11 DEF RetryTooLate, RetriesExhausted, Reading, Judging, call, remote
  <2>3. QED
    BY <1>6, <2>1, <2>2 DEF TypeOK
<1>12. CASE Conclude
  <2>1. got \in Status /\ current \in Request
    BY <1>12 DEF Conclude, Judging, Status, ClientError, TypeOK
  <2>2. current \notin read => got = "2xx" \/ got \in ClientError
    BY <1>12, <2>1 DEF Conclude, Reading, Status
  <2>3. PICK o : Return(o) /\ o = IF got = "2xx" THEN "ok" ELSE got
    BY <1>12 DEF Conclude
  <2>4. o # "none" /\ (o = "ok" <=> got = "2xx")
    BY <2>1, <2>3 DEF Status, ClientError, ServerError
  <2>5. current \notin read =>
            \/ o = "ok" /\ applied[current] = 1
            \/ o # "ok" /\ applied[current] = 0
    BY <2>1, <2>2, <2>3, <2>4 DEF WritesAreKnown, Ledger, ClientError
  <2>6. UNCHANGED <<read, applied>>
    BY <1>12 DEF Conclude, Judging, call, remote
  <2>7. QED
    BY <1>6, <2>1, <2>3, <2>4, <2>5, <2>6
<1>13. CASE Send \/ TransportFails \/ Receive \/ Retry \/ Tick \/ CancelOperation
  BY <1>1, <1>13 DEF Send, TransportFails, Receive, Retry, Judging, Tick,
                     CancelOperation, call, remote
<1>14. QED
  BY <1>2, <1>3, <1>4, <1>5, <1>7, <1>8, <1>9, <1>10, <1>11, <1>12, <1>13
     DEF Next, Client

(***************************************************************************)
(* A write takes effect at most once, whatever is lost, late, retried or   *)
(* cancelled; "ok" means that it has, and any failure but write_ambiguous  *)
(* that it has not and never will.                                         *)
(***************************************************************************)
THEOREM WritesAreHonest == Spec => ImplementsWrite
<1>1. Init => Write!Init
  BY DEF Init, Write!Init, Verdict
<1>2. TypeOK /\ WritesAreKnown /\ [Next]_vars
        => [Write!Next]_<<applied, [r \in Request |-> Verdict(r)]>>
  BY WriteStep DEF Told
<1>3. QED
  BY <1>1, <1>2, TypeCorrect, LedgerAlways, PTL DEF Spec, ImplementsWrite, Write!Spec

-----------------------------------------------------------------------------
(* The breaker.                                                            *)

\* A request is under way only on a path whose breaker is closed: one that was
\* closed when it was called, and is counted against only as it ends.
ClosedWhileServing == current \in Request => failures[path[current]] < Threshold

LEMMA ClosedStep ==
    ASSUME TypeOK, ClosedWhileServing, [Next]_vars
    PROVE  ClosedWhileServing'
<1> USE ClientAssumption
<1>1. CASE UNCHANGED <<path, current, failures>>
  BY <1>1 DEF ClosedWhileServing
<1>2. ASSUME NEW r \in Request, Call(r)
      PROVE  ClosedWhileServing'
  BY <1>2 DEF ClosedWhileServing, Call, Open, TypeOK, call
<1>3. CASE current' = Nobody
  BY <1>3 DEF ClosedWhileServing
<1>4. CASE \/ Refuse \/ AmbiguousWrite \/ StopRead \/ LateRead
           \/ RetryTooLate \/ RetriesExhausted \/ Conclude
  <2>1. PICK o : Return(o)
    BY <1>4 DEF Refuse, AmbiguousWrite, StopRead, LateRead, RetryTooLate,
                RetriesExhausted, Conclude
  <2>2. QED
    BY <1>3, <2>1 DEF Return
<1>5. QED
  BY <1>1, <1>2, <1>4
     DEF Next, Client, vars, call, Send, TransportFails, Receive, Retry, Judging, Serve,
         ServeLate, Tick, CancelOperation

\* In one operation, nothing is sent to a path once it has failed as often as
\* the breaker tolerates.
THEOREM OpenIsSilentAlways == Spec => OpenIsSilent
<1>1. Init => ClosedWhileServing
  BY ClientAssumption DEF Init, ClosedWhileServing
<1>2. TypeOK /\ ClosedWhileServing /\ [Next]_vars => ClosedWhileServing'
  BY ClosedStep
<1>3. ASSUME TypeOK, ClosedWhileServing, [Next]_vars
      PROVE  [\A r \in Request :
                 failures[path[r]] >= Threshold => sends'[r] = sends[r]]_vars
  <2>1. CASE Send
    <3>1. current \in Request /\ sends' = [sends EXCEPT ![current] = Smaller(@ + 1, MaxRetries + 2)]
      BY <1>3, <2>1 DEF Send, TypeOK
    <3>2. failures[path[current]] \in Nat /\ failures[path[current]] < Threshold
      BY <1>3, <3>1 DEF ClosedWhileServing, TypeOK
    <3>3. \A r \in Request : r # current => sends'[r] = sends[r]
      BY <1>3, <3>1 DEF TypeOK
    <3>4. QED
      BY <3>2, <3>3, ClientAssumption
  <2>2. CASE UNCHANGED sends
    BY <2>2
  <2>3. QED
    BY <1>3, <2>1, <2>2
       DEF Next, Client, vars, Call, ServeLate, Refuse, TransportFails, Receive,
           AmbiguousWrite, StopRead, LateRead, Retry, RetryTooLate, RetriesExhausted,
           Conclude, Judging, Serve, Tick, CancelOperation
<1>4. QED
  BY <1>1, <1>2, <1>3, TypeCorrect, PTL DEF Spec, OpenIsSilent
=============================================================================
