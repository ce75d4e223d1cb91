-------------------------- MODULE LocalFiles_proofs --------------------------
(***************************************************************************)
(* Whatever call fails and whatever other programs do: handles are closed  *)
(* once, the first failure is told, and no name denotes half a file; and   *)
(* documents are judged by what they are.                                  *)
(*                                                                         *)
(* The looks at a document use a stack, what they are to find out is said  *)
(* of the ways from its root.  What has been looked at is closed but for   *)
(* what the stack holds, and so it is all that is reached when the stack   *)
(* is empty; every entry is a place in the document, which is counted      *)
(* once; what the second look has on its stack as open lies on one way.    *)
(* The second look goes where the first has been, which is why it meets    *)
(* no limit that the first has not.                                        *)
(***************************************************************************)
EXTENDS LocalFiles, FiniteSetTheorems, WellFoundedInduction, TLAPS

\* What the readers and writers have in common.
WayOK(h) ==
    /\ h.first \in 0 .. Last /\ h.keeps \in {1, Last}
    /\ h.exact => h.use = "text"
    /\ h.windows => ~h.creates

LEMMA Ways ==
    ASSUME NEW c \in Cases
    PROVE  WayOK(c.how)
  <1>1. WayOK(PosixOpenRegular)
    BY DEF WayOK, PosixOpenRegular, Last
  <1>2. WayOK(PosixOpenRelative)
    BY DEF WayOK, PosixOpenRelative, PosixOpenRegular, Last
  <1>3. WayOK(Win32OpenRegular)
    BY DEF WayOK, Win32OpenRegular, PosixOpenRegular, Last
  <1>4. WayOK(Win32OpenRelative)
    BY DEF WayOK, Win32OpenRelative, Win32OpenRegular, PosixOpenRegular, Last
  <1>5. WayOK(ArmOpenSource)
    BY DEF WayOK, ArmOpenSource, PosixOpenRelative, PosixOpenRegular, Last
  <1>6. WayOK(StagedUploadSource)
    BY DEF WayOK, StagedUploadSource, PosixOpenRegular, Last
  <1>7. WayOK(ReadText)
    BY DEF WayOK, ReadText, PosixOpenRegular, Last
  <1>8. WayOK(ReadCache)
    BY DEF WayOK, ReadCache, PosixOpenRegular, Last
  <1>9. WayOK(LoadCurrent)
    BY DEF WayOK, LoadCurrent, PosixOpenRelative, PosixOpenRegular, Last
  <1>10. WayOK(DownloadTarget)
    BY DEF WayOK, DownloadTarget, PosixOpenRegular, Last
  <1>11. WayOK(PersistCache)
    BY DEF WayOK, PersistCache, PosixOpenRegular, Last
  <1>12. c.how \in Readers \cup Writers
    BY CasesAssumption
  <1> QED
    BY <1>1, <1>2, <1>3, <1>4, <1>5, <1>6, <1>7, <1>8, <1>9, <1>10, <1>11, <1>12
    DEF Readers, Writers

-----------------------------------------------------------------------------
(* Handles.                                                                *)

\* No close has failed where that has not been thought of.
Fine == unclosed => Careful

WriterSteps == {"look", "create", "fill", "seal", "publish", "settle"}

\* The directory the file is looked for in, while it is.
Behind == IF at = how.first THEN {} ELSE {at - 1}

\* A writer whose file could not be removed.
Stranded == pc \in {"tidied", "done"} /\ left

\* What is open where the call is.
HandlesFit ==
    /\ ~spoilt /\ due \subseteq 0 .. Last
    /\ ~Stranded => open = due
    /\ pc = "note" => due = {} /\ at = how.first
    /\ pc = "open" => due = Behind
    /\ pc = "inspect" => due = Behind \cup {at}
    /\ pc = "shed" => at > how.first /\ due = {at - 1, at}
    /\ pc \in {"stat", "verify", "read", "shut", "fill", "seal"} => Last \in due
    /\ pc \in {"tidied", "done"} => due = {}

Held ==
    /\ case \in Cases
    /\ at \in 0 .. Last
    /\ pc \in {"note", "open", "inspect", "shed"} => at >= how.first
    /\ pc \in WriterSteps => Writes
    /\ Fine => HandlesFit

LEMMA HeldInit == Init => Held
  <1> SUFFICES ASSUME Init PROVE Held
    OBVIOUS
  <1>1. case \in Cases
    BY DEF Init
  <1>2. how.first \in 0 .. Last
    BY <1>1, Ways DEF how, WayOK
  <1>3. at \in 0 .. Last
    BY <1>2 DEF Init, Last
  <1>4. pc \in {"look", "note", "open"} /\ (pc = "look" => Writes)
        /\ (pc # "look" => at = how.first)
    BY DEF Init
  <1>5. HandlesFit
    BY <1>2, <1>4 DEF Init, HandlesFit, Behind
  <1> QED
    BY <1>1, <1>2, <1>3, <1>4, <1>5 DEF Held, WriterSteps, Last

\* The call itself, after a handle was opened or closed.
LEMMA HeldAfter ==
    ASSUME Held, UNCHANGED <<case, spoilt, unclosed>>,
           pc \in {"open", "inspect"}, After(at),
           Fine => ~spoilt /\ open' = due' /\ due' = Behind \cup {at}
    PROVE  Held'
  <1>1. /\ case \in Cases /\ how.first \in 0 .. Last /\ how.keeps \in {1, Last}
        /\ at \in how.first .. Last
    BY Ways DEF Held, how, WayOK, Last
  <1>2. at' \in 0 .. Last /\ at' >= at /\ pc' \in {"shed", "stat", "open"}
    BY <1>1 DEF After, Goes, Last
  <1>3. UNCHANGED <<how, Careful, Fine, Writes>>
    BY DEF how, Careful, Fine, Writes
  <1>4. ASSUME Fine PROVE HandlesFit'
    <2>1. CASE at > how.first /\ at <= how.keeps
      BY <1>1, <1>3, <1>4, <2>1 DEF After, Goes, HandlesFit, Behind, Last
    <2>2. CASE ~(at > how.first /\ at <= how.keeps) /\ at = Last
      BY <1>1, <1>3, <1>4, <2>2 DEF After, Goes, HandlesFit, Behind, Last
    <2>3. CASE ~(at > how.first /\ at <= how.keeps) /\ at # Last
      <3>1. at = how.first /\ at' = at + 1 /\ pc' = "open"
        BY <1>1, <2>3 DEF After, Goes, Last
      <3> QED
        BY <1>1, <1>3, <1>4, <3>1 DEF HandlesFit, Behind, Last
    <2> QED
      BY <2>1, <2>2, <2>3
  <1> QED
    BY <1>1, <1>2, <1>3, <1>4 DEF Held, WriterSteps, Last

\* Where the call may go on, the handles being as they were.
Onward ==
    \/ pc' = pc /\ UNCHANGED at
    \/ pc' \in {"release", "compose", "schema", "validate", "probe", "send", "verdict",
                "create", "publish", "settle", "dead"}
    \/ pc = "note" /\ pc' = "open"
    \/ pc = "release" /\ due = {} /\ pc' \in {"tidied", "done"}
    \/ pc = "tidied" /\ pc' = "done"
    \/ pc = "stat" /\ pc' \in {"verify", "read"}
    \/ pc = "verify" /\ pc' = "read"
    \/ pc = "read" /\ pc' = "shut"
    \/ pc = "fill" /\ pc' = "seal"

LEMMA HeldOnward ==
    ASSUME Held, UNCHANGED <<case, at, handles>>, Onward,
           pc' \in WriterSteps => pc \in WriterSteps, Stranded => Stranded'
    PROVE  Held'
  <1>1. UNCHANGED <<how, Writes, Careful, Fine, open, due, spoilt>>
    BY DEF how, Writes, Careful, Fine, handles
  <1>2. UNCHANGED Behind
    BY <1>1 DEF Behind
  <1>3. ASSUME Fine PROVE HandlesFit'
    BY <1>1, <1>2, <1>3 DEF Held, HandlesFit, Onward, Behind
  <1>4. pc' \in {"note", "open", "inspect", "shed"} => at' >= how'.first
    BY <1>1 DEF Held, Onward
  <1> QED
    BY <1>1, <1>3, <1>4 DEF Held

LEMMA LastOpened ==
    ASSUME NEW S, S \subseteq 0 .. Last, S # {}
    PROVE  (CHOOSE x \in S : \A y \in S : x >= y) \in S
  <1>1. CASE 2 \in S
    <2>1. \A y \in S : 2 >= y
      BY DEF Last
    <2> QED
      BY <1>1, <2>1
  <1>2. CASE 2 \notin S /\ 1 \in S
    <2>1. \A y \in S : 1 >= y
      BY <1>2 DEF Last
    <2> QED
      BY <1>2, <2>1
  <1>3. CASE 2 \notin S /\ 1 \notin S
    <2>1. \A y \in S : y = 0
      BY <1>3 DEF Last
    <2>2. 0 \in S
      BY <2>1
    <2>3. \A y \in S : 0 >= y
      BY <2>1
    <2> QED
      BY <2>2, <2>3
  <1> QED
    BY <1>1, <1>2, <1>3

LEMMA HeldNext == Held /\ [Next]_vars => Held'
  <1> SUFFICES ASSUME Held, [Next]_vars PROVE Held'
    OBVIOUS
  <1> USE DEF Goes, Fails
  <1>1. CASE Note
    BY <1>1, HeldOnward DEF Stranded, Note, Onward, WriterSteps, handles, place, writing, failing
  <1>2. CASE CallFails
    BY <1>2, HeldOnward DEF Stranded, CallFails, Onward, WriterSteps, handles, place, writing, failing
  <1>3. CASE Interrupt
    BY <1>3, HeldOnward DEF Stranded, Interrupt, Onward, WriterSteps, handles, place, writing, failing
  <1>4. CASE Stat
    BY <1>4, HeldOnward DEF Stranded, Stat, Onward, WriterSteps, handles, place, writing, failing
  <1>5. CASE Verify
    BY <1>5, HeldOnward DEF Stranded, Verify, Onward, WriterSteps, handles, place, writing, failing
  <1>6. CASE Part
    BY <1>6, HeldOnward DEF Stranded, Part, Onward, WriterSteps, handles, place, writing, failing
  <1>7. CASE EndOfFile
    BY <1>7, HeldOnward DEF Stranded, EndOfFile, Onward, WriterSteps, handles, place, writing, failing
  <1>8. CASE Compose
    BY <1>8, HeldOnward DEF Stranded, Compose, Onward, WriterSteps, handles, place, writing, failing
  <1>9. CASE Validate
    BY <1>9, HeldOnward DEF Stranded, Validate, Onward, WriterSteps, handles, place, writing, failing
  <1>10. CASE ValidateState
    BY <1>10, HeldOnward DEF Stranded, ValidateState, Onward, WriterSteps, handles, place, writing, failing
  <1>11. CASE Probe
    BY <1>11, HeldOnward DEF Stranded, Probe, Onward, WriterSteps, handles, place, writing, failing
  <1>12. CASE SendPart
    BY <1>12, HeldOnward DEF Stranded, SendPart, Onward, WriterSteps, handles, place, writing, failing
  <1>13. CASE Sent
    BY <1>13, HeldOnward DEF Stranded, Sent, Onward, WriterSteps, handles, place, writing, failing
  <1>14. CASE VerifyDeploy
    BY <1>14, HeldOnward DEF Stranded, VerifyDeploy, Onward, WriterSteps, handles, place, writing, failing
  <1>15. CASE Fill
    BY <1>15, HeldOnward DEF Stranded, Fill, Onward, WriterSteps, handles, place, writing, failing
  <1>16. CASE Publish
    BY <1>16, HeldOnward DEF Stranded, Publish, Onward, WriterSteps, handles, place, writing, failing
  <1>17. CASE Settle
    BY <1>17, HeldOnward DEF Stranded, Settle, Onward, WriterSteps, handles, place, writing, failing
  <1>18. CASE Tidy
    <2>1. CASE UNCHANGED <<pc, due>>
      BY <1>18, <2>1, HeldOnward DEF Stranded, Tidy, Onward, handles
    <2>2. CASE pc' = "tidied" /\ due' = {} /\ UNCHANGED left
      <3>1. pc = "release" /\ left /\ UNCHANGED <<case, at, spoilt, unclosed, how, Writes, Careful, Fine>>
        BY <1>18 DEF Tidy, how, Writes, Careful, Fine
      <3> QED
        BY <2>2, <3>1 DEF Held, HandlesFit, Stranded, WriterSteps
    <2> QED
      BY <1>18, <2>1, <2>2 DEF Tidy
  <1>19. CASE Conclude
    <2>1. /\ (pc = "release" /\ due = {}) \/ pc = "tidied"
          /\ pc' = "done" /\ UNCHANGED <<case, at, handles, left>>
      BY <1>19 DEF Conclude, writing
    <2> QED
      BY <2>1, HeldOnward DEF Stranded, Onward, WriterSteps
  <1>20. CASE Replace \/ Edit \/ UNCHANGED vars
    BY <1>20, HeldOnward DEF Stranded, Replace, Edit, Changes, vars, Onward, WriterSteps, handles, writing
  <1>21. CASE Open
    <2>1. CASE Refuses(at) # None
      BY <1>21, <2>1, HeldOnward DEF Stranded, Open, Onward, WriterSteps, handles
    <2>2. CASE Refuses(at) = None
      <3>1. pc = "open" /\ Opened(at) /\ UNCHANGED <<case, spoilt, unclosed>>
        BY <1>21, <2>2 DEF Open
      <3>2. Fine => ~spoilt /\ open' = due' /\ due' = Behind \cup {at}
        BY <3>1 DEF Held, HandlesFit, Stranded, Opened
      <3>3. CASE ~how.windows
        BY <1>21, <2>2, <3>1, <3>2, <3>3, HeldAfter DEF Open
      <3>4. CASE how.windows
        <4>1. pc' = "inspect" /\ UNCHANGED at
          BY <1>21, <2>2, <3>4 DEF Open
        <4>2. UNCHANGED <<how, Writes, Careful, Fine, Behind>>
          BY <3>1, <4>1 DEF how, Writes, Careful, Fine, Behind
        <4>3. Fine => due' \subseteq 0 .. Last
          BY <3>1 DEF Held, HandlesFit, Stranded, Opened
        <4> QED
          BY <3>1, <3>2, <4>1, <4>2, <4>3 DEF Held, HandlesFit, Stranded, WriterSteps
      <3> QED
        BY <3>3, <3>4
    <2> QED
      BY <2>1, <2>2
  <1>22. CASE Inspect
    <2>1. CASE pc' = "release" /\ UNCHANGED at
      <3>1. pc = "inspect" /\ UNCHANGED <<case, handles>>
        BY <1>22 DEF Inspect
      <3> QED
        BY <2>1, <3>1, HeldOnward DEF Stranded, Onward, WriterSteps
    <2>2. CASE After(at)
      BY <1>22, <2>2, HeldAfter DEF Inspect, Held, HandlesFit, Stranded, handles
    <2> QED
      BY <1>22, <2>1, <2>2 DEF Inspect
  <1>23. CASE Shed
    <2>1. /\ pc = "shed" /\ Close(at - 1) /\ UNCHANGED case
          /\ how.first \in 0 .. Last /\ at \in 0 .. Last /\ at >= how.first
      BY <1>23, Ways DEF Shed, Held, how, WayOK
    <2>2. UNCHANGED <<how, Writes, Careful>>
      BY <2>1 DEF how, Writes, Careful
    <2>3. Fine => /\ ~spoilt' /\ open' = {at} /\ at > how.first
                  /\ due = {at - 1, at}
      <3>1. Fine => pc = "shed" /\ HandlesFit
        BY <2>1 DEF Held
      <3>2. at # at - 1
        BY <2>1 DEF Last
      <3> QED
        BY <2>1, <3>1, <3>2 DEF HandlesFit, Stranded, Close
    <2>4. CASE due' = due \ {at - 1} /\ UNCHANGED unclosed
      <3>1. Fine' => Fine
        BY <2>2, <2>4 DEF Fine
      <3>2. \/ pc' = "stat" /\ at = Last /\ UNCHANGED at
            \/ pc' = "open" /\ at # Last /\ at' = at + 1
            \/ pc' = "release" /\ UNCHANGED at
        <4>1. CASE at = Last
          BY <1>23, <4>1 DEF Shed
        <4>2. CASE at # Last
          BY <1>23, <4>2 DEF Shed
        <4> QED
          BY <4>1, <4>2
      <3>3. Fine => due' = {at}
        BY <2>1, <2>3, <2>4 DEF Last
      <3>4. Fine => HandlesFit'
        BY <2>1, <2>2, <2>3, <3>2, <3>3 DEF HandlesFit, Stranded, Behind, Last
      <3> QED
        BY <2>1, <2>2, <3>1, <3>2, <3>4 DEF Held, WriterSteps, Last
    <2>5. CASE unclosed' = TRUE /\ pc' = "release" /\ UNCHANGED at
               /\ due' = IF Careful THEN StillDue ELSE {at - 1}
      <3>1. Fine' => Careful /\ Fine
        BY <2>2, <2>5 DEF Fine
      <3>2. Careful /\ Fine => HandlesFit'
        BY <2>1, <2>3, <2>5 DEF HandlesFit, Stranded, StillDue
      <3> QED
        BY <2>1, <2>2, <2>5, <3>1, <3>2 DEF Held, WriterSteps
    <2> QED
      BY <1>23, <2>4, <2>5 DEF Shed
  <1>24. CASE Shut
    <2>1. /\ pc = "shut" /\ Close(Last) /\ due' = due \ {Last} /\ UNCHANGED <<case, at>>
          /\ pc' \in {"compose", "release"}
      BY <1>24 DEF Shut
    <2>2. UNCHANGED <<how, Writes, Careful>>
      BY <2>1 DEF how, Writes, Careful
    <2>3. Fine' => Fine
      BY <1>24, <2>2 DEF Shut, Fine
    <2>4. Fine => HandlesFit'
      BY <2>1 DEF Held, HandlesFit, Stranded, Close
    <2> QED
      BY <2>1, <2>2, <2>3, <2>4 DEF Held, WriterSteps
  <1>25. CASE Look
    <2>1. CASE UNCHANGED <<open, due>>
      BY <1>25, <2>1, HeldOnward DEF Stranded, Look, Onward, WriterSteps, handles
    <2>2. CASE Opened(1)
      <3>1. pc = "look" /\ pc' \in {"create", "release"}
            /\ UNCHANGED <<case, at, spoilt, unclosed>>
        BY <1>25 DEF Look
      <3>2. UNCHANGED <<how, Writes, Careful, Fine>>
        BY <3>1 DEF how, Writes, Careful, Fine
      <3> QED
        BY <2>2, <3>1, <3>2 DEF Held, HandlesFit, Stranded, Opened, WriterSteps, Last
    <2> QED
      BY <1>25, <2>1, <2>2 DEF Look
  <1>26. CASE Create
    <2>1. CASE pc' = "release"
      BY <1>26, <2>1, HeldOnward DEF Stranded, Create, Onward, WriterSteps, handles
    <2>2. CASE Opened(Last) /\ pc' = "fill"
      <3>1. pc = "create" /\ UNCHANGED <<case, at, spoilt, unclosed>>
        BY <1>26 DEF Create
      <3>2. UNCHANGED <<how, Writes, Careful, Fine>>
        BY <3>1 DEF how, Writes, Careful, Fine
      <3> QED
        BY <2>2, <3>1, <3>2 DEF Held, HandlesFit, Stranded, Opened, WriterSteps, Last
    <2> QED
      BY <1>26, <2>1, <2>2 DEF Create
  <1>27. CASE Seal
    <2>1. pc = "seal" /\ Writes /\ ~Careful /\ UNCHANGED <<case, at>>
          /\ pc' \in {"release", "publish"}
      BY <1>27 DEF Seal, Held, WriterSteps, Careful
    <2>2. UNCHANGED <<how, Writes, Careful>>
      BY <2>1 DEF how, Writes, Careful
    <2>3. CASE UNCHANGED handles
      BY <1>27, <2>1, <2>3, HeldOnward DEF Stranded, Onward, WriterSteps
    <2>4. CASE Close(Last) /\ due' = due \ {Last} /\ UNCHANGED unclosed
      BY <2>1, <2>2, <2>4 DEF Held, HandlesFit, Stranded, Close, Fine, WriterSteps
    <2>5. CASE unclosed' = TRUE
      BY <2>1, <2>2, <2>5 DEF Held, Fine, WriterSteps
    <2> QED
      BY <1>27, <2>3, <2>4, <2>5 DEF Seal
  <1>28. CASE Release
    <2> DEFINE h == CHOOSE x \in due : \A y \in due : x >= y
    <2>1. pc = "release" /\ pc' = pc /\ Close(h) /\ UNCHANGED <<case, at>>
      BY <1>28 DEF Release
    <2>2. UNCHANGED <<how, Writes, Careful>>
      BY <2>1 DEF how, Writes, Careful
    <2>3. Fine => h \in due
      <3>1. Fine => due \subseteq 0 .. Last /\ due # {}
        BY <1>28 DEF Release, Held, HandlesFit
      <3> QED
        BY <3>1, LastOpened
    <2>4. Fine' => Fine /\ due' = due \ {h}
      BY <1>28, <2>2 DEF Release, Fine, ReleasesRest
    <2>5. Fine => open' = open \ {h} /\ ~spoilt'
      BY <2>1, <2>3 DEF Close, Held, HandlesFit, Stranded
    <2> HIDE DEF h
    <2> QED
      BY <2>1, <2>2, <2>4, <2>5 DEF Held, HandlesFit, Stranded, WriterSteps
  <1>29. CASE Kill
    <2>1. UNCHANGED <<case, at, spoilt, unclosed>> /\ pc' = "dead" /\ open' = {} /\ due' = {}
      BY <1>29 DEF Kill
    <2>2. UNCHANGED <<how, Writes, Careful, Fine>>
      BY <2>1 DEF how, Writes, Careful, Fine
    <2> QED
      BY <2>1, <2>2 DEF Held, HandlesFit, Stranded, WriterSteps
  <1> QED
    BY <1>1, <1>2, <1>3, <1>4, <1>5, <1>6, <1>7, <1>8, <1>9, <1>10, <1>11, <1>12, <1>13, <1>14, <1>15, <1>16, <1>17, <1>18, <1>19, <1>20, <1>21, <1>22, <1>23, <1>24, <1>25, <1>26, <1>27, <1>28, <1>29 DEF Next

\* Handles are what the call says they are, whatever has failed before.
THEOREM HeldAlways == Spec => []Held
  <1> QED
    BY HeldInit, HeldNext, PTL DEF Spec

-----------------------------------------------------------------------------
(* What is told.                                                           *)

ReaderSteps ==
    {"note", "open", "inspect", "shed", "stat", "verify", "read", "shut", "compose",
     "validate", "schema", "probe", "send", "verdict"}

Verdicts == {"open", "keys", "parser", "structure", "cycle"}

Judging == "verdict" \in DOMAIN scan /\ scan.verdict \in Verdicts

LEMMA JudgingNext ==
    ASSUME NEW d, NEW s, "verdict" \in DOMAIN s, s.verdict \in Verdicts
    PROVE  /\ LET r == ComposeNext(d, s) IN "verdict" \in DOMAIN r /\ r.verdict \in Verdicts
           /\ LET r == JsonNext(d, s) IN "verdict" \in DOMAIN r /\ r.verdict \in Verdicts
           /\ LET r == StateNext(d, s) IN "verdict" \in DOMAIN r /\ r.verdict \in Verdicts
           /\ LET r == ValidateNext(d, s) IN "verdict" \in DOMAIN r /\ r.verdict \in Verdicts
  <1>1. \A code \in Verdicts : /\ "verdict" \in DOMAIN Refused(s, code)
                               /\ Refused(s, code).verdict \in Verdicts
    BY DEF Refused
  <1>2. \A x : /\ "verdict" \in DOMAIN Enters(d, s, x)
               /\ Enters(d, s, x).verdict \in Verdicts
    BY DEF Enters
  <1>3. LET r == ComposeNext(d, s) IN "verdict" \in DOMAIN r /\ r.verdict \in Verdicts
    BY <1>1, <1>2 DEF ComposeNext, Verdicts
  <1>4. LET r == JsonNext(d, s) IN "verdict" \in DOMAIN r /\ r.verdict \in Verdicts
    BY <1>1, <1>2 DEF JsonNext, Verdicts
  <1>5. LET r == StateNext(d, s) IN "verdict" \in DOMAIN r /\ r.verdict \in Verdicts
    BY <1>1 DEF StateNext, Verdicts
  <1>6. LET r == ValidateNext(d, s) IN "verdict" \in DOMAIN r /\ r.verdict \in Verdicts
    BY <1>1 DEF ValidateNext, Verdicts
  <1> QED
    BY <1>3, <1>4, <1>5, <1>6

Conclusion ==
    CASE told = None -> "given"
      [] told = "missing" /\ case.optional -> "nothing"
      [] OTHER -> told

\* The first failure is the one under way, and "missing" is the truth.
Telling ==
    /\ case \in Cases
    /\ Judging
    /\ pc \in ReaderSteps => ~Writes
    /\ ~Writes => ~left
    /\ pc = "note" => how.before \/ how.after
    /\ name = None \/ case.parent = None => gone
    /\ pc \in ReaderSteps \cup WriterSteps => first = None /\ told = None
    /\ told \in Codes \cup {None}
    /\ Careful => told = first
    /\ told = "missing" /\ case.optional => gone
    /\ pc \in ReaderSteps \cup WriterSteps \cup {"release", "tidied", "done", "dead"}
    /\ pc = "done" => outcome = Conclusion

LEMMA TellingInit == Init => Telling
  <1> SUFFICES ASSUME Init PROVE Telling
    OBVIOUS
  <1>1. Judging
    BY DEF Init, Judging, ComposeAll, Verdicts
  <1>2. pc \in {"look", "note", "open"} /\ (pc = "look" <=> Writes)
        /\ (pc = "note" => how.before \/ how.after)
    BY DEF Init
  <1>3. case \in Cases /\ first = None /\ told = None /\ ~left
    BY DEF Init
  <1>4. name = None \/ case.parent = None => gone
    BY DEF Init
  <1> QED
    BY <1>1, <1>2, <1>3, <1>4 DEF Telling, ReaderSteps, WriterSteps, None

\* A failure on the way, and going on.
LEMMA TellingFails ==
    ASSUME Telling, UNCHANGED <<case, name, gone, left, scan>>, NEW code \in Codes,
           code = "missing" /\ case.optional => gone,
           pc \in ReaderSteps \cup WriterSteps, Fails(code)
    PROVE  Telling'
  <1>1. UNCHANGED <<how, Writes, Careful, Judging>>
    BY DEF how, Writes, Careful, Judging
  <1>2. None \notin Codes
    BY DEF None, Codes
  <1> QED
    BY <1>1, <1>2 DEF Telling, Fails, ReaderSteps, WriterSteps

LEMMA TellingGoes ==
    ASSUME Telling, UNCHANGED <<case, failing>>, pc' # "note" \/ pc = "note",
           pc \in ReaderSteps => pc' \in ReaderSteps \cup {"release"},
           pc \in WriterSteps => pc' \in WriterSteps \cup {"release", "dead"},
           pc \in {"release", "tidied", "dead"} => pc' \in {pc, "dead"},
           pc = "done" => pc' = "done" /\ UNCHANGED outcome,
           ~Writes => UNCHANGED left,
           name' = None => gone', gone => gone',
           Judging'
    PROVE  Telling'
  <1>1. UNCHANGED <<how, Writes, Careful>>
    BY DEF how, Writes, Careful
  <1>2. UNCHANGED Conclusion
    BY DEF Conclusion, failing
  <1> QED
    BY <1>1, <1>2 DEF Telling, failing, ReaderSteps, WriterSteps

LEMMA TellingNext == Held /\ Telling /\ [Next]_vars => Telling'
  <1> SUFFICES ASSUME Held, Telling, [Next]_vars PROVE Telling'
    OBVIOUS
  <1> USE DEF Goes
  <1>1. CASE Interrupt
    <2>1. CASE \E code \in {"io"} : Fails(code)
      <3>1. UNCHANGED <<case, name, gone, left, scan>> /\ pc \in ReaderSteps \cup WriterSteps
        BY <1>1, <2>1 DEF Interrupt, Fails, place, writing, reading, handles, ReaderSteps, WriterSteps
      <3>2. {"io"} \subseteq Codes \ {"missing"}
        BY DEF Codes
      <3> QED
        BY <2>1, <3>1, <3>2, TellingFails
    <2>2. CASE ~\E code \in {"io"} : Fails(code)
      <3>1. Judging'
        BY <1>1, <2>2 DEF Interrupt, Telling, Judging, place, writing, reading
      <3> QED
        BY <1>1, <2>2, <3>1, TellingGoes DEF Interrupt, After, Telling, Held, place, writing, reading, handles, failing, ReaderSteps, WriterSteps
    <2> QED
      BY <2>1, <2>2
  <1>2. CASE Stat
    <2>1. CASE \E code \in {"unsafe", "changed", "bytes"} : Fails(code)
      <3>1. UNCHANGED <<case, name, gone, left, scan>> /\ pc \in ReaderSteps \cup WriterSteps
        BY <1>2, <2>1 DEF Stat, Fails, place, writing, reading, handles, ReaderSteps, WriterSteps
      <3>2. {"unsafe", "changed", "bytes"} \subseteq Codes \ {"missing"}
        BY DEF Codes
      <3> QED
        BY <2>1, <3>1, <3>2, TellingFails
    <2>2. CASE ~\E code \in {"unsafe", "changed", "bytes"} : Fails(code)
      <3>1. Judging'
        BY <1>2, <2>2 DEF Stat, Telling, Judging, place, writing, reading
      <3> QED
        BY <1>2, <2>2, <3>1, TellingGoes DEF Stat, After, Telling, Held, place, writing, reading, handles, failing, ReaderSteps, WriterSteps
    <2> QED
      BY <2>1, <2>2
  <1>3. CASE Verify
    <2>1. CASE \E code \in {"changed", "bytes"} : Fails(code)
      <3>1. UNCHANGED <<case, name, gone, left, scan>> /\ pc \in ReaderSteps \cup WriterSteps
        BY <1>3, <2>1 DEF Verify, Fails, place, writing, reading, handles, ReaderSteps, WriterSteps
      <3>2. {"changed", "bytes"} \subseteq Codes \ {"missing"}
        BY DEF Codes
      <3> QED
        BY <2>1, <3>1, <3>2, TellingFails
    <2>2. CASE ~\E code \in {"changed", "bytes"} : Fails(code)
      <3>1. Judging'
        BY <1>3, <2>2 DEF Verify, Telling, Judging, place, writing, reading
      <3> QED
        BY <1>3, <2>2, <3>1, TellingGoes DEF Verify, After, Telling, Held, place, writing, reading, handles, failing, ReaderSteps, WriterSteps
    <2> QED
      BY <2>1, <2>2
  <1>4. CASE Part
    <2>1. CASE \E code \in {"bytes"} : Fails(code)
      <3>1. UNCHANGED <<case, name, gone, left, scan>> /\ pc \in ReaderSteps \cup WriterSteps
        BY <1>4, <2>1 DEF Part, Fails, place, writing, reading, handles, ReaderSteps, WriterSteps
      <3>2. {"bytes"} \subseteq Codes \ {"missing"}
        BY DEF Codes
      <3> QED
        BY <2>1, <3>1, <3>2, TellingFails
    <2>2. CASE ~\E code \in {"bytes"} : Fails(code)
      <3>1. Judging'
        BY <1>4, <2>2 DEF Part, Telling, Judging, place, writing, reading
      <3> QED
        BY <1>4, <2>2, <3>1, TellingGoes DEF Part, After, Telling, Held, place, writing, reading, handles, failing, ReaderSteps, WriterSteps
    <2> QED
      BY <2>1, <2>2
  <1>5. CASE EndOfFile
    <2>1. CASE \E code \in {"changed", "invalid"} : Fails(code)
      <3>1. UNCHANGED <<case, name, gone, left, scan>> /\ pc \in ReaderSteps \cup WriterSteps
        BY <1>5, <2>1 DEF EndOfFile, Fails, place, writing, reading, handles, ReaderSteps, WriterSteps
      <3>2. {"changed", "invalid"} \subseteq Codes \ {"missing"}
        BY DEF Codes
      <3> QED
        BY <2>1, <3>1, <3>2, TellingFails
    <2>2. CASE ~\E code \in {"changed", "invalid"} : Fails(code)
      <3>1. Judging'
        BY <1>5, <2>2 DEF EndOfFile, Telling, Judging, place, writing, reading
      <3> QED
        BY <1>5, <2>2, <3>1, TellingGoes DEF EndOfFile, After, Telling, Held, place, writing, reading, handles, failing, ReaderSteps, WriterSteps
    <2> QED
      BY <2>1, <2>2
  <1>6. CASE Shut
    <2>1. CASE \E code \in {"invalid", "io"} : Fails(code)
      <3>1. UNCHANGED <<case, name, gone, left, scan>> /\ pc \in ReaderSteps \cup WriterSteps
        BY <1>6, <2>1 DEF Shut, Fails, place, writing, reading, handles, ReaderSteps, WriterSteps
      <3>2. {"invalid", "io"} \subseteq Codes \ {"missing"}
        BY DEF Codes
      <3> QED
        BY <2>1, <3>1, <3>2, TellingFails
    <2>2. CASE ~\E code \in {"invalid", "io"} : Fails(code)
      <3>1. Judging'
        BY <1>6, <2>2 DEF Shut, Telling, Judging, place, writing, reading
      <3> QED
        BY <1>6, <2>2, <3>1, TellingGoes DEF Shut, After, Telling, Held, place, writing, reading, handles, failing, ReaderSteps, WriterSteps
    <2> QED
      BY <2>1, <2>2
  <1>7. CASE ValidateState
    <2>1. CASE \E code \in {"invalid"} : Fails(code)
      <3>1. UNCHANGED <<case, name, gone, left, scan>> /\ pc \in ReaderSteps \cup WriterSteps
        BY <1>7, <2>1 DEF ValidateState, Fails, place, writing, reading, handles, ReaderSteps, WriterSteps
      <3>2. {"invalid"} \subseteq Codes \ {"missing"}
        BY DEF Codes
      <3> QED
        BY <2>1, <3>1, <3>2, TellingFails
    <2>2. CASE ~\E code \in {"invalid"} : Fails(code)
      <3>1. Judging'
        BY <1>7, <2>2 DEF ValidateState, Telling, Judging, place, writing, reading
      <3> QED
        BY <1>7, <2>2, <3>1, TellingGoes DEF ValidateState, After, Telling, Held, place, writing, reading, handles, failing, ReaderSteps, WriterSteps
    <2> QED
      BY <2>1, <2>2
  <1>8. CASE Probe
    <2>1. CASE \E code \in {"refused"} : Fails(code)
      <3>1. UNCHANGED <<case, name, gone, left, scan>> /\ pc \in ReaderSteps \cup WriterSteps
        BY <1>8, <2>1 DEF Probe, Fails, place, writing, reading, handles, ReaderSteps, WriterSteps
      <3>2. {"refused"} \subseteq Codes \ {"missing"}
        BY DEF Codes
      <3> QED
        BY <2>1, <3>1, <3>2, TellingFails
    <2>2. CASE ~\E code \in {"refused"} : Fails(code)
      <3>1. Judging'
        BY <1>8, <2>2 DEF Probe, Telling, Judging, place, writing, reading
      <3> QED
        BY <1>8, <2>2, <3>1, TellingGoes DEF Probe, After, Telling, Held, place, writing, reading, handles, failing, ReaderSteps, WriterSteps
    <2> QED
      BY <2>1, <2>2
  <1>9. CASE SendPart
    <2>1. CASE \E code \in {"refused"} : Fails(code)
      <3>1. UNCHANGED <<case, name, gone, left, scan>> /\ pc \in ReaderSteps \cup WriterSteps
        BY <1>9, <2>1 DEF SendPart, Fails, place, writing, reading, handles, ReaderSteps, WriterSteps
      <3>2. {"refused"} \subseteq Codes \ {"missing"}
        BY DEF Codes
      <3> QED
        BY <2>1, <3>1, <3>2, TellingFails
    <2>2. CASE ~\E code \in {"refused"} : Fails(code)
      <3>1. Judging'
        BY <1>9, <2>2 DEF SendPart, Telling, Judging, place, writing, reading
      <3> QED
        BY <1>9, <2>2, <3>1, TellingGoes DEF SendPart, After, Telling, Held, place, writing, reading, handles, failing, ReaderSteps, WriterSteps
    <2> QED
      BY <2>1, <2>2
  <1>10. CASE Sent
    <2>1. CASE \E code \in {"refused"} : Fails(code)
      <3>1. UNCHANGED <<case, name, gone, left, scan>> /\ pc \in ReaderSteps \cup WriterSteps
        BY <1>10, <2>1 DEF Sent, Fails, place, writing, reading, handles, ReaderSteps, WriterSteps
      <3>2. {"refused"} \subseteq Codes \ {"missing"}
        BY DEF Codes
      <3> QED
        BY <2>1, <3>1, <3>2, TellingFails
    <2>2. CASE ~\E code \in {"refused"} : Fails(code)
      <3>1. Judging'
        BY <1>10, <2>2 DEF Sent, Telling, Judging, place, writing, reading
      <3> QED
        BY <1>10, <2>2, <3>1, TellingGoes DEF Sent, After, Telling, Held, place, writing, reading, handles, failing, ReaderSteps, WriterSteps
    <2> QED
      BY <2>1, <2>2
  <1>11. CASE VerifyDeploy
    <2>1. CASE \E code \in {"refused"} : Fails(code)
      <3>1. UNCHANGED <<case, name, gone, left, scan>> /\ pc \in ReaderSteps \cup WriterSteps
        BY <1>11, <2>1 DEF VerifyDeploy, Fails, place, writing, reading, handles, ReaderSteps, WriterSteps
      <3>2. {"refused"} \subseteq Codes \ {"missing"}
        BY DEF Codes
      <3> QED
        BY <2>1, <3>1, <3>2, TellingFails
    <2>2. CASE ~\E code \in {"refused"} : Fails(code)
      <3>1. Judging'
        BY <1>11, <2>2 DEF VerifyDeploy, Telling, Judging, place, writing, reading
      <3> QED
        BY <1>11, <2>2, <3>1, TellingGoes DEF VerifyDeploy, After, Telling, Held, place, writing, reading, handles, failing, ReaderSteps, WriterSteps
    <2> QED
      BY <2>1, <2>2
  <1>12. CASE Inspect
    <2>1. CASE \E code \in {"io", "unsafe"} : Fails(code)
      <3>1. UNCHANGED <<case, name, gone, left, scan>> /\ pc \in ReaderSteps \cup WriterSteps
        BY <1>12, <2>1 DEF Inspect, Fails, place, writing, reading, handles, ReaderSteps, WriterSteps
      <3>2. {"io", "unsafe"} \subseteq Codes \ {"missing"}
        BY DEF Codes
      <3> QED
        BY <2>1, <3>1, <3>2, TellingFails
    <2>2. CASE ~\E code \in {"io", "unsafe"} : Fails(code)
      <3>1. Judging'
        BY <1>12, <2>2 DEF Inspect, Telling, Judging, place, writing, reading
      <3> QED
        BY <1>12, <2>2, <3>1, TellingGoes DEF Inspect, After, Telling, Held, place, writing, reading, handles, failing, ReaderSteps, WriterSteps
    <2> QED
      BY <2>1, <2>2
  <1>13. CASE Shed
    <2>1. CASE \E code \in {"io"} : Fails(code)
      <3>1. UNCHANGED <<case, name, gone, left, scan>> /\ pc \in ReaderSteps \cup WriterSteps
        BY <1>13, <2>1 DEF Shed, Fails, place, writing, reading, handles, ReaderSteps, WriterSteps
      <3>2. {"io"} \subseteq Codes \ {"missing"}
        BY DEF Codes
      <3> QED
        BY <2>1, <3>1, <3>2, TellingFails
    <2>2. CASE ~\E code \in {"io"} : Fails(code)
      <3>1. Judging'
        BY <1>13, <2>2 DEF Shed, Telling, Judging, place, writing, reading
      <3> QED
        BY <1>13, <2>2, <3>1, TellingGoes DEF Shed, After, Telling, Held, place, writing, reading, handles, failing, ReaderSteps, WriterSteps
    <2> QED
      BY <2>1, <2>2
  <1>14. CASE CallFails
    <2>1. CASE \E code \in {"io"} : Fails(code)
      <3>1. UNCHANGED <<case, name, gone, left, scan>> /\ pc \in ReaderSteps \cup WriterSteps
        BY <1>14, <2>1 DEF CallFails, Fails, place, writing, reading, handles, ReaderSteps, WriterSteps
      <3>2. {"io"} \subseteq Codes \ {"missing"}
        BY DEF Codes
      <3> QED
        BY <2>1, <3>1, <3>2, TellingFails
    <2>2. CASE ~\E code \in {"io"} : Fails(code)
      <3>1. Judging'
        BY <1>14, <2>2 DEF CallFails, Telling, Judging, place, writing, reading
      <3> QED
        BY <1>14, <2>2, <3>1, TellingGoes DEF CallFails, After, Telling, Held, place, writing, reading, handles, failing, ReaderSteps, WriterSteps
    <2> QED
      BY <2>1, <2>2
  <1>15. CASE Look
    <2>1. CASE \E code \in {"io", "exists", "unsafe"} : Fails(code)
      <3>1. UNCHANGED <<case, name, gone, left, scan>> /\ pc \in ReaderSteps \cup WriterSteps
        BY <1>15, <2>1 DEF Look, Fails, place, writing, reading, handles, ReaderSteps, WriterSteps
      <3>2. {"io", "exists", "unsafe"} \subseteq Codes \ {"missing"}
        BY DEF Codes
      <3> QED
        BY <2>1, <3>1, <3>2, TellingFails
    <2>2. CASE ~\E code \in {"io", "exists", "unsafe"} : Fails(code)
      <3>1. Judging'
        BY <1>15, <2>2 DEF Look, Telling, Judging, place, writing, reading
      <3> QED
        BY <1>15, <2>2, <3>1, TellingGoes DEF Look, After, Telling, Held, place, writing, reading, handles, failing, ReaderSteps, WriterSteps
    <2> QED
      BY <2>1, <2>2
  <1>16. CASE Create
    <2>1. CASE \E code \in {"io"} : Fails(code)
      <3>1. UNCHANGED <<case, name, gone, left, scan>> /\ pc \in ReaderSteps \cup WriterSteps
        BY <1>16, <2>1 DEF Create, Fails, place, writing, reading, handles, ReaderSteps, WriterSteps
      <3>2. {"io"} \subseteq Codes \ {"missing"}
        BY DEF Codes
      <3> QED
        BY <2>1, <3>1, <3>2, TellingFails
    <2>2. CASE ~\E code \in {"io"} : Fails(code)
      <3>1. Judging'
        BY <1>16, <2>2 DEF Create, Telling, Judging, place, writing, reading
      <3> QED
        BY <1>16, <2>2, <3>1, TellingGoes DEF Create, After, Telling, Held, place, writing, reading, handles, failing, ReaderSteps, WriterSteps
    <2> QED
      BY <2>1, <2>2
  <1>17. CASE Fill
    <2>1. CASE \E code \in {"io", "refused", "bytes"} : Fails(code)
      <3>1. UNCHANGED <<case, name, gone, left, scan>> /\ pc \in ReaderSteps \cup WriterSteps
        BY <1>17, <2>1 DEF Fill, Fails, place, writing, reading, handles, ReaderSteps, WriterSteps
      <3>2. {"io", "refused", "bytes"} \subseteq Codes \ {"missing"}
        BY DEF Codes
      <3> QED
        BY <2>1, <3>1, <3>2, TellingFails
    <2>2. CASE ~\E code \in {"io", "refused", "bytes"} : Fails(code)
      <3>1. Judging'
        BY <1>17, <2>2 DEF Fill, Telling, Judging, place, writing, reading
      <3> QED
        BY <1>17, <2>2, <3>1, TellingGoes DEF Fill, After, Telling, Held, place, writing, reading, handles, failing, ReaderSteps, WriterSteps
    <2> QED
      BY <2>1, <2>2
  <1>18. CASE Seal
    <2>1. CASE \E code \in {"io"} : Fails(code)
      <3>1. UNCHANGED <<case, name, gone, left, scan>> /\ pc \in ReaderSteps \cup WriterSteps
        BY <1>18, <2>1 DEF Seal, Fails, place, writing, reading, handles, ReaderSteps, WriterSteps
      <3>2. {"io"} \subseteq Codes \ {"missing"}
        BY DEF Codes
      <3> QED
        BY <2>1, <3>1, <3>2, TellingFails
    <2>2. CASE ~\E code \in {"io"} : Fails(code)
      <3>1. Judging'
        BY <1>18, <2>2 DEF Seal, Telling, Judging, place, writing, reading
      <3> QED
        BY <1>18, <2>2, <3>1, TellingGoes DEF Seal, After, Telling, Held, place, writing, reading, handles, failing, ReaderSteps, WriterSteps
    <2> QED
      BY <2>1, <2>2
  <1>19. CASE Publish
    <2>1. CASE \E code \in {"io", "exists"} : Fails(code)
      <3>1. UNCHANGED <<case, name, gone, left, scan>> /\ pc \in ReaderSteps \cup WriterSteps
        BY <1>19, <2>1 DEF Publish, Fails, place, writing, reading, handles, ReaderSteps, WriterSteps
      <3>2. {"io", "exists"} \subseteq Codes \ {"missing"}
        BY DEF Codes
      <3> QED
        BY <2>1, <3>1, <3>2, TellingFails
    <2>2. CASE ~\E code \in {"io", "exists"} : Fails(code)
      <3>1. Judging'
        BY <1>19, <2>2 DEF Publish, Telling, Judging, place, writing, reading
      <3> QED
        BY <1>19, <2>2, <3>1, CasesAssumption, TellingGoes DEF Publish, After, Telling, Held, place, writing, reading, handles, failing, ReaderSteps, WriterSteps
    <2> QED
      BY <2>1, <2>2
  <1>20. CASE Settle
    <2>1. CASE \E code \in {"durability"} : Fails(code)
      <3>1. UNCHANGED <<case, name, gone, left, scan>> /\ pc \in ReaderSteps \cup WriterSteps
        BY <1>20, <2>1 DEF Settle, Fails, place, writing, reading, handles, ReaderSteps, WriterSteps
      <3>2. {"durability"} \subseteq Codes \ {"missing"}
        BY DEF Codes
      <3> QED
        BY <2>1, <3>1, <3>2, TellingFails
    <2>2. CASE ~\E code \in {"durability"} : Fails(code)
      <3>1. Judging'
        BY <1>20, <2>2 DEF Settle, Telling, Judging, place, writing, reading
      <3> QED
        BY <1>20, <2>2, <3>1, TellingGoes DEF Settle, After, Telling, Held, place, writing, reading, handles, failing, ReaderSteps, WriterSteps
    <2> QED
      BY <2>1, <2>2
  <1>21. CASE Kill
    <2>1. Judging'
      BY <1>21 DEF Kill, Changes, Telling, Judging, place, writing, reading
    <2> QED
      BY <1>21, <2>1, TellingGoes DEF Kill, Changes, Telling, Held, place, writing, reading, handles, failing, ReaderSteps, WriterSteps
  <1>22. CASE Replace
    <2>1. Judging'
      BY <1>22 DEF Replace, Changes, Telling, Judging, place, writing, reading
    <2> QED
      BY <1>22, <2>1, TellingGoes DEF Replace, Changes, Telling, Held, place, writing, reading, handles, failing, ReaderSteps, WriterSteps
  <1>23. CASE Edit
    <2>1. Judging'
      BY <1>23 DEF Edit, Changes, Telling, Judging, place, writing, reading
    <2> QED
      BY <1>23, <2>1, TellingGoes DEF Edit, Changes, Telling, Held, place, writing, reading, handles, failing, ReaderSteps, WriterSteps
  <1>24. CASE Note
    <2>1. pc = "note" /\ UNCHANGED <<case, name, gone, left, scan>>
      BY <1>24 DEF Note, place, writing
    <2>2. CASE Fails("missing") \/ Fails("unsafe")
      <3>1. {"missing", "unsafe"} \subseteq Codes /\ "note" \in ReaderSteps
        BY DEF Codes, ReaderSteps
      <3>2. ~case.optional
        BY <2>1, CasesAssumption DEF Telling, how
      <3> QED
        BY <2>1, <2>2, <3>1, <3>2, TellingFails
    <2>3. CASE pc' = "open" /\ UNCHANGED failing
      BY <1>24, <2>1, <2>3, TellingGoes DEF Telling, Judging, failing, writing, ReaderSteps, WriterSteps
    <2> QED
      BY <1>24, <2>2, <2>3 DEF Note
  <1>25. CASE Open
    <2>1. pc = "open" /\ UNCHANGED <<case, name, gone, left, scan>>
      BY <1>25 DEF Open, place, writing
    <2>2. CASE Refuses(at) # None
      <3>1. Refuses(at) \in {None, "missing", "unsafe"}
        BY DEF Refuses
      <3>2. Refuses(at) \in Codes /\ "open" \in ReaderSteps
        BY <2>2, <3>1 DEF Codes, ReaderSteps
      <3>3. Refuses(at) = "missing" => gone
        <4>1. Refuses(at) = "missing" => name = None \/ case.parent = None
          BY DEF Refuses, Hindered, Kind, None
        <4> QED
          BY <4>1 DEF Telling
      <3> QED
        BY <1>25, <2>1, <2>2, <3>2, <3>3, TellingFails DEF Open
    <2>3. CASE Refuses(at) = None
      <3>1. pc' \in {"inspect", "shed", "stat", "open"} /\ UNCHANGED failing
        BY <1>25, <2>3 DEF Open, After
      <3> QED
        BY <2>1, <3>1, TellingGoes DEF Telling, Judging, failing, writing, ReaderSteps, WriterSteps
    <2> QED
      BY <2>2, <2>3
  <1>26. CASE Compose
    <2>1. pc = "compose" /\ UNCHANGED <<case, name, gone, left>>
      BY <1>26 DEF Compose, place, writing
    <2>2. CASE \E code \in Verdicts \ {"open"} : Fails(code) /\ UNCHANGED scan
      <3>1. Verdicts \ {"open"} \subseteq Codes \ {"missing"} /\ "compose" \in ReaderSteps
        BY DEF Codes, Verdicts, ReaderSteps
      <3> QED
        BY <2>1, <2>2, <3>1, TellingFails
    <2>3. CASE pc' \in {"compose", "schema", "validate"} /\ UNCHANGED failing /\ Judging'
      BY <2>1, <2>3, TellingGoes DEF Telling, ReaderSteps, WriterSteps
    <2>4. CASE scan.verdict # "open"
      BY <1>26, <2>2, <2>4 DEF Compose, Telling, Judging
    <2>5. CASE scan.verdict = "open" /\ scan.todo # <<>>
      <3>1. Judging'
        BY <1>26, <2>5, JudgingNext DEF Compose, NextOfDocument, Telling, Judging
      <3> QED
        BY <1>26, <2>1, <2>3, <2>5, <3>1 DEF Compose
    <2>6. CASE scan.verdict = "open" /\ scan.todo = <<>>
      <3>1. Judging' \/ ~case.document.mapping
        BY <1>26, <2>6 DEF Compose, Telling, Judging, ValidateAll, Verdicts
      <3> QED
        BY <1>26, <2>2, <2>3, <2>6, <3>1 DEF Compose, Verdicts
    <2> QED
      BY <2>4, <2>5, <2>6
  <1>27. CASE Validate
    <2>1. pc = "validate" /\ UNCHANGED <<case, name, gone, left>>
      BY <1>27 DEF Validate, place, writing
    <2>2. CASE scan.verdict # "open"
      <3>1. Verdicts \ {"open"} \subseteq Codes \ {"missing"} /\ "validate" \in ReaderSteps
        BY DEF Codes, Verdicts, ReaderSteps
      <3>2. scan.verdict \in Verdicts \ {"open"}
        BY <2>2 DEF Telling, Judging
      <3> QED
        BY <1>27, <2>1, <2>2, <3>1, <3>2, TellingFails DEF Validate
    <2>3. CASE scan.verdict = "open"
      <3>1. Judging' /\ pc' \in {"validate", "release"} /\ UNCHANGED failing
        BY <1>27, <2>3, JudgingNext DEF Validate, Telling, Judging
      <3> QED
        BY <2>1, <3>1, TellingGoes DEF Telling, ReaderSteps, WriterSteps
    <2> QED
      BY <2>2, <2>3
  <1>28. CASE Release
    <2>1. /\ pc = "release" /\ pc' = pc
          /\ UNCHANGED <<case, name, gone, left, scan, how, Writes, Careful>>
      BY <1>28 DEF Release, place, writing, how, Writes, Careful
    <2>2. CASE UNCHANGED failing
      BY <2>1, <2>2 DEF Telling, Judging, failing, ReaderSteps, WriterSteps
    <2>3. CASE /\ first' = IF first = None THEN "io" ELSE first
               /\ told' \in {Told, "io"}
               /\ Careful => told' = Told
      <3>1. Told \in {told, "io"} /\ Told # None
        BY DEF Told, None
      <3>2. Careful => Told = IF told # None THEN told ELSE "io"
        BY DEF Told
      <3>3. "io" \in Codes
        BY DEF Codes
      <3> QED
        BY <2>1, <2>3, <3>1, <3>2, <3>3 DEF Telling, Judging, ReaderSteps, WriterSteps
    <2> QED
      <3>1. Careful => how.use # "state"
        BY DEF Careful
      <3> QED
        BY <1>28, <2>2, <2>3, <3>1 DEF Release
  <1>29. CASE Tidy
    <2>1. /\ left /\ Writes /\ pc = "release"
          /\ UNCHANGED <<case, name, gone, scan, how, Writes, Careful>>
      BY <1>29 DEF Tidy, Telling, place, how, Writes, Careful
    <2>2. ~Careful
      BY <2>1 DEF Careful
    <2>3. "io" \in Codes
      BY DEF Codes
    <2> QED
      BY <1>29, <2>1, <2>2, <2>3 DEF Tidy, Telling, Judging, failing, ReaderSteps, WriterSteps
  <1>30. CASE Conclude
    <2>1. /\ pc \in {"release", "tidied"} /\ pc' = "done" /\ outcome' = Conclusion
          /\ UNCHANGED <<case, name, gone, left, scan, first, told, how, Writes, Careful>>
      BY <1>30 DEF Conclude, Conclusion, place, writing, failing, how, Writes, Careful
    <2>2. UNCHANGED Conclusion
      BY <2>1 DEF Conclusion
    <2> QED
      BY <2>1, <2>2 DEF Telling, Judging, ReaderSteps, WriterSteps
  <1>31. CASE UNCHANGED vars
    BY <1>31 DEF vars, place, writing, failing, reading, Telling, Judging, Conclusion, how, Writes, Careful
  <1> QED
    BY <1>1, <1>2, <1>3, <1>4, <1>5, <1>6, <1>7, <1>8, <1>9, <1>10, <1>11, <1>12, <1>13, <1>14, <1>15, <1>16, <1>17, <1>18, <1>19, <1>20, <1>21, <1>22, <1>23, <1>24, <1>25, <1>26, <1>27, <1>28, <1>29, <1>30, <1>31 DEF Next

\* The failure under way is the first, and it is the truth.
THEOREM TellingAlways == Spec => []Telling
  <1>1. Held /\ Telling /\ [Next]_vars => Telling'
    BY TellingNext
  <1> QED
    BY <1>1, TellingInit, HeldAlways, PTL DEF Spec

(***************************************************************************)
(* A document's reader tells what has failed first, and answers "nothing"  *)
(* only if the file was not there, whatever fails after that.              *)
(***************************************************************************)
THEOREM FirstFailureIsToldAlways == Spec => []FirstFailureIsTold
  <1>1. Telling => FirstFailureIsTold
    <2> SUFFICES ASSUME Telling, pc = "done" PROVE FirstFailureIsTold
      BY DEF FirstFailureIsTold
    <2>1. outcome = Conclusion /\ told \in Codes \cup {None}
      BY DEF Telling
    <2>2. {"given", "nothing", None} \cap Codes = {}
      BY DEF Codes, None
    <2> QED
      BY <2>1, <2>2 DEF Conclusion, Telling, FirstFailureIsTold, None
  <1> QED
    BY <1>1, TellingAlways, PTL

-----------------------------------------------------------------------------
(* What a writer leaves open.                                              *)

Filing == {"create", "fill", "seal", "publish", "settle"}

\* The cache has its directory open until its temporary file is gone.
Clearing ==
    Writes /\ Fine =>
        /\ due \subseteq IF how = PersistCache THEN {1, Last} ELSE {Last}
        /\ how = PersistCache /\ (pc \in Filing \/ (pc = "release" /\ left)) => 1 \in due
        /\ pc = "look" => ~left
        /\ pc = "tidied" => left
        /\ Stranded => open = IF how = PersistCache THEN {1} ELSE {}

LEMMA ClearingInit == Init => Clearing
  BY DEF Init, Clearing, Stranded, Filing

LEMMA ClearingNext == Held /\ Telling /\ Clearing /\ [Next]_vars => Clearing'
  <1> SUFFICES ASSUME Held, Telling, Clearing, [Next]_vars PROVE Clearing'
    OBVIOUS
  <1>1. UNCHANGED <<how, Writes, Careful>>
    BY DEF Next, vars, Note, Open, Inspect, Shed, CallFails, Interrupt, Stat, Verify, Part, EndOfFile,
           Shut, Compose, Validate, ValidateState, Probe, SendPart, Sent, VerifyDeploy, Look, Create,
           Fill, Seal, Publish, Settle, Release, Tidy, Conclude, Kill, Replace, Edit, Changes,
           how, Writes, Careful
  <1> SUFFICES ASSUME Writes, Fine' PROVE Clearing'
    BY <1>1 DEF Clearing
  <1>2. ~Careful /\ ~unclosed' /\ pc \notin ReaderSteps
    BY <1>1 DEF Telling, Careful, Fine
  <1> USE DEF Goes, Fails
  <1>3. CASE Note \/ Open \/ Inspect \/ Shed \/ CallFails \/ Interrupt \/ Stat \/ Verify \/ Part
             \/ EndOfFile \/ Shut \/ Compose \/ Validate \/ ValidateState \/ Probe \/ SendPart
             \/ Sent \/ VerifyDeploy
    BY <1>2, <1>3 DEF Note, Open, Inspect, Shed, CallFails, Interrupt, Stat, Verify, Part, EndOfFile,
           Shut, Compose, Validate, ValidateState, Probe, SendPart, Sent, VerifyDeploy, ReaderSteps
  <1>4. CASE Look
    <2>1. DownloadTarget # PersistCache
      BY DEF DownloadTarget, PersistCache, PosixOpenRegular
    <2> QED
      BY <1>1, <1>2, <1>4, <2>1 DEF Look, Clearing, Fine, Stranded, Filing, Opened, writing, Last
  <1>5. CASE Create
    BY <1>1, <1>2, <1>5 DEF Create, Clearing, Fine, Stranded, Filing, Opened, Last
  <1>6. CASE Fill
    BY <1>1, <1>2, <1>6 DEF Fill, Clearing, Fine, Stranded, Filing, handles
  <1>7. CASE Seal
    BY <1>1, <1>2, <1>7 DEF Seal, Clearing, Fine, Stranded, Filing, handles, writing, Last
  <1>8. CASE Publish
    BY <1>1, <1>2, <1>8 DEF Publish, Clearing, Fine, Stranded, Filing, handles
  <1>9. CASE Settle
    BY <1>1, <1>2, <1>9 DEF Settle, Clearing, Fine, Stranded, Filing, handles, writing
  <1>10. CASE Release
    <2> DEFINE h == CHOOSE x \in due : \A y \in due : x >= y
    <2>1. /\ pc = "release" /\ pc' = pc /\ UNCHANGED left /\ (left => Last \in due)
          /\ due' = due \ {h} /\ Fine
      BY <1>1, <1>2, <1>10 DEF Release, Fine, writing
    <2>2. left => h # 1
      <3>1. due \subseteq 0 .. Last
        BY <2>1 DEF Held, HandlesFit
      <3>2. left => \A y \in due : h >= y
        <4>1. left => \A y \in due : Last >= y
          BY <3>1 DEF Last
        <4> QED
          BY <2>1, <4>1
      <3> QED
        BY <2>1, <3>2 DEF Last
    <2> HIDE DEF h
    <2> QED
      BY <1>1, <2>1, <2>2 DEF Clearing, Stranded, Filing
  <1>11. CASE Tidy
    <2>1. pc = "release" /\ left /\ Last \notin due /\ Fine /\ UNCHANGED open
      BY <1>1, <1>2, <1>11 DEF Tidy, Fine
    <2>2. open = IF how = PersistCache THEN {1} ELSE {}
      BY <2>1 DEF Clearing, Held, HandlesFit, Stranded
    <2> QED
      BY <1>1, <1>11, <2>1, <2>2 DEF Tidy, Clearing, Stranded, Filing
  <1>12. CASE Conclude
    BY <1>1, <1>2, <1>12 DEF Conclude, Clearing, Fine, Stranded, Filing, handles, writing
  <1>13. CASE Kill
    BY <1>1, <1>2, <1>13 DEF Kill, Clearing, Stranded, Filing
  <1>14. CASE Replace \/ Edit \/ UNCHANGED vars
    BY <1>1, <1>14 DEF Replace, Edit, Changes, vars, handles, writing, Clearing, Fine, Stranded, Filing
  <1> QED
    BY <1>3, <1>4, <1>5, <1>6, <1>7, <1>8, <1>9, <1>10, <1>11, <1>12, <1>13, <1>14 DEF Next

THEOREM ClearingAlways == Spec => []Clearing
  <1>1. Held /\ Telling /\ Clearing /\ [Next]_vars => Clearing'
    BY ClearingNext
  <1> QED
    BY <1>1, ClearingInit, HeldAlways, TellingAlways, PTL DEF Spec

(***************************************************************************)
(* Every handle is closed once, whatever fails, unless it is a close that  *)
(* the code does not think of, or the token cache cannot remove its        *)
(* temporary: then its directory stays open, and only that.                *)
(***************************************************************************)
THEOREM HandlesAreBalancedAlways == Spec => []HandlesAreBalanced
  <1>1. Held /\ Telling /\ Clearing => HandlesAreBalanced
    <2> SUFFICES ASSUME Held, Telling, Clearing, Fine PROVE HandlesAreBalanced
      BY DEF Fine, HandlesAreBalanced
    <2>1. left => Writes
      BY DEF Telling
    <2>2. how = PersistCache => Writes
      BY DEF Writes, Writers
    <2> QED
      BY <2>1, <2>2 DEF Held, HandlesFit, Stranded, Clearing, HandlesAreBalanced
  <1> QED
    BY <1>1, HeldAlways, TellingAlways, ClearingAlways, PTL

-----------------------------------------------------------------------------
(* What is put under the name.                                             *)

BeforePut == {"look", "create", "fill", "seal", "publish"}

\* Failures that say that nothing has happened.
Definite == {"exists", "refused", "bytes", "unsafe"}

Publishing ==
    /\ name \in File \cup {None, "link", "other"}
    /\ name = New => fill = "whole"
    /\ pc \in BeforePut => put = "no" /\ name # New /\ outcome = None
    /\ pc \in {"seal", "publish"} => fill = "whole"
    /\ pc = "settle" => put # "no"
    /\ how = DownloadTarget => put \in {"no", None}
    /\ ~Writes => put = "no"
    /\ Writes /\ told = None => pc \in BeforePut \cup {"dead"} \/ put # "no"
    /\ told \in Definite => put = "no"
    /\ Writes /\ outcome = "given" => put # "no"
    /\ outcome \in Definite => put = "no"

LEMMA PublishingInit == Init => Publishing
  <1> SUFFICES ASSUME Init PROVE Publishing
    OBVIOUS
  <1>1. name \in (File \ {New}) \cup {None, "link", "other"} /\ name # New
    BY CasesAssumption DEF Init
  <1>2. /\ put = "no" /\ told = None /\ outcome = None
        /\ pc \in {"look", "note", "open"} /\ (pc = "look" <=> Writes)
    BY DEF Init
  <1> QED
    BY <1>1, <1>2 DEF Publishing, BeforePut, Definite, None

\* A step that neither fills the file nor gives it the name.
LEMMA PublishingOnward ==
    ASSUME Telling, Publishing, UNCHANGED <<case, fill, put>>,
           name' = name \/ name' \in (File \cup {None}) \ {New},
           pc' \in BeforePut => pc \in BeforePut /\ UNCHANGED outcome,
           pc' \in {"seal", "publish"} => pc \in {"seal", "publish"},
           pc' = "settle" => pc = "settle",
           Writes /\ told' = None =>
               /\ told = None
               /\ pc' \in BeforePut \cup {"dead"} \/ pc \notin BeforePut \cup {"dead"},
           told' \in Definite => told \in Definite \/ put = "no",
           \/ outcome' \in {outcome, "killed"}
           \/ outcome' = Conclusion /\ pc \notin BeforePut \cup {"dead"}
    PROVE  Publishing'
  <1>1. UNCHANGED <<how, Writes>>
    BY DEF how, Writes
  <1>2. outcome' = Conclusion /\ pc \notin BeforePut \cup {"dead"} =>
            /\ Writes /\ outcome' = "given" => put # "no"
            /\ outcome' \in Definite => put = "no"
    <2>1. told \in Codes \cup {None} /\ "given" \notin Codes
      BY DEF Telling, Codes
    <2>2. Conclusion = "given" => told = None
      BY <2>1 DEF Conclusion
    <2>3. Conclusion \in Definite => told \in Definite
      BY DEF Conclusion, Definite
    <2> QED
      BY <2>2, <2>3 DEF Publishing
  <1>3. "killed" \notin Definite
    BY DEF Definite
  <1> QED
    BY <1>1, <1>2, <1>3 DEF Publishing

LEMMA PublishingNext == Held /\ Telling /\ Publishing /\ [Next]_vars => Publishing'
  <1> SUFFICES ASSUME Held, Telling, Publishing, [Next]_vars PROVE Publishing'
    OBVIOUS
  <1>a. /\ pc \in ReaderSteps => ~Writes
        /\ pc \in WriterSteps \cup ReaderSteps => told = None
        /\ put = "no" \/ Writes
    BY DEF Telling, Publishing
  <1> USE DEF Goes, Fails
  <1>1. CASE Note
    <2>1. /\ pc \in ReaderSteps /\ pc' \in ReaderSteps \cup {"release"}
          /\ UNCHANGED <<case, fill, put, name, outcome>>
      BY <1>1 DEF Note, place, handles, reading, writing, failing, ReaderSteps
    <2> QED
      BY <1>a, <2>1, PublishingOnward DEF ReaderSteps, BeforePut
  <1>2. CASE Open
    <2>1. /\ pc \in ReaderSteps /\ pc' \in ReaderSteps \cup {"release"}
          /\ UNCHANGED <<case, fill, put, name, outcome>>
      BY <1>2 DEF Open, After, place, handles, reading, writing, failing, ReaderSteps
    <2> QED
      BY <1>a, <2>1, PublishingOnward DEF ReaderSteps, BeforePut
  <1>3. CASE Inspect
    <2>1. /\ pc \in ReaderSteps /\ pc' \in ReaderSteps \cup {"release"}
          /\ UNCHANGED <<case, fill, put, name, outcome>>
      BY <1>3 DEF Inspect, After, place, handles, reading, writing, failing, ReaderSteps
    <2> QED
      BY <1>a, <2>1, PublishingOnward DEF ReaderSteps, BeforePut
  <1>4. CASE Shed
    <2>1. /\ pc \in ReaderSteps /\ pc' \in ReaderSteps \cup {"release"}
          /\ UNCHANGED <<case, fill, put, name, outcome>>
      BY <1>4 DEF Shed, place, handles, reading, writing, failing, ReaderSteps
    <2> QED
      BY <1>a, <2>1, PublishingOnward DEF ReaderSteps, BeforePut
  <1>5. CASE CallFails
    <2>1. /\ pc \in ReaderSteps /\ pc' \in ReaderSteps \cup {"release"}
          /\ UNCHANGED <<case, fill, put, name, outcome>>
      BY <1>5 DEF CallFails, place, handles, reading, writing, failing, ReaderSteps
    <2> QED
      BY <1>a, <2>1, PublishingOnward DEF ReaderSteps, BeforePut
  <1>6. CASE Interrupt
    <2>1. /\ pc \in ReaderSteps /\ pc' \in ReaderSteps \cup {"release"}
          /\ UNCHANGED <<case, fill, put, name, outcome>>
      BY <1>6 DEF Interrupt, place, handles, reading, writing, failing, ReaderSteps
    <2> QED
      BY <1>a, <2>1, PublishingOnward DEF ReaderSteps, BeforePut
  <1>7. CASE Stat
    <2>1. /\ pc \in ReaderSteps /\ pc' \in ReaderSteps \cup {"release"}
          /\ UNCHANGED <<case, fill, put, name, outcome>>
      BY <1>7 DEF Stat, place, handles, reading, writing, failing, ReaderSteps
    <2> QED
      BY <1>a, <2>1, PublishingOnward DEF ReaderSteps, BeforePut
  <1>8. CASE Verify
    <2>1. /\ pc \in ReaderSteps /\ pc' \in ReaderSteps \cup {"release"}
          /\ UNCHANGED <<case, fill, put, name, outcome>>
      BY <1>8 DEF Verify, place, handles, reading, writing, failing, ReaderSteps
    <2> QED
      BY <1>a, <2>1, PublishingOnward DEF ReaderSteps, BeforePut
  <1>9. CASE Part
    <2>1. /\ pc \in ReaderSteps /\ pc' \in ReaderSteps \cup {"release"}
          /\ UNCHANGED <<case, fill, put, name, outcome>>
      BY <1>9 DEF Part, place, handles, reading, writing, failing, ReaderSteps
    <2> QED
      BY <1>a, <2>1, PublishingOnward DEF ReaderSteps, BeforePut
  <1>10. CASE EndOfFile
    <2>1. /\ pc \in ReaderSteps /\ pc' \in ReaderSteps \cup {"release"}
          /\ UNCHANGED <<case, fill, put, name, outcome>>
      BY <1>10 DEF EndOfFile, place, handles, reading, writing, failing, ReaderSteps
    <2> QED
      BY <1>a, <2>1, PublishingOnward DEF ReaderSteps, BeforePut
  <1>11. CASE Shut
    <2>1. /\ pc \in ReaderSteps /\ pc' \in ReaderSteps \cup {"release"}
          /\ UNCHANGED <<case, fill, put, name, outcome>>
      BY <1>11 DEF Shut, place, handles, reading, writing, failing, ReaderSteps
    <2> QED
      BY <1>a, <2>1, PublishingOnward DEF ReaderSteps, BeforePut
  <1>12. CASE Compose
    <2>1. /\ pc \in ReaderSteps /\ pc' \in ReaderSteps \cup {"release"}
          /\ UNCHANGED <<case, fill, put, name, outcome>>
      BY <1>12 DEF Compose, place, handles, reading, writing, failing, ReaderSteps
    <2> QED
      BY <1>a, <2>1, PublishingOnward DEF ReaderSteps, BeforePut
  <1>13. CASE Validate
    <2>1. /\ pc \in ReaderSteps /\ pc' \in ReaderSteps \cup {"release"}
          /\ UNCHANGED <<case, fill, put, name, outcome>>
      BY <1>13 DEF Validate, place, handles, reading, writing, failing, ReaderSteps
    <2> QED
      BY <1>a, <2>1, PublishingOnward DEF ReaderSteps, BeforePut
  <1>14. CASE ValidateState
    <2>1. /\ pc \in ReaderSteps /\ pc' \in ReaderSteps \cup {"release"}
          /\ UNCHANGED <<case, fill, put, name, outcome>>
      BY <1>14 DEF ValidateState, place, handles, reading, writing, failing, ReaderSteps
    <2> QED
      BY <1>a, <2>1, PublishingOnward DEF ReaderSteps, BeforePut
  <1>15. CASE Probe
    <2>1. /\ pc \in ReaderSteps /\ pc' \in ReaderSteps \cup {"release"}
          /\ UNCHANGED <<case, fill, put, name, outcome>>
      BY <1>15 DEF Probe, place, handles, reading, writing, failing, ReaderSteps
    <2> QED
      BY <1>a, <2>1, PublishingOnward DEF ReaderSteps, BeforePut
  <1>16. CASE SendPart
    <2>1. /\ pc \in ReaderSteps /\ pc' \in ReaderSteps \cup {"release"}
          /\ UNCHANGED <<case, fill, put, name, outcome>>
      BY <1>16 DEF SendPart, place, handles, reading, writing, failing, ReaderSteps
    <2> QED
      BY <1>a, <2>1, PublishingOnward DEF ReaderSteps, BeforePut
  <1>17. CASE Sent
    <2>1. /\ pc \in ReaderSteps /\ pc' \in ReaderSteps \cup {"release"}
          /\ UNCHANGED <<case, fill, put, name, outcome>>
      BY <1>17 DEF Sent, place, handles, reading, writing, failing, ReaderSteps
    <2> QED
      BY <1>a, <2>1, PublishingOnward DEF ReaderSteps, BeforePut
  <1>18. CASE VerifyDeploy
    <2>1. /\ pc \in ReaderSteps /\ pc' \in ReaderSteps \cup {"release"}
          /\ UNCHANGED <<case, fill, put, name, outcome>>
      BY <1>18 DEF VerifyDeploy, place, handles, reading, writing, failing, ReaderSteps
    <2> QED
      BY <1>a, <2>1, PublishingOnward DEF ReaderSteps, BeforePut
  <1>19. CASE Look
    BY <1>a, <1>19, PublishingOnward DEF Look, place, handles, reading, writing, failing, BeforePut, WriterSteps, Definite, Publishing, None
  <1>20. CASE Seal
    BY <1>a, <1>20, PublishingOnward DEF Seal, place, handles, reading, writing, failing, BeforePut, WriterSteps, Definite, Publishing, None
  <1>21. CASE Settle
    BY <1>a, <1>21, PublishingOnward DEF Settle, place, handles, reading, writing, failing, BeforePut, WriterSteps, Definite, Publishing, None
  <1>22. CASE Create
    <2>1. UNCHANGED <<how, Writes>>
      BY <1>22 DEF Create, how, Writes
    <2> QED
      BY <1>a, <1>22, <2>1 DEF Create, place, handles, reading, writing, failing, BeforePut, WriterSteps, Definite, Publishing, None
  <1>23. CASE Fill
    <2>1. UNCHANGED <<how, Writes>>
      BY <1>23 DEF Fill, how, Writes
    <2> QED
      BY <1>a, <1>23, <2>1 DEF Fill, place, handles, reading, writing, failing, BeforePut, WriterSteps, Definite, Publishing, None
  <1>24. CASE Publish
    <2>1. pc = "publish" /\ UNCHANGED <<case, fill, outcome, how, Writes>>
      BY <1>24 DEF Publish, how, Writes
    <2>2. CASE UNCHANGED <<name, put>> /\ pc' = "release" /\ told' # None
      BY <2>1, <2>2, PublishingOnward DEF Publishing, BeforePut
    <2>3. CASE Takes /\ name' = New /\ put' = name /\ pc' = "settle" /\ UNCHANGED failing
      <3>1. put' # "no" /\ New \in File
        BY <2>3, CasesAssumption DEF Publishing, None
      <3>2. how = DownloadTarget => put' = None
        <4>1. DownloadTarget # PersistCache
          <5>1. DownloadTarget.use = "download" /\ PersistCache.use = "persist"
            BY DEF DownloadTarget, PersistCache, PosixOpenRegular
          <5> QED
            BY <5>1
        <4> QED
          BY <2>3, <4>1 DEF Takes
      <3>3. Writes /\ told = None /\ outcome = None
        BY <2>1 DEF Held, Telling, Publishing, WriterSteps, BeforePut
      <3> QED
        BY <2>1, <2>3, <3>1, <3>2, <3>3 DEF Publishing, failing, BeforePut, Definite, None
    <2> QED
      BY <1>24, <2>2, <2>3 DEF Publish, None
  <1>25. CASE Release
    <2>1. /\ pc = "release" /\ pc' = pc
          /\ UNCHANGED <<case, fill, put, name, outcome>>
      BY <1>25 DEF Release, place, handles, reading, writing, failing
    <2>2. told' \in {told, "io"}
      BY <1>25 DEF Release, Told, failing
    <2> QED
      BY <2>1, <2>2, PublishingOnward DEF BeforePut, Definite, None
  <1>26. CASE Tidy
    <2>1. /\ pc = "release" /\ pc' \in {"release", "tidied"} /\ told' \in {told, "io"}
          /\ UNCHANGED <<case, fill, put, name, outcome>>
      BY <1>26 DEF Tidy, place, handles, reading, writing, failing
    <2> QED
      BY <2>1, PublishingOnward DEF BeforePut, Definite, None
  <1>27. CASE Conclude
    <2>1. /\ pc \in {"release", "tidied"} /\ pc' = "done" /\ outcome' = Conclusion
          /\ UNCHANGED <<case, fill, put, name, told>>
      BY <1>27 DEF Conclude, Conclusion, place, handles, reading, writing, failing
    <2> QED
      BY <2>1, PublishingOnward DEF BeforePut, Definite
  <1>28. CASE Kill
    BY <1>28, PublishingOnward DEF Kill, place, handles, reading, writing, failing, BeforePut
  <1>29. CASE Replace \/ Edit
    <2>1. /\ name' = name \/ name' \in (File \cup {None}) \ {New}
          /\ UNCHANGED <<case, fill, put, pc, told, outcome>>
      BY <1>29 DEF Replace, Edit, Changes, place, handles, reading, writing, failing
    <2> QED
      BY <2>1, PublishingOnward
  <1>30. CASE UNCHANGED vars
    <2>1. UNCHANGED <<case, fill, put, pc, told, outcome, name>>
      BY <1>30 DEF vars, place, handles, reading, writing, failing
    <2> QED
      BY <2>1, PublishingOnward
  <1> QED
    BY <1>1, <1>2, <1>3, <1>4, <1>5, <1>6, <1>7, <1>8, <1>9, <1>10, <1>11, <1>12, <1>13, <1>14, <1>15, <1>16, <1>17, <1>18, <1>19, <1>20, <1>21, <1>22, <1>23, <1>24, <1>25, <1>26, <1>27, <1>28, <1>29, <1>30 DEF Next

\* The name and the file of a writer are where the call says they are.
THEOREM PublishingAlways == Spec => []Publishing
  <1>1. Held /\ Telling /\ Publishing /\ [Next]_vars => Publishing'
    BY PublishingNext
  <1> QED
    BY <1>1, PublishingInit, HeldAlways, TellingAlways, PTL DEF Spec

(***************************************************************************)
(* A download or a token cache is whole under its name, replaces no file   *)
(* it should not, and is answered truthfully, whatever fails and whenever  *)
(* the process dies.                                                       *)
(***************************************************************************)
THEOREM PublishedIsWholeAlways == Spec => []PublishedIsWhole
  <1>1. Publishing => PublishedIsWhole
    BY DEF Publishing, PublishedIsWhole, Definite
  <1> QED
    BY <1>1, PublishingAlways, PTL

-----------------------------------------------------------------------------
(* What is given.                                                          *)

ParentOK == case.parent \in {"dir"} \cup (IF how.creates THEN {None} ELSE {})

\* Where the file is open and has been found to be the right one.
Through == {"verify", "read", "shut", "compose", "schema", "validate", "probe", "send", "verdict"}
Answered == pc \in {"release", "tidied", "done"} /\ told = None

\* What was read is of the revision the file has now.
Uniform == got # <<>> /\ Range(got) = {rev[held]}

\* No part is newer than the file; while it is of one revision, no more has been
\* read than there is, and at the end no less.
SoundReading ==
    /\ how.first = 0 /\ (at = Last \/ (at = 1 /\ pc = "shed")) => ParentOK
    /\ pc \in {"note", "open", "inspect", "shed", "stat", "verify"} => got = <<>>
    /\ pc \in {"stat"} \cup Through \/ Answered => at = Last
    /\ pc \in Through \/ Answered =>
         /\ held \in File /\ (how.before => held = noted) /\ Len(got) <= MaxBytes
         /\ \A i \in 1 .. Len(got) : got[i] <= rev[held]
    /\ pc \in Through \ {"verify"} \/ Answered => (how.after => held = noted)
    /\ pc = "read" /\ Uniform => Len(got) <= size[held]
    /\ pc \in Through \ {"verify", "read"} \/ Answered =>
         /\ Uniform => Len(got) = size[held]
         /\ how.exact => Len(got) = announced
    /\ pc \in {"shut", "compose", "schema", "validate"} => how.use # "upload"
    /\ Answered /\ how.use = "upload" => again = got

Sound ==
    /\ size \in [File -> Nat] /\ rev \in [File -> Nat] /\ got \in Seq(Nat)
    /\ outcome = "given" => pc = "done" /\ told = None
    /\ ~Writes => SoundReading

LEMMA SoundInit == Init => Sound
  <1> SUFFICES ASSUME Init PROVE Sound
    OBVIOUS
  <1>1. /\ case \in Cases /\ case.size \in Nat
        /\ size = [f \in File |-> case.size] /\ rev = [f \in File |-> 0]
        /\ got = <<>> /\ outcome = None
    BY CasesAssumption DEF Init, Size
  <1>2. ASSUME ~Writes PROVE SoundReading
    <2>1. pc \in {"note", "open"} /\ at = how.first
      BY <1>2 DEF Init
    <2>2. pc \notin {"stat"} \cup Through /\ ~Answered
      BY <2>1 DEF Through, Answered
    <2> QED
      BY <1>1, <2>1, <2>2 DEF SoundReading, Last, Through
  <1> QED
    BY <1>1, <1>2 DEF Sound, None

\* A step that neither reads nor goes on to another part of the call, or that
\* leaves it with a failure.
LEMMA SoundStays ==
    ASSUME Sound, UNCHANGED <<case, size, rev, at, noted, held, announced, got, again>>,
           \/ pc' = pc /\ told' = told
           \/ told' # None /\ pc' \in {"release", "tidied", "done"}
           \/ told' = told /\ {pc, pc'} \subseteq {"release", "tidied", "done"},
           outcome' = "given" => pc' = "done" /\ told' = None
    PROVE  Sound'
  <1>1. UNCHANGED <<how, Writes, ParentOK, Uniform>>
    BY DEF how, Writes, ParentOK, Uniform
  <1>2. ASSUME SoundReading PROVE SoundReading'
    <2>1. CASE pc' = pc /\ told' = told
      BY <1>1, <1>2, <2>1 DEF SoundReading, Answered
    <2>2. CASE told' # None /\ pc' \in {"release", "tidied", "done"}
      <3>1. ~Answered' /\ pc' \notin Through \cup {"stat"}
        BY <2>2 DEF Answered, Through
      <3> QED
        BY <1>1, <1>2, <2>2, <3>1 DEF SoundReading, Through
    <2>3. CASE told' = told /\ {pc, pc'} \subseteq {"release", "tidied", "done"}
      <3>1. Answered' = Answered /\ pc' \notin Through \cup {"stat"}
        BY <2>3 DEF Answered, Through
      <3> QED
        BY <1>1, <1>2, <2>3, <3>1 DEF SoundReading, Through
    <2> QED
      BY <2>1, <2>2, <2>3
  <1> QED
    BY <1>1, <1>2 DEF Sound

\* A writer's step: nothing of this is about it.
LEMMA SoundWriting ==
    ASSUME Sound, Writes, UNCHANGED <<case, size, rev, got>>,
           outcome' = "given" => pc' = "done" /\ told' = None
    PROVE  Sound'
  BY DEF Sound, Writes, how

\* The steps that open and look at what is open.
LEMMA SoundOpening ==
    ASSUME Held, Sound, ~Writes,
           Note \/ Open \/ Inspect \/ Shed \/ Stat \/ Verify
    PROVE  Sound'
  <1> USE DEF Goes, Fails
  <1>0. /\ UNCHANGED <<case, size, rev, outcome, again, got>>
        /\ UNCHANGED <<how, Writes, ParentOK>>
        /\ pc' # "done" /\ pc # "done"
    BY DEF Note, Open, Inspect, Shed, Stat, Verify, After, place, reading, how, Writes, ParentOK
  <1>1. /\ SoundReading /\ size \in [File -> Nat] /\ rev \in [File -> Nat] /\ got \in Seq(Nat)
        /\ outcome # "given"
    BY <1>0 DEF Sound
  <1>2. SUFFICES ASSUME told' = told, pc' # "release" PROVE SoundReading'
    <2>1. CASE told' = told /\ pc' # "release"
      BY <1>0, <1>1, <1>2, <2>1 DEF Sound
    <2>2. CASE ~(told' = told /\ pc' # "release")
      <3>1. pc' = "release" /\ told' # None
        BY <2>2 DEF Note, Open, Inspect, Shed, Stat, Verify, After, failing, Refuses, None
      <3>2. ~Answered' /\ pc' \notin Through \cup {"stat"} /\ pc' # "shed"
        BY <3>1 DEF Answered, Through
      <3>3. at' = at /\ pc \in {"note", "open", "inspect", "shed", "stat", "verify"}
        BY <3>1 DEF Note, Open, Inspect, Shed, Stat, Verify, After
      <3>4. at = Last => at' = Last /\ (how.first = 0 => ParentOK)
        BY <1>1, <3>3 DEF SoundReading
      <3>5. SoundReading'
        BY <1>0, <1>1, <3>1, <3>2, <3>3, <3>4 DEF SoundReading, Through
      <3> QED
        BY <1>0, <1>1, <3>5 DEF Sound
    <2> QED
      BY <2>1, <2>2
  <1>3. /\ case \in Cases /\ how.first \in 0 .. Last /\ how.keeps \in {1, Last}
        /\ (how.windows => ~how.creates) /\ at \in 0 .. Last
        /\ case.parent \in {"dir", None, "link", "other"}
        /\ pc \in {"note", "open", "inspect", "shed"} => at >= how.first
    BY Ways, CasesAssumption DEF Held, how, WayOK
  <1>4. CASE Note
    BY <1>0, <1>1, <1>2, <1>4 DEF Note, place, SoundReading, Through, Answered, None
  <1>5. CASE Open
    <2>1. pc = "open" /\ got = <<>> /\ Refuses(at) = None
      BY <1>1, <1>2, <1>5 DEF Open, SoundReading
    <2>2. pc' \in {"inspect", "shed", "stat", "open"} /\ ~Answered' /\ pc' \notin Through
      BY <1>2, <1>5 DEF Open, After, Answered, Through
    <2>3. how.first = 0 /\ at = 1 /\ ~how.windows => ParentOK
      BY <1>3, <2>1 DEF Refuses, Hindered, Kind, Last, ParentOK, None
    <2>4. pc' = "stat" => at' = Last
      BY <1>2, <1>5, <2>1, <2>2 DEF Open, After
    <2>5. \/ at' = at /\ (pc' = "shed" => ~how.windows)
          \/ at' = at + 1 /\ pc' = "open" /\ ~how.windows
             /\ ~(at > how.first /\ at <= how.keeps)
      BY <1>2, <1>3, <1>5, <2>1, <2>2 DEF Open, After
    <2>6. how.first = 0 /\ (at' = Last \/ (at' = 1 /\ pc' = "shed")) => ParentOK
      <3>1. at = Last /\ how.first = 0 => ParentOK
        BY <1>1 DEF SoundReading
      <3> QED
        BY <1>3, <2>3, <2>5, <3>1 DEF Last
    <2> QED
      BY <1>0, <1>1, <2>1, <2>2, <2>4, <2>6 DEF SoundReading, Through
  <1>6. CASE Inspect
    <2>1. pc = "inspect" /\ got = <<>> /\ After(at)
          /\ (at < Last => Kind(at) = "dir")
      BY <1>1, <1>2, <1>6 DEF Inspect, SoundReading
    <2>2. pc' \in {"shed", "stat", "open"} /\ ~Answered' /\ pc' \notin Through
      BY <2>1 DEF After, Answered, Through
    <2>3. at = 1 => ParentOK
      BY <2>1 DEF Kind, Last, ParentOK
    <2>4. at = Last /\ how.first = 0 => ParentOK
      BY <1>1 DEF SoundReading
    <2>5. pc' = "stat" => at' = Last
      BY <2>1 DEF After
    <2>6. at' = at \/ (at' = at + 1 /\ pc' = "open")
      BY <2>1 DEF After
    <2> QED
      BY <1>0, <1>1, <1>3, <2>1, <2>2, <2>3, <2>4, <2>5, <2>6
      DEF SoundReading, Through, Last
  <1>7. CASE Shed
    <2>1. pc = "shed" /\ got = <<>> /\ pc' = (IF at = Last THEN "stat" ELSE "open")
          /\ at' = (IF at = Last THEN at ELSE at + 1)
      BY <1>1, <1>2, <1>7 DEF Shed, SoundReading
    <2>2. at = Last \/ at = 1 => (how.first = 0 => ParentOK)
      BY <1>1, <2>1 DEF SoundReading
    <2>3. ~Answered' /\ pc' \notin Through
      BY <2>1 DEF Answered, Through
    <2> QED
      BY <1>0, <1>1, <1>3, <2>1, <2>2, <2>3 DEF SoundReading, Through, Last
  <1>8. CASE Stat
    <2>1. /\ pc = "stat" /\ got = <<>> /\ at = Last /\ at' = at /\ held' = held
          /\ noted' = noted /\ held \in File /\ (how.before => noted = held)
          /\ pc' \in {"verify", "read"} /\ (how.after => pc' = "verify")
      BY <1>1, <1>2, <1>8 DEF Stat, SoundReading
    <2>2. Len(got) = 0 /\ MaxBytes \in Nat /\ ~Answered' /\ ~Uniform'
      BY <1>0, <2>1, CasesAssumption DEF Answered, Uniform
    <2> QED
      BY <1>0, <1>1, <2>1, <2>2 DEF SoundReading, Through
  <1>9. CASE Verify
    <2>1. pc = "verify" /\ got = <<>> /\ pc' = "read" /\ UNCHANGED <<at, held>>
          /\ held' = noted'
      BY <1>1, <1>2, <1>9 DEF Verify, SoundReading
    <2>2. ~Answered' /\ ~Uniform'
      BY <1>0, <2>1 DEF Answered, Uniform
    <2> QED
      BY <1>0, <1>1, <2>1, <2>2 DEF SoundReading, Through
  <1> QED
    BY <1>4, <1>5, <1>6, <1>7, <1>8, <1>9

\* One more part, of the revision the file has now.
LEMMA SoundPart ==
    ASSUME Held, Sound, ~Writes, Part
    PROVE  Sound'
  <1> USE DEF Fails
  <1>1. /\ pc = "read" /\ got' = Append(got, rev[held]) /\ Len(got) < size[held]
        /\ UNCHANGED <<case, size, rev, at, noted, held, announced, again, outcome>>
    BY DEF Part, place
  <1>2. /\ SoundReading /\ size \in [File -> Nat] /\ rev \in [File -> Nat] /\ got \in Seq(Nat)
        /\ outcome # "given"
    BY <1>1 DEF Sound
  <1>3. UNCHANGED <<how, Writes, ParentOK>>
    BY <1>1 DEF how, Writes, ParentOK
  <1>4. /\ held \in File /\ rev[held] \in Nat /\ size[held] \in Nat /\ at = Last
        /\ (how.before => held = noted) /\ (how.after => held = noted)
        /\ \A i \in 1 .. Len(got) : got[i] <= rev[held]
        /\ (how.first = 0 => ParentOK)
    BY <1>1, <1>2 DEF SoundReading, Through
  <1>5. /\ got' \in Seq(Nat) /\ Len(got') = Len(got) + 1
        /\ \A i \in 1 .. Len(got') : got'[i] <= rev[held]
    BY <1>1, <1>2, <1>4
  <1>6. CASE Len(got') > MaxBytes
    <2>1. pc' = "release" /\ ~Answered'
      BY <1>6 DEF Part, Answered, None
    <2> QED
      BY <1>1, <1>2, <1>3, <1>4, <1>5, <2>1 DEF Sound, SoundReading, Through
  <1>7. CASE ~(Len(got') > MaxBytes)
    <2>1. pc' = "read" /\ ~Answered' /\ Len(got') <= MaxBytes
      BY <1>1, <1>5, <1>7, CasesAssumption DEF Part, Answered
    <2>2. Len(got') <= size'[held]
      BY <1>1, <1>4, <1>5, <1>2
    <2> QED
      BY <1>1, <1>2, <1>3, <1>4, <1>5, <2>1, <2>2 DEF Sound, SoundReading, Through
  <1> QED
    BY <1>6, <1>7

\* From one part of the call to the next, everything having been read.
LEMMA SoundOnward ==
    ASSUME Sound, ~Writes,
           UNCHANGED <<case, size, rev, at, noted, held, announced, got, outcome, told>>,
           pc \in Through \ {"verify", "read"}, pc' \in Through \cup {"release"},
           pc' \notin {"verify", "read"},
           pc' \in {"shut", "compose", "schema", "validate"} => how.use # "upload",
           pc' = "release" /\ how.use = "upload" => again' = got
    PROVE  Sound'
  <1>1. UNCHANGED <<how, Writes, ParentOK, Uniform>>
    BY DEF how, Writes, ParentOK, Uniform
  <1>2. SoundReading /\ outcome # "given"
    BY DEF Sound, Through
  <1>3. Answered' => pc' = "release"
    BY DEF Answered, Through
  <1>4. SoundReading'
    BY <1>1, <1>2, <1>3 DEF SoundReading, Through
  <1> QED
    BY <1>1, <1>2, <1>4 DEF Sound

\* Nothing comes any more, so that there is no more if it was not edited.
LEMMA SoundEnd ==
    ASSUME Held, Sound, ~Writes, EndOfFile
    PROVE  Sound'
  <1> USE DEF Goes
  <1>1. /\ pc = "read" /\ (Len(got) >= size[held] \/ Len(got) = Capacity)
        /\ UNCHANGED <<case, size, rev, at, noted, held, announced, got, again, outcome>>
    BY DEF EndOfFile, place, reading
  <1>2. /\ SoundReading /\ size \in [File -> Nat] /\ rev \in [File -> Nat] /\ got \in Seq(Nat)
        /\ outcome # "given" /\ case \in Cases
    BY <1>1 DEF Sound, Held
  <1>3. UNCHANGED <<how, Writes, ParentOK, Uniform>>
    BY <1>1 DEF how, Writes, ParentOK, Uniform
  <1>4. /\ held \in File /\ size[held] \in Nat /\ Len(got) \in Nat /\ Len(got) <= MaxBytes
        /\ (Uniform => Len(got) <= size[held])
    BY <1>1, <1>2 DEF SoundReading, Through
  <1>5. Len(got) >= size[held]
    BY <1>1, <1>4, CasesAssumption DEF Capacity
  <1>6. Uniform => Len(got) = size[held]
    BY <1>4, <1>5
  <1>7. how.exact => how.use = "text"
    BY <1>2, Ways DEF how, WayOK
  <1>8. ASSUME NEW code \in Codes, Fails(code) PROVE Sound'
    BY <1>1, <1>2, <1>8, SoundStays DEF Fails, Codes, None
  <1>9. CASE how.exact /\ Len(got) # announced
    <2>1. Fails("changed")
      BY <1>7, <1>9 DEF EndOfFile
    <2> QED
      BY <1>8, <2>1 DEF Codes
  <1>10. CASE Fails("invalid")
    BY <1>8, <1>10 DEF Codes
  <1>11. CASE ~Fails("invalid") /\ (how.exact => Len(got) = announced)
    <2>1. /\ told' = told
          /\ pc' \in {"release", "probe", "shut", "compose"}
          /\ pc' \in {"shut", "compose"} => how.use # "upload"
          /\ pc' = "release" => how.use # "upload"
      BY <1>9, <1>11 DEF EndOfFile, failing
    <2>2. SoundReading'
      BY <1>1, <1>2, <1>3, <1>6, <1>11, <2>1 DEF SoundReading, Through, Answered
    <2> QED
      BY <1>1, <1>2, <1>3, <2>2 DEF Sound
  <1> QED
    BY <1>9, <1>10, <1>11

\* What another program does to the file makes all that was read older than it.
LEMMA SoundEdit ==
    ASSUME Held, Sound, Edit
    PROVE  Sound'
  <1>1. PICK f \in File \ {New}, n \in Size :
            /\ size' = [size EXCEPT ![f] = n] /\ rev' = [rev EXCEPT ![f] = @ + 1]
    BY DEF Edit
  <1>2. /\ UNCHANGED <<case, pc, at, noted, held, announced, got, again, told, outcome>>
        /\ UNCHANGED <<how, Writes, ParentOK, Answered>>
    BY DEF Edit, Changes, reading, failing, how, Writes, ParentOK, Answered
  <1>3. /\ size \in [File -> Nat] /\ rev \in [File -> Nat] /\ got \in Seq(Nat)
        /\ n \in Nat
    BY CasesAssumption DEF Sound, Size
  <1>4. /\ size' \in [File -> Nat] /\ rev' \in [File -> Nat]
        /\ \A g \in File : rev[g] <= rev'[g] /\ (g # f => size'[g] = size[g] /\ rev'[g] = rev[g])
        /\ rev'[f] = rev[f] + 1
    BY <1>1, <1>3
  <1>5. ASSUME ~Writes PROVE SoundReading'
    <2>1. SoundReading
      BY <1>5 DEF Sound
    <2>2. ASSUME pc \in Through \/ Answered
          PROVE  /\ held \in File
                 /\ \A i \in 1 .. Len(got) : got[i] <= rev[held] /\ got[i] <= rev'[held]
      <3>1. held \in File /\ \A i \in 1 .. Len(got) : got[i] <= rev[held]
        BY <2>1, <2>2 DEF SoundReading
      <3>2. \A i \in 1 .. Len(got) : got[i] \in Nat
        BY <1>3
      <3>3. rev[held] \in Nat /\ rev'[held] \in Nat /\ rev[held] <= rev'[held]
        BY <1>3, <1>4, <3>1
      <3> QED
        BY <3>1, <3>2, <3>3
    <2>3. ASSUME pc \in Through \/ Answered, Uniform'
          PROVE  Uniform /\ size'[held] = size[held]
      <3>1. got # <<>> /\ Range(got) = {rev'[held]}
        BY <1>2, <2>3 DEF Uniform
      <3>2. 1 \in 1 .. Len(got) /\ 1 \in DOMAIN got
        BY <1>3, <3>1
      <3>3. got[1] = rev'[held]
        BY <3>1, <3>2 DEF Range
      <3>4. got[1] <= rev[held] /\ held \in File
        BY <2>2, <2>3, <3>2
      <3>5. held # f
        BY <1>3, <1>4, <3>3, <3>4
      <3> QED
        BY <1>4, <3>1, <3>4, <3>5 DEF Uniform
    <2>4. ASSUME pc = "read", Uniform' PROVE Len(got) <= size'[held]
      BY <2>1, <2>3, <2>4 DEF SoundReading, Through
    <2>5. ASSUME pc \in Through \ {"verify", "read"} \/ Answered
          PROVE  (Uniform' => Len(got) = size'[held]) /\ (how.exact => Len(got) = announced)
      BY <2>1, <2>3, <2>5 DEF SoundReading
    <2>6. ASSUME pc \in Through \/ Answered
          PROVE  /\ held \in File /\ (how.before => held = noted) /\ Len(got) <= MaxBytes
                 /\ \A i \in 1 .. Len(got) : got[i] <= rev'[held]
      BY <2>1, <2>2, <2>6 DEF SoundReading
    <2>7. /\ how.first = 0 /\ (at = Last \/ (at = 1 /\ pc = "shed")) => ParentOK
          /\ pc \in {"note", "open", "inspect", "shed", "stat", "verify"} => got = <<>>
          /\ pc \in {"stat"} \cup Through \/ Answered => at = Last
          /\ pc \in Through \ {"verify"} \/ Answered => (how.after => held = noted)
          /\ pc \in {"shut", "compose", "schema", "validate"} => how.use # "upload"
          /\ Answered /\ how.use = "upload" => again = got
      BY <2>1 DEF SoundReading
    <2> QED
      BY <1>2, <2>4, <2>5, <2>6, <2>7 DEF SoundReading
  <1> QED
    BY <1>2, <1>3, <1>4, <1>5 DEF Sound

\* The rest of the readers' calls: the content is judged, or sent.
LEMMA SoundJudging ==
    ASSUME Held, Telling, Sound, ~Writes,
           \/ Shut \/ Compose \/ Validate \/ ValidateState
           \/ Probe \/ SendPart \/ Sent \/ VerifyDeploy
    PROVE  Sound'
  <1> USE DEF Goes
  <1>1. /\ UNCHANGED <<case, size, rev, at, noted, held, announced, got, outcome>>
        /\ pc \in Through \ {"verify", "read"}
    BY DEF Shut, Compose, Validate, ValidateState, Probe, SendPart, Sent, VerifyDeploy,
           place, reading, Through
  <1>2. SoundReading /\ outcome # "given" /\ Judging
    BY <1>1 DEF Sound, Through, Telling
  <1>3. ASSUME UNCHANGED again, NEW code, code # None, Fails(code) PROVE Sound'
    BY <1>1, <1>2, <1>3, SoundStays DEF Fails
  <1>4. "io" # None /\ "invalid" # None /\ "structure" # None /\ "refused" # None
        /\ scan.verdict # None
    BY <1>2 DEF None, Judging, Verdicts
  <1>5. CASE Shut
    BY <1>1, <1>2, <1>3, <1>4, <1>5, SoundOnward DEF Shut, reading, failing, Through, SoundReading
  <1>6. CASE Compose
    <2>1. CASE UNCHANGED <<pc, failing>>
      BY <1>1, <1>2, <1>6, <2>1, SoundStays DEF Compose, reading, failing
    <2>2. CASE ~UNCHANGED <<pc, failing>>
      BY <1>1, <1>2, <1>3, <1>4, <1>6, <2>2, SoundOnward
      DEF Compose, reading, failing, Through, SoundReading
    <2> QED
      BY <2>1, <2>2
  <1>7. CASE Validate
    <2>1. CASE UNCHANGED <<pc, failing>>
      BY <1>1, <1>2, <1>7, <2>1, SoundStays DEF Validate, reading, failing
    <2>2. CASE ~UNCHANGED <<pc, failing>>
      BY <1>1, <1>2, <1>3, <1>4, <1>7, <2>2, SoundOnward
      DEF Validate, reading, failing, Through, SoundReading
    <2> QED
      BY <2>1, <2>2
  <1>8. CASE ValidateState
    BY <1>1, <1>2, <1>3, <1>4, <1>8, SoundOnward
    DEF ValidateState, reading, failing, Through, SoundReading
  <1>9. CASE Probe
    BY <1>1, <1>2, <1>3, <1>4, <1>9, SoundOnward DEF Probe, failing, Through
  <1>10. CASE SendPart
    <2>1. CASE UNCHANGED <<pc, failing>>
      <3>1. ~Answered /\ ~Answered' /\ UNCHANGED <<how, Writes, ParentOK, Uniform>>
        BY <1>1, <1>10, <2>1 DEF SendPart, Answered, how, Writes, ParentOK, Uniform
      <3>2. SoundReading'
        BY <1>1, <1>2, <2>1, <3>1 DEF SoundReading, failing
      <3> QED
        BY <1>1, <1>2, <3>1, <3>2 DEF Sound
    <2>2. CASE ~UNCHANGED <<pc, failing>>
      BY <1>3, <1>4, <1>10, <2>2 DEF SendPart
    <2> QED
      BY <2>1, <2>2
  <1>11. CASE Sent
    BY <1>1, <1>2, <1>3, <1>4, <1>11, SoundOnward DEF Sent, reading, failing, Through
  <1>12. CASE VerifyDeploy
    BY <1>1, <1>2, <1>3, <1>4, <1>12, SoundOnward DEF VerifyDeploy, reading, failing, Through
  <1> QED
    BY <1>5, <1>6, <1>7, <1>8, <1>9, <1>10, <1>11, <1>12

LEMMA SoundNext == Held /\ Telling /\ Sound /\ [Next]_vars => Sound'
  <1> SUFFICES ASSUME Held, Telling, Sound, [Next]_vars PROVE Sound'
    OBVIOUS
  <1> USE DEF Goes, Fails
  <1>0. told \in Codes \cup {None} /\ "given" \notin Codes /\ None \notin Codes
        /\ "given" # None /\ "io" # None /\ "nothing" # "given" /\ "killed" # "given"
        /\ (pc \in ReaderSteps => ~Writes) /\ (pc \in WriterSteps => Writes)
        /\ (left => Writes) /\ (outcome = "given" => pc = "done" /\ told = None)
    BY DEF Telling, Held, Sound, Codes, None
  <1>1. CASE Note \/ Open \/ Inspect \/ Shed \/ Stat \/ Verify
    <2>1. pc \in ReaderSteps
      BY <1>1 DEF Note, Open, Inspect, Shed, Stat, Verify, ReaderSteps
    <2> QED
      BY <1>0, <1>1, <2>1, SoundOpening
  <1>2. CASE Part \/ EndOfFile
    <2>1. pc \in ReaderSteps
      BY <1>2 DEF Part, EndOfFile, ReaderSteps
    <2> QED
      BY <1>0, <1>2, <2>1, SoundPart, SoundEnd
  <1>3. CASE Shut \/ Compose \/ Validate \/ ValidateState
             \/ Probe \/ SendPart \/ Sent \/ VerifyDeploy
    <2>1. pc \in ReaderSteps
      BY <1>3 DEF Shut, Compose, Validate, ValidateState, Probe, SendPart, Sent, VerifyDeploy,
                  ReaderSteps
    <2> QED
      BY <1>0, <1>3, <2>1, SoundJudging
  <1>4. CASE CallFails \/ Interrupt
    <2>1. \/ UNCHANGED <<pc, failing>>
          \/ told' = "io" /\ pc' = "release"
      BY <1>4 DEF CallFails, Interrupt
    <2>2. UNCHANGED <<case, size, rev, at, noted, held, announced, got, again, outcome>>
          /\ pc # "done"
      BY <1>4 DEF CallFails, Interrupt, place, reading
    <2> QED
      BY <1>0, <2>1, <2>2, SoundStays DEF failing
  <1>5. CASE Release
    <2>1. /\ UNCHANGED <<case, size, rev, at, noted, held, announced, got, again, outcome>>
          /\ pc = "release" /\ pc' = "release"
      BY <1>5 DEF Release, place, reading
    <2>2. UNCHANGED told \/ told' # None
      <3>1. Told # None
        BY <1>0 DEF Told
      <3> QED
        BY <1>0, <1>5, <3>1 DEF Release, failing
    <2> QED
      BY <1>0, <2>1, <2>2, SoundStays
  <1>6. CASE Conclude
    <2>1. /\ UNCHANGED <<case, size, rev, at, noted, held, announced, got, again, told>>
          /\ pc \in {"release", "tidied"} /\ pc' = "done"
      BY <1>6 DEF Conclude, place, reading, failing
    <2>2. outcome' = "given" => told' = None
      BY <1>0, <1>6, <2>1 DEF Conclude
    <2> QED
      BY <2>1, <2>2, SoundStays
  <1>7. CASE Tidy
    BY <1>0, <1>7, SoundWriting DEF Tidy, place, reading
  <1>8. CASE Kill
    BY <1>0, <1>8, SoundWriting DEF Kill, place, reading
  <1>9. CASE Look \/ Create \/ Fill \/ Seal \/ Publish \/ Settle
    <2>1. pc \in WriterSteps /\ pc # "done"
      BY <1>9 DEF Look, Create, Fill, Seal, Publish, Settle, WriterSteps
    <2>2. UNCHANGED <<case, size, rev, got, outcome>>
      BY <1>9 DEF Look, Create, Fill, Seal, Publish, Settle, place, reading
    <2> QED
      BY <1>0, <2>1, <2>2, SoundWriting
  <1>10. CASE Replace
    BY <1>0, <1>10, SoundStays DEF Replace, Changes, reading, failing
  <1>11. CASE Edit
    BY <1>11, SoundEdit
  <1>12. CASE UNCHANGED vars
    BY <1>0, <1>12, SoundStays DEF vars, place, reading, failing
  <1> QED
    BY <1>1, <1>2, <1>3, <1>4, <1>5, <1>6, <1>7, <1>8, <1>9, <1>10, <1>11, <1>12 DEF Next

(***************************************************************************)
(* What a reader gives is a regular file within bounds, the one it saw by  *)
(* name, all of it unless it was edited meanwhile, and reached through     *)
(* directories that are no links; what is uploaded is what was hashed.     *)
(***************************************************************************)
THEOREM GivenIsRightAlways == Spec => []GivenIsRight
  <1>1. Sound => GivenIsRight
    <2> SUFFICES ASSUME Sound, outcome = "given", ~Writes PROVE GivenIsRight
      BY DEF GivenIsRight
    <2>1. SoundReading /\ Answered
      BY DEF Sound, Answered
    <2> QED
      BY <2>1 DEF SoundReading, GivenIsRight, Uniform, ParentOK
  <1>2. Held /\ Telling /\ Sound /\ [Next]_vars => Sound'
    BY SoundNext
  <1> QED
    BY <1>1, <1>2, SoundInit, HeldAlways, TellingAlways, PTL DEF Spec

-----------------------------------------------------------------------------
(* Documents.                                                              *)

\* Some number of a set of numbers is the least.
LEMMA Least ==
    ASSUME NEW S \in SUBSET Nat, S # {}
    PROVE  \E m \in S : \A k \in S : m <= k
  <1>1. PICK m \in S : \A k \in S : ~(<<k, m>> \in OpToRel(<, Nat))
    BY NatLessThanWellFounded, WFMin
  <1>2. OpToRel(<, Nat) = {ss \in Nat \X Nat : ss[1] < ss[2]}
    BY DEF OpToRel
  <1>3. ASSUME NEW k \in S PROVE m <= k
    <2>1. <<k, m>> \in Nat \X Nat /\ <<k, m>>[1] = k /\ <<k, m>>[2] = m
      OBVIOUS
    <2>2. ~(k < m)
      BY <1>1, <1>2, <2>1
    <2> QED
      BY <2>2
  <1> QED
    BY <1>1, <1>3

\* The children are nodes, in order.
LEMMA KidsOf ==
    ASSUME NEW d, IsDocument(d), NEW n \in Node
    PROVE  /\ d.kids[n] \in Seq(Node) /\ Range(d.kids[n]) \subseteq Node
           /\ DOMAIN d.kids[n] = 1 .. Len(d.kids[n])
           /\ \A c : c \in Range(d.kids[n]) <=> \E i \in 1 .. Len(d.kids[n]) : d.kids[n][i] = c
  BY DEF IsDocument, Range

\* A way is a sequence of nodes, each a child of the one before, none twice.
LEMMA WayIs ==
    ASSUME NEW d, NEW w
    PROVE  w \in Way(d) <=> /\ w \in Seq(Node) /\ Len(w) \in 1 .. Cardinality(Node)
                            /\ w[1] = Root /\ IsInjective(w)
                            /\ \A i \in 1 .. Len(w) - 1 : w[i + 1] \in Range(d.kids[w[i]])
  <1>1. Cardinality(Node) \in Nat
    BY DocumentAssumption, FS_CardinalityType
  <1>2. w \in UNION {[1 .. k -> Node] : k \in 1 .. Cardinality(Node)}
        <=> \E k \in 1 .. Cardinality(Node) : w \in [1 .. k -> Node]
    OBVIOUS
  <1>3. ASSUME NEW k \in 1 .. Cardinality(Node), w \in [1 .. k -> Node]
        PROVE  w \in Seq(Node) /\ Len(w) = k
    BY <1>1, <1>3
  <1>4. ASSUME w \in Seq(Node), Len(w) \in 1 .. Cardinality(Node)
        PROVE  \E k \in 1 .. Cardinality(Node) : w \in [1 .. k -> Node]
    BY <1>4
  <1> QED
    BY <1>2, <1>3, <1>4 DEF Way

\* The numbers up to n are n.
LEMMA UpTo == ASSUME NEW n \in Nat PROVE IsFiniteSet(1 .. n) /\ Cardinality(1 .. n) = n
  <1>1. n + 1 - 1 = n /\ 1 - 1 = 0
    OBVIOUS
  <1>2. IsFiniteSet(1 .. n) /\ Cardinality(1 .. n) = IF 1 > n THEN 0 ELSE n - 1 + 1
    BY FS_Interval
  <1>3. (IF 1 > n THEN 0 ELSE n - 1 + 1) = n
    OBVIOUS
  <1> QED
    BY <1>2, <1>3

\* Sets that have nothing in common add up.
LEMMA Apart ==
    ASSUME NEW S, NEW T, IsFiniteSet(S), IsFiniteSet(T), S \cap T = {}
    PROVE  IsFiniteSet(S \cup T) /\ Cardinality(S \cup T) = Cardinality(S) + Cardinality(T)
  <1>1. /\ IsFiniteSet(S \cup T)
        /\ Cardinality(S \cup T) = Cardinality(S) + Cardinality(T) - Cardinality(S \cap T)
    BY FS_Union
  <1>2. Cardinality(S \cap T) = 0 /\ Cardinality(S) \in Nat /\ Cardinality(T) \in Nat
    BY FS_EmptySet, FS_CardinalityType
  <1> QED
    BY <1>1, <1>2

\* There is a node.
LEMMA SomeNode == Cardinality(Node) >= 1 /\ Cardinality(Node) \in Nat
  <1>1. Cardinality(Node) \in Nat
    BY DocumentAssumption, FS_CardinalityType
  <1>2. Cardinality(Node) # 0
    BY DocumentAssumption, FS_EmptySet
  <1> QED
    BY <1>1, <1>2

\* The root alone is a way.
LEMMA WayTop ==
    ASSUME NEW d
    PROVE  /\ <<Root>> \in Way(d) /\ Len(<<Root>>) = 1 /\ <<Root>>[1] = Root
           /\ Range(<<Root>>) = {Root}
  <1>1. Cardinality(Node) \in Nat /\ Root \in Node
    BY DocumentAssumption, FS_CardinalityType
  <1>2. <<Root>> \in Seq(Node) /\ Len(<<Root>>) \in 1 .. Cardinality(Node) /\ <<Root>>[1] = Root
    BY <1>1, SomeNode
  <1>3. IsInjective(<<Root>>) /\ Range(<<Root>>) = {Root}
    BY DEF IsInjective, Range
  <1>4. \A i \in 1 .. Len(<<Root>>) - 1 : <<Root>>[i + 1] \in Range(d.kids[<<Root>>[i]])
    OBVIOUS
  <1> QED
    BY <1>2, <1>3, <1>4, WayIs

\* A way that does not come back goes on.
LEMMA WayOn ==
    ASSUME NEW d, IsDocument(d), NEW w \in Way(d), NEW c \in Range(d.kids[w[Len(w)]]),
           c \notin Range(w)
    PROVE  /\ Append(w, c) \in Way(d) /\ Len(Append(w, c)) = Len(w) + 1
           /\ Append(w, c)[Len(w) + 1] = c /\ Range(Append(w, c)) = Range(w) \cup {c}
  <1> DEFINE on == Append(w, c)
  <1>1. /\ w \in Seq(Node) /\ Len(w) \in 1 .. Cardinality(Node) /\ w[1] = Root /\ IsInjective(w)
        /\ \A i \in 1 .. Len(w) - 1 : w[i + 1] \in Range(d.kids[w[i]])
    BY WayIs
  <1>2. Len(w) \in Nat /\ Len(w) >= 1 /\ w[Len(w)] \in Node
    BY <1>1, SomeNode
  <1>3. c \in Node
    BY <1>2, KidsOf
  <1>4. /\ on \in Seq(Node) /\ Len(on) = Len(w) + 1 /\ on[Len(w) + 1] = c
        /\ \A i \in 1 .. Len(w) : on[i] = w[i]
    BY <1>1, <1>2, <1>3
  <1>5. DOMAIN on = 1 .. Len(w) + 1 /\ DOMAIN w = 1 .. Len(w)
    BY <1>1, <1>4
  <1> HIDE DEF on
  <1>6. Range(on) = Range(w) \cup {c}
    <2>1. ASSUME NEW y \in Range(on) PROVE y \in Range(w) \cup {c}
      BY <1>2, <1>4, <1>5, <2>1 DEF Range
    <2>2. ASSUME NEW y \in Range(w) PROVE y \in Range(on)
      <3>1. PICK i \in 1 .. Len(w) : y = w[i]
        BY <1>5, <2>2 DEF Range
      <3>2. i \in DOMAIN on /\ on[i] = y
        BY <1>2, <1>4, <1>5, <3>1
      <3> QED
        BY <3>2 DEF Range
    <2>3. c \in Range(on)
      <3>1. Len(w) + 1 \in DOMAIN on
        BY <1>2, <1>5
      <3> QED
        BY <1>4, <3>1 DEF Range
    <2> QED
      BY <2>1, <2>2, <2>3
  <1>7. IsInjective(on)
    <2>1. \A i \in 1 .. Len(w) : w[i] # c
      BY <1>5 DEF Range
    <2>2. ASSUME NEW i \in 1 .. Len(w) + 1, NEW j \in 1 .. Len(w) + 1, on[i] = on[j] PROVE i = j
      <3>1. i \in 1 .. Len(w) \/ i = Len(w) + 1
        BY <1>2
      <3>2. j \in 1 .. Len(w) \/ j = Len(w) + 1
        BY <1>2
      <3> QED
        BY <1>1, <1>4, <1>5, <2>1, <2>2, <3>1, <3>2 DEF IsInjective
    <2> QED
      BY <1>5, <2>2 DEF IsInjective
  <1>8. Len(on) <= Cardinality(Node)
    <2>1. on \in Injection(1 .. Len(on), Node)
      BY <1>4, <1>5, <1>7 DEF Injection
    <2>2. Len(on) \in Nat
      BY <1>2, <1>4
    <2>3. Cardinality(1 .. Len(on)) <= Cardinality(Node)
      BY <2>1, FS_Injection, DocumentAssumption
    <2> QED
      BY <2>2, <2>3, UpTo
  <1>9. \A i \in 1 .. Len(on) - 1 : on[i + 1] \in Range(d.kids[on[i]])
    <2> SUFFICES ASSUME NEW i \in 1 .. Len(on) - 1 PROVE on[i + 1] \in Range(d.kids[on[i]])
      OBVIOUS
    <2>1. i \in 1 .. Len(w) /\ on[i] = w[i]
      BY <1>2, <1>4
    <2>2. CASE i = Len(w)
      BY <1>4, <2>1, <2>2
    <2>3. CASE i # Len(w)
      <3>1. i \in 1 .. Len(w) - 1 /\ i + 1 \in 1 .. Len(w)
        BY <1>2, <2>1, <2>3
      <3> QED
        BY <1>1, <1>4, <2>1, <3>1
    <2> QED
      BY <2>2, <2>3
  <1>10. on[1] = Root /\ Len(on) \in 1 .. Cardinality(Node)
    BY <1>1, <1>2, <1>4, <1>8, SomeNode
  <1>11. on \in Way(d)
    BY <1>4, <1>7, <1>9, <1>10, WayIs
  <1> QED
    BY <1>4, <1>6, <1>11 DEF on

\* What lies on a way is reached.
LEMMA OnTheWay ==
    ASSUME NEW d, NEW w \in Way(d)
    PROVE  Range(w) \subseteq Reached(d) /\ w[Len(w)] \in Range(w) /\ Reached(d) \subseteq Node
  <1>1. /\ w \in Seq(Node) /\ Len(w) \in 1 .. Cardinality(Node) /\ w[1] = Root /\ IsInjective(w)
        /\ \A i \in 1 .. Len(w) - 1 : w[i + 1] \in Range(d.kids[w[i]])
    BY WayIs
  <1>2. Len(w) \in Nat /\ Len(w) >= 1 /\ DOMAIN w = 1 .. Len(w)
    BY <1>1, SomeNode
  <1>3. ASSUME NEW n \in 1 .. Len(w) PROVE w[n] \in Reached(d)
    <2> DEFINE u == SubSeq(w, 1, n)
    <2>1. u \in Seq(Node) /\ Len(u) = n /\ \A i \in 1 .. n : u[i] = w[i]
      BY <1>1, <1>2
    <2> HIDE DEF u
    <2>2. DOMAIN u = 1 .. n
      BY <2>1
    <2>3. IsInjective(u)
      BY <1>1, <1>2, <2>1, <2>2 DEF IsInjective
    <2>4. \A i \in 1 .. Len(u) - 1 : u[i + 1] \in Range(d.kids[u[i]])
      <3> SUFFICES ASSUME NEW i \in 1 .. n - 1 PROVE u[i + 1] \in Range(d.kids[u[i]])
        BY <2>1
      <3>1. i \in 1 .. Len(w) - 1 /\ i \in 1 .. n /\ i + 1 \in 1 .. n
        BY <1>2
      <3> QED
        BY <1>1, <2>1, <3>1
    <2>5. Len(u) \in 1 .. Cardinality(Node) /\ u[1] = Root
      BY <1>1, <1>2, <2>1, SomeNode
    <2>6. u \in Way(d)
      BY <2>1, <2>3, <2>4, <2>5, WayIs
    <2> QED
      BY <2>1, <2>6 DEF Reached
  <1>4. \A y \in Range(w) : \E n \in 1 .. Len(w) : y = w[n]
    BY <1>2 DEF Range
  <1>5. w[Len(w)] \in Range(w)
    BY <1>2 DEF Range
  <1>6. ASSUME NEW n \in Reached(d) PROVE n \in Node
    <2>1. PICK u \in Way(d) : n = u[Len(u)]
      BY <1>6 DEF Reached
    <2>2. u \in Seq(Node) /\ Len(u) \in 1 .. Cardinality(Node)
      BY WayIs
    <2> QED
      BY <2>1, <2>2, SomeNode
  <1> QED
    BY <1>3, <1>4, <1>5, <1>6

\* The root is reached.
LEMMA RootReached == ASSUME NEW d PROVE Root \in Reached(d)
  <1>1. <<Root>> \in Way(d) /\ <<Root>>[Len(<<Root>>)] = Root
    BY WayTop
  <1> QED
    BY <1>1 DEF Reached

\* The children of what is reached are reached.
LEMMA KidsReached ==
    ASSUME NEW d, IsDocument(d), NEW n \in Reached(d)
    PROVE  Range(d.kids[n]) \subseteq Reached(d)
  <1>1. PICK w \in Way(d) : n = w[Len(w)]
    BY DEF Reached
  <1> SUFFICES ASSUME NEW c \in Range(d.kids[n]) PROVE c \in Reached(d)
    OBVIOUS
  <1>2. CASE c \in Range(w)
    BY <1>2, OnTheWay
  <1>3. CASE c \notin Range(w)
    <2>1. Append(w, c) \in Way(d) /\ Append(w, c)[Len(Append(w, c))] = c
      BY <1>1, <1>3, WayOn
    <2> QED
      BY <2>1 DEF Reached
  <1> QED
    BY <1>2, <1>3

\* What holds the root and the children of what it holds, holds what is reached.
LEMMA ClosedHolds ==
    ASSUME NEW d, NEW V, Root \in V, \A n \in V : Range(d.kids[n]) \subseteq V
    PROVE  Reached(d) \subseteq V
  <1> SUFFICES ASSUME NEW w \in Way(d) PROVE w[Len(w)] \in V
    BY DEF Reached
  <1>1. /\ w \in Seq(Node) /\ Len(w) \in 1 .. Cardinality(Node) /\ w[1] = Root
        /\ \A i \in 1 .. Len(w) - 1 : w[i + 1] \in Range(d.kids[w[i]])
    BY WayIs
  <1>2. Len(w) \in Nat /\ Len(w) >= 1
    BY <1>1, SomeNode
  <1> DEFINE out == {i \in 1 .. Len(w) : w[i] \notin V}
  <1>3. ASSUME out # {} PROVE FALSE
    <2>1. out \in SUBSET Nat
      BY <1>2
    <2>2. PICK m \in out : \A k \in out : m <= k
      <3> HIDE DEF out
      <3> QED
        BY <1>3, <2>1, Least
    <2>3. m # 1
      BY <1>1, <2>2
    <2>4. m - 1 \in 1 .. Len(w) - 1 /\ m - 1 \in 1 .. Len(w) /\ (m - 1) + 1 = m
      BY <1>2, <2>2, <2>3
    <2>5. w[m - 1] \in V
      BY <2>2, <2>4
    <2>6. w[m] \in Range(d.kids[w[m - 1]])
      BY <1>1, <2>4
    <2> QED
      BY <2>2, <2>5, <2>6
  <1> QED
    BY <1>2, <1>3

-----------------------------------------------------------------------------
(* Places.                                                                 *)

\* A place is the top or a child of a node.
LEMMA PlaceIs ==
    ASSUME NEW d, IsDocument(d), NEW N \in SUBSET Node, NEW p
    PROVE  p \in Places(d, N) <=>
             \/ p = <<Root, 0>>
             \/ \E n \in N : \E i \in 1 .. Len(d.kids[n]) : p = <<n, i>>
  <1>1. \A n \in N : DOMAIN d.kids[n] = 1 .. Len(d.kids[n])
    BY KidsOf
  <1> QED
    BY <1>1 DEF Places

\* What is written at a place.
LEMMA NodeAtPlace ==
    ASSUME NEW d
    PROVE  /\ NodeAt(d, <<Root, 0>>) = Root
           /\ \A n : \A i \in Nat \ {0} : NodeAt(d, <<n, i>>) = d.kids[n][i]
  BY DEF NodeAt

\* One node more has as many places more as it has children.
LEMMA PlacesAdd ==
    ASSUME NEW d, IsDocument(d), NEW N \in SUBSET Node, NEW x \in Node, x \notin N
    PROVE  /\ Places(d, N \cup {x}) = Places(d, N) \cup ({x} \X (1 .. Len(d.kids[x])))
           /\ Places(d, N) \cap ({x} \X (1 .. Len(d.kids[x]))) = {}
           /\ IsFiniteSet({x} \X (1 .. Len(d.kids[x])))
           /\ Cardinality({x} \X (1 .. Len(d.kids[x]))) = Len(d.kids[x])
  <1> DEFINE here == {x} \X (1 .. Len(d.kids[x]))
  <1>1. d.kids[x] \in Seq(Node) /\ Len(d.kids[x]) \in Nat /\ DOMAIN d.kids[x] = 1 .. Len(d.kids[x])
    BY KidsOf
  <1>2. Places(d, N \cup {x}) = Places(d, N) \cup here
    BY <1>1 DEF Places
  <1>3. ASSUME NEW p \in Places(d, N), p \in here PROVE FALSE
    <2>1. PICK i \in 1 .. Len(d.kids[x]) : p = <<x, i>>
      BY <1>3
    <2>2. CASE p = <<Root, 0>>
      BY <1>1, <2>1, <2>2
    <2>3. CASE \E n \in N : \E j \in 1 .. Len(d.kids[n]) : p = <<n, j>>
      BY <2>1, <2>3
    <2> QED
      BY <1>3, <2>2, <2>3, PlaceIs
  <1>4. IsFiniteSet(1 .. Len(d.kids[x])) /\ Cardinality(1 .. Len(d.kids[x])) = Len(d.kids[x])
    BY <1>1, UpTo
  <1>5. IsFiniteSet({x}) /\ Cardinality({x}) = 1
    BY FS_Singleton
  <1>6. IsFiniteSet(here) /\ Cardinality(here) = 1 * Len(d.kids[x])
    BY <1>4, <1>5, FS_Product, ZenonT(60)
  <1>7. Cardinality(here) = Len(d.kids[x])
    BY <1>1, <1>6
  <1>8. Places(d, N) \cap here = {}
    BY <1>3
  <1> QED
    BY <1>2, <1>6, <1>7, <1>8

\* There are finitely many nodes, ...
LEMMA NodesFinite ==
    ASSUME NEW N \in SUBSET Node
    PROVE  IsFiniteSet(N) /\ Cardinality(N) \in Nat /\ Cardinality(N) <= Cardinality(Node)
  <1>1. IsFiniteSet(N) /\ Cardinality(N) <= Cardinality(Node)
    BY DocumentAssumption, FS_Subset
  <1> QED
    BY <1>1, FS_CardinalityType

\* ... and places.
LEMMA PlacesFinite ==
    ASSUME NEW d, IsDocument(d)
    PROVE  \A N \in SUBSET Node : /\ IsFiniteSet(Places(d, N))
                                  /\ Cardinality(Places(d, N)) \in Nat
  <1> DEFINE bad == {k \in Nat : \E N \in SUBSET Node :
                                    Cardinality(N) = k /\ ~IsFiniteSet(Places(d, N))}
  <1>1. ASSUME bad # {} PROVE FALSE
    <2>1. PICK m \in bad : \A k \in bad : m <= k
      <3>1. bad \in SUBSET Nat
        OBVIOUS
      <3> HIDE DEF bad
      <3> QED
        BY <1>1, <3>1, Least
    <2>2. PICK N \in SUBSET Node : Cardinality(N) = m /\ ~IsFiniteSet(Places(d, N))
      BY <2>1
    <2>3. IsFiniteSet(N) /\ m \in Nat
      BY <2>2, NodesFinite
    <2>4. CASE N = {}
      <3>1. Places(d, N) = {<<Root, 0>>}
        BY <2>4 DEF Places
      <3> QED
        BY <2>2, <3>1, FS_Singleton
    <2>5. CASE N # {}
      <3>1. PICK x \in N : TRUE
        BY <2>5
      <3> DEFINE M == N \ {x}
      <3>2. M \in SUBSET Node /\ x \in Node /\ x \notin M /\ N = M \cup {x}
        OBVIOUS
      <3>3. Cardinality(M) = m - 1
        BY <2>2, <2>3, <3>1, FS_RemoveElement
      <3>4. Cardinality(M) \in Nat
        BY NodesFinite
      <3> HIDE DEF M
      <3>5. IsFiniteSet(Places(d, M))
        <4>1. CASE Cardinality(M) \in bad
          BY <2>1, <2>3, <3>3, <4>1
        <4>2. CASE Cardinality(M) \notin bad
          BY <3>2, <3>4, <4>2
        <4> QED
          BY <4>1, <4>2
      <3>6. IsFiniteSet(Places(d, N))
        <4> DEFINE new == {x} \X (1 .. Len(d.kids[x]))
                   old == Places(d, M)
        <4>1. IsFiniteSet(new) /\ Places(d, N) = old \cup new /\ IsFiniteSet(old)
          BY <3>2, <3>5, PlacesAdd, ZenonT(60)
        <4> HIDE DEF old, new
        <4>2. IsFiniteSet(old \cup new)
          BY <4>1, FS_Union
        <4> QED
          BY <4>1, <4>2
      <3> QED
        BY <2>2, <3>6
    <2> QED
      BY <2>4, <2>5
  <1> SUFFICES ASSUME NEW N \in SUBSET Node
               PROVE  IsFiniteSet(Places(d, N)) /\ Cardinality(Places(d, N)) \in Nat
    OBVIOUS
  <1>2. Cardinality(N) \in Nat
    BY NodesFinite
  <1>3. IsFiniteSet(Places(d, N))
    BY <1>1, <1>2
  <1> QED
    BY <1>3, FS_CardinalityType

\* More nodes have more places.
LEMMA PlacesGrow ==
    ASSUME NEW d, IsDocument(d), NEW N \in SUBSET Node, NEW M \in SUBSET N
    PROVE  Places(d, M) \subseteq Places(d, N)
  BY DEF Places

\* What is reached is written somewhere where it is reached.
LEMMA PlaceOf ==
    ASSUME NEW d, IsDocument(d), NEW n \in Reached(d), n # Root
    PROVE  \E p \in Reached(d) : \E i \in 1 .. Len(d.kids[p]) : d.kids[p][i] = n
  <1>1. PICK w \in Way(d) : n = w[Len(w)]
    BY DEF Reached
  <1>2. /\ w \in Seq(Node) /\ Len(w) \in 1 .. Cardinality(Node) /\ w[1] = Root
        /\ \A i \in 1 .. Len(w) - 1 : w[i + 1] \in Range(d.kids[w[i]])
    BY WayIs
  <1>3. Len(w) \in Nat /\ Len(w) - 1 \in 1 .. Len(w) - 1 /\ (Len(w) - 1) + 1 = Len(w)
    BY <1>1, <1>2, SomeNode
  <1>4. n \in Range(d.kids[w[Len(w) - 1]])
    BY <1>1, <1>2, <1>3
  <1>5. w[Len(w) - 1] \in Range(w)
    BY <1>2, <1>3 DEF Range
  <1> DEFINE q == w[Len(w) - 1]
  <1>6. q \in Reached(d) /\ q \in Node /\ n \in Range(d.kids[q])
    BY <1>4, <1>5, OnTheWay
  <1> HIDE DEF q
  <1>7. DOMAIN d.kids[q] = 1 .. Len(d.kids[q])
    BY <1>6, KidsOf
  <1>8. \E i \in 1 .. Len(d.kids[q]) : d.kids[q][i] = n
    BY <1>6, <1>7 DEF Range
  <1> QED
    BY <1>6, <1>8

\* In a tree there is one way to a node.
LEMMA TreeWays ==
    ASSUME NEW d, IsDocument(d), IsTree(d), NEW w \in Way(d), NEW u \in Way(d),
           w[Len(w)] = u[Len(u)]
    PROVE  Len(u) <= Len(w)
  <1>1. /\ w \in Seq(Node) /\ Len(w) \in Nat /\ Len(w) >= 1 /\ w[1] = Root
        /\ \A i \in 1 .. Len(w) - 1 : w[i + 1] \in Range(d.kids[w[i]])
    BY WayIs, SomeNode
  <1>2. /\ u \in Seq(Node) /\ Len(u) \in Nat /\ Len(u) >= 1 /\ u[1] = Root /\ IsInjective(u)
        /\ \A i \in 1 .. Len(u) - 1 : u[i + 1] \in Range(d.kids[u[i]])
    BY WayIs, SomeNode
  <1> SUFFICES ASSUME Len(w) < Len(u) PROVE FALSE
    BY <1>1, <1>2
  <1> DEFINE apart == {k \in 0 .. Len(w) - 1 : w[Len(w) - k] # u[Len(u) - k]}
  <1>3. CASE apart = {}
    <2>1. Len(w) - 1 \in 0 .. Len(w) - 1 /\ Len(w) - (Len(w) - 1) = 1
      BY <1>1
    <2>2. u[Len(u) - (Len(w) - 1)] = Root
      BY <1>1, <1>3, <2>1
    <2>3. Len(u) - (Len(w) - 1) \in 1 .. Len(u) /\ Len(u) - (Len(w) - 1) # 1 /\ 1 \in 1 .. Len(u)
      BY <1>1, <1>2
    <2>4. DOMAIN u = 1 .. Len(u)
      BY <1>2
    <2> QED
      BY <1>2, <2>2, <2>3, <2>4 DEF IsInjective
  <1>4. CASE apart # {}
    <2>1. PICK m \in apart : \A k \in apart : m <= k
      <3>1. apart \in SUBSET Nat
        BY <1>1
      <3> HIDE DEF apart
      <3> QED
        BY <1>4, <3>1, Least
    <2>2. m # 0 /\ m \in Nat /\ m <= Len(w) - 1
      BY <1>1, <1>2, <2>1
    <2>3. m - 1 \in 0 .. Len(w) - 1 /\ m - 1 \notin apart
      <3>1. m - 1 \in 0 .. Len(w) - 1 /\ ~(m <= m - 1)
        BY <1>1, <2>2
      <3> HIDE DEF apart
      <3> QED
        BY <2>1, <3>1
    <2> DEFINE a == Len(w) - m
               b == Len(u) - m
    <2>4. /\ a \in 1 .. Len(w) - 1 /\ b \in 1 .. Len(u) - 1
          /\ Len(w) - (m - 1) = a + 1 /\ Len(u) - (m - 1) = b + 1
      BY <1>1, <1>2, <2>2
    <2>5. w[a + 1] = u[b + 1] /\ w[a] # u[b]
      BY <2>1, <2>3, <2>4
    <2> HIDE DEF a, b
    <2>6. w[a + 1] \in Range(d.kids[w[a]]) /\ u[b + 1] \in Range(d.kids[u[b]])
      BY <1>1, <1>2, <2>4
    <2>7. w[a] \in Reached(d) /\ u[b] \in Reached(d)
      <3>1. DOMAIN w = 1 .. Len(w) /\ DOMAIN u = 1 .. Len(u)
        BY <1>1, <1>2
      <3>2. a \in 1 .. Len(w) /\ b \in 1 .. Len(u)
        BY <1>1, <1>2, <2>4
      <3>3. w[a] \in Range(w) /\ u[b] \in Range(u)
        BY <3>1, <3>2 DEF Range
      <3> QED
        BY <3>3, OnTheWay
    <2>8. \A n \in Reached(d) : n \in Node /\ DOMAIN d.kids[n] = 1 .. Len(d.kids[n])
      BY OnTheWay, KidsOf
    <2>9. PICK i \in 1 .. Len(d.kids[w[a]]) : d.kids[w[a]][i] = w[a + 1]
      BY <2>6, <2>7, <2>8 DEF Range
    <2>10. PICK j \in 1 .. Len(d.kids[u[b]]) : d.kids[u[b]][j] = u[b + 1]
      BY <2>6, <2>7, <2>8 DEF Range
    <2>11. Reached(d) \in SUBSET Node
      BY <2>8
    <2>12. <<w[a], i>> \in Places(d, Reached(d)) /\ <<u[b], j>> \in Places(d, Reached(d))
      BY <2>7, <2>9, <2>10, <2>11, PlaceIs
    <2>13. i \in Nat \ {0} /\ j \in Nat \ {0}
      BY <2>9, <2>10, SMTT(60)
    <2>14. NodeAt(d, <<w[a], i>>) = w[a + 1] /\ NodeAt(d, <<u[b], j>>) = u[b + 1]
      <3>1. NodeAt(d, <<w[a], i>>) = d.kids[w[a]][i]
        BY <2>13 DEF NodeAt
      <3>2. NodeAt(d, <<u[b], j>>) = d.kids[u[b]][j]
        BY <2>13 DEF NodeAt
      <3> QED
        BY <2>9, <2>10, <3>1, <3>2
    <2>15. <<w[a], i>> = <<u[b], j>>
      BY <2>5, <2>12, <2>14 DEF IsTree
    <2> QED
      BY <2>5, <2>15
  <1> QED
    BY <1>3, <1>4

-----------------------------------------------------------------------------
(* Walking through a document with a stack.                                *)

Entry == [node : Node, depth : Nat, leaving : BOOLEAN]

\* How something has come onto the stack: as the root, or as a child of what has
\* been entered on a way as long as it is deep.
Met(d, known, x) ==
    \/ x.node = Root /\ x.depth = 0
    \/ \E w \in Way(d) : /\ Range(w) \subseteq known /\ Len(w) = x.depth
                         /\ x.node \in Range(d.kids[w[Len(w)]])

\* What has been entered is reached, not too deep, and if it is flawed it is yet
\* to be left.
Walked(d, todo, known) ==
    /\ todo \in Seq(Entry) /\ known \subseteq Node
    /\ \A n \in known : \E w \in Way(d) : /\ w[Len(w)] = n /\ Len(w) - 1 <= MaxDepth
                                          /\ Range(w) \subseteq known
    /\ \A i \in 1 .. Len(todo) :
          IF todo[i].leaving THEN todo[i].node \in known \cap d.flawed
                             ELSE Met(d, known, todo[i])
    /\ \A n \in known \cap d.flawed :
          \E i \in 1 .. Len(todo) : todo[i].leaving /\ todo[i].node = n

\* What has been entered is reached.
LEMMA WalkedReached ==
    ASSUME NEW d, NEW todo, NEW known, Walked(d, todo, known)
    PROVE  known \subseteq Reached(d)
  BY DEF Walked, Reached

\* The head of a stack gives way to what is put in its place.
LEMMA Replaced ==
    ASSUME NEW S, NEW t \in Seq(S), t # <<>>, NEW K \in Seq(S)
    PROVE  /\ K \o Tail(t) \in Seq(S) /\ Len(K \o Tail(t)) = Len(K) + Len(t) - 1
           /\ Len(K) \in Nat /\ Len(t) \in Nat \ {0}
           /\ \A i \in 1 .. Len(K) : (K \o Tail(t))[i] = K[i]
           /\ \A i \in 2 .. Len(t) : (K \o Tail(t))[Len(K) + i - 1] = t[i]
           /\ \A k \in 1 .. Len(K \o Tail(t)) :
                 \/ k \in 1 .. Len(K)
                 \/ \E i \in 2 .. Len(t) : k = Len(K) + i - 1
  <1>1. Len(t) \in Nat \ {0} /\ Len(K) \in Nat /\ Tail(t) \in Seq(S) /\ Len(Tail(t)) = Len(t) - 1
    OBVIOUS
  <1>2. \A i \in 1 .. Len(t) - 1 : Tail(t)[i] = t[i + 1]
    OBVIOUS
  <1>3. K \o Tail(t) \in Seq(S) /\ Len(K \o Tail(t)) = Len(K) + (Len(t) - 1)
    BY <1>1
  <1>4. \A i \in 1 .. Len(K) : (K \o Tail(t))[i] = K[i]
    BY <1>1
  <1>5. ASSUME NEW i \in 2 .. Len(t) PROVE (K \o Tail(t))[Len(K) + i - 1] = t[i]
    <2>1. Len(K) + i - 1 \in 1 .. Len(K) + Len(Tail(t)) /\ Len(K) + i - 1 > Len(K)
          /\ (Len(K) + i - 1) - Len(K) = i - 1 /\ i - 1 \in 1 .. Len(t) - 1 /\ (i - 1) + 1 = i
      BY <1>1
    <2>2. (K \o Tail(t))[Len(K) + i - 1] = Tail(t)[i - 1]
      BY <1>1, <2>1
    <2> QED
      BY <1>2, <2>1, <2>2
  <1>6. ASSUME NEW k \in 1 .. Len(K \o Tail(t)), k \notin 1 .. Len(K)
        PROVE  \E i \in 2 .. Len(t) : k = Len(K) + i - 1
    <2>1. k - Len(K) + 1 \in 2 .. Len(t) /\ k = Len(K) + (k - Len(K) + 1) - 1
      BY <1>1, <1>3, <1>6
    <2> QED
      BY <2>1
  <1> QED
    BY <1>1, <1>3, <1>4, <1>5, <1>6

\* The head of a stack.
LEMMA HeadIs ==
    ASSUME NEW t \in Seq(Entry), t # <<>>
    PROVE  /\ Len(t) \in Nat \ {0} /\ Head(t) = t[1] /\ 1 \in 1 .. Len(t)
           /\ Head(t).node \in Node /\ Head(t).depth \in Nat /\ Head(t).leaving \in BOOLEAN
  <1>1. Len(t) \in Nat \ {0} /\ Head(t) = t[1] /\ 1 \in 1 .. Len(t) /\ Head(t) \in Entry
    OBVIOUS
  <1> QED
    BY <1>1 DEF Entry

\* What has yet to be looked at, and which nodes that are.
Ahead(todo) == {i \in 1 .. Len(todo) : ~todo[i].leaving}
Coming(todo) == {todo[i].node : i \in Ahead(todo)}

\* What has yet to be looked at is finite.
LEMMA AheadFinite ==
    ASSUME NEW todo \in Seq(Entry)
    PROVE  IsFiniteSet(Ahead(todo)) /\ Cardinality(Ahead(todo)) \in Nat
  <1>1. IsFiniteSet(1 .. Len(todo)) /\ Ahead(todo) \subseteq 1 .. Len(todo)
    BY UpTo DEF Ahead
  <1>2. IsFiniteSet(Ahead(todo))
    BY <1>1, FS_Subset
  <1> QED
    BY <1>2, FS_CardinalityType

\* What is ahead when the head gives way to other entries.
LEMMA AheadReplaced ==
    ASSUME NEW t \in Seq(Entry), t # <<>>, ~Head(t).leaving, NEW K \in Seq(Entry)
    PROVE  /\ Cardinality(Ahead(t)) >= 1
           /\ Cardinality(Ahead(K \o Tail(t))) = Cardinality(Ahead(K)) + Cardinality(Ahead(t)) - 1
           /\ Coming(K) \subseteq Coming(K \o Tail(t))
           /\ Coming(t) \subseteq Coming(K \o Tail(t)) \cup {Head(t).node}
  <1> DEFINE r == K \o Tail(t)
             rest == Ahead(t) \ {1}
             moved == [i \in rest |-> Len(K) + i - 1]
             later == {Len(K) + i - 1 : i \in rest}
             early == Ahead(K)
  <1>1. /\ r \in Seq(Entry) /\ Len(r) = Len(K) + Len(t) - 1
        /\ Len(K) \in Nat /\ Len(t) \in Nat \ {0}
        /\ \A i \in 1 .. Len(K) : r[i] = K[i]
        /\ \A i \in 2 .. Len(t) : r[Len(K) + i - 1] = t[i]
        /\ \A k \in 1 .. Len(r) :
              \/ k \in 1 .. Len(K)
              \/ \E i \in 2 .. Len(t) : k = Len(K) + i - 1
    BY Replaced, SMTT(60)
  <1> HIDE DEF r
  <1>2. Head(t) = t[1] /\ 1 \in Ahead(t)
    BY <1>1 DEF Ahead
  <1>3. \A i : i \in rest <=> i \in 2 .. Len(t) /\ ~t[i].leaving
    BY <1>1 DEF Ahead
  <1>4. Ahead(r) = early \cup later
    <2>1. ASSUME NEW k \in Ahead(r) PROVE k \in early \cup later
      <3>1. k \in 1 .. Len(r) /\ ~r[k].leaving
        BY DEF Ahead
      <3>2. CASE k \in 1 .. Len(K)
        BY <1>1, <3>1, <3>2 DEF Ahead
      <3>3. CASE \E i \in 2 .. Len(t) : k = Len(K) + i - 1
        <4>1. PICK i \in 2 .. Len(t) : k = Len(K) + i - 1
          BY <3>3
        <4>2. r[k] = t[i]
          BY <1>1, <4>1
        <4>3. i \in rest
          BY <1>3, <3>1, <4>1, <4>2
        <4> HIDE DEF rest
        <4> QED
          BY <4>1, <4>3
      <3> QED
        BY <1>1, <3>1, <3>2, <3>3
    <2>2. ASSUME NEW k \in early PROVE k \in Ahead(r)
      BY <1>1 DEF Ahead
    <2>3. ASSUME NEW i \in rest PROVE Len(K) + i - 1 \in Ahead(r)
      <3>1. i \in 2 .. Len(t) /\ ~t[i].leaving
        BY <1>3
      <3>2. Len(K) + i - 1 \in 1 .. Len(r) /\ r[Len(K) + i - 1] = t[i]
        BY <1>1, <3>1
      <3> QED
        BY <3>1, <3>2 DEF Ahead
    <2> QED
      BY <2>1, <2>2, <2>3
  <1>5. IsFiniteSet(Ahead(t)) /\ IsFiniteSet(early) /\ Cardinality(early) \in Nat
        /\ Cardinality(Ahead(t)) \in Nat
    BY AheadFinite
  <1>6. IsFiniteSet(rest) /\ Cardinality(rest) = Cardinality(Ahead(t)) - 1
    <2> DEFINE all == Ahead(t)
    <2>1. IsFiniteSet(all) /\ 1 \in all
      BY <1>2, <1>5
    <2> HIDE DEF all
    <2>2. IsFiniteSet(all \ {1}) /\ Cardinality(all \ {1}) = Cardinality(all) - 1
      BY <2>1, FS_RemoveElement
    <2> QED
      BY <2>2 DEF all
  <1>7. Cardinality(rest) \in Nat
    BY <1>6, FS_CardinalityType
  <1>8. IsFiniteSet(later) /\ Cardinality(later) = Cardinality(rest)
    <2>1. moved \in Bijection(rest, later)
      <3>1. \A i, j \in rest : moved[i] = moved[j] => i = j
        BY <1>1, <1>3
      <3>2. moved \in [rest -> later] /\ \A y \in later : \E i \in rest : moved[i] = y
        OBVIOUS
      <3> QED
        BY <3>1, <3>2 DEF Bijection, Injection, Surjection, IsInjective
    <2> HIDE DEF moved, later, rest
    <2> QED
      BY <1>6, <2>1, FS_Bijection DEF ExistsBijection
  <1>9. early \cap later = {}
    BY <1>1, <1>3 DEF Ahead
  <1>10. Cardinality(Ahead(r)) = Cardinality(early) + Cardinality(later)
    <2> HIDE DEF early, later
    <2>1. Cardinality(early \cup later) = Cardinality(early) + Cardinality(later)
      BY <1>5, <1>8, <1>9, Apart
    <2> QED
      BY <1>4, <2>1
  <1>11. Coming(K) \subseteq Coming(r)
    <2> SUFFICES ASSUME NEW k \in Ahead(K) PROVE K[k].node \in Coming(r)
      BY DEF Coming
    <2>1. k \in Ahead(r) /\ r[k] = K[k]
      BY <1>1, <1>4 DEF Ahead
    <2> QED
      BY <2>1 DEF Coming
  <1>12. Coming(t) \subseteq Coming(r) \cup {Head(t).node}
    <2> SUFFICES ASSUME NEW i \in Ahead(t), i # 1 PROVE t[i].node \in Coming(r)
      BY <1>2 DEF Coming
    <2>1. i \in 2 .. Len(t) /\ Len(K) + i - 1 \in Ahead(r)
      BY <1>3, <1>4
    <2>2. r[Len(K) + i - 1] = t[i]
      BY <1>1, <2>1
    <2> QED
      BY <2>1, <2>2 DEF Coming
  <1> QED
    BY <1>5, <1>6, <1>7, <1>8, <1>10, <1>11, <1>12 DEF r

-----------------------------------------------------------------------------
(* Counting: every place of what has been entered has been counted, or is  *)
(* on the stack.                                                           *)

Counted(d, todo, known, entries, aliases) ==
    /\ known \subseteq Node /\ entries \in Nat /\ aliases \in Nat
    /\ entries = Cardinality(known) + aliases
    /\ Cardinality(Places(d, known)) = entries + Cardinality(Ahead(todo))
    /\ Root \in known \cup Coming(todo)
    /\ \A n \in known : Range(d.kids[n]) \subseteq known \cup Coming(todo)

\* What is put onto the stack when a node is entered: its children, and perhaps a
\* mark for when it is left.
Unfolds(d, x, K) ==
    /\ K \in Seq(Entry)
    /\ Cardinality(Ahead(K)) = Len(d.kids[x.node])
    /\ Coming(K) = Range(d.kids[x.node])
    /\ \A i \in 1 .. Len(K) :
          IF K[i].leaving THEN K[i].node = x.node /\ x.node \in d.flawed
                          ELSE K[i].depth = x.depth + 1
    /\ x.node \in d.flawed => \E i \in 1 .. Len(K) : K[i].leaving

\* A node is entered: its places come onto the stack.
LEMMA CountedEnters ==
    ASSUME NEW d, IsDocument(d), NEW t \in Seq(Entry), t # <<>>, ~Head(t).leaving,
           NEW known, NEW entries, NEW aliases, Counted(d, t, known, entries, aliases),
           Head(t).node \notin known, NEW K, Unfolds(d, Head(t), K)
    PROVE  Counted(d, K \o Tail(t), known \cup {Head(t).node}, entries + 1, aliases)
  <1> DEFINE x == Head(t)
             r == K \o Tail(t)
             more == known \cup {x.node}
  <1>1. x.node \in Node
    BY HeadIs
  <1>2. /\ Cardinality(Ahead(t)) >= 1
        /\ Cardinality(Ahead(r)) = Cardinality(Ahead(K)) + Cardinality(Ahead(t)) - 1
        /\ Coming(K) \subseteq Coming(r)
        /\ Coming(t) \subseteq Coming(r) \cup {x.node}
    BY AheadReplaced DEF Unfolds
  <1>3. Cardinality(Ahead(t)) \in Nat /\ Len(d.kids[x.node]) \in Nat
    BY <1>1, AheadFinite, KidsOf
  <1>4. Cardinality(Places(d, more)) = Cardinality(Places(d, known)) + Len(d.kids[x.node])
    <2> DEFINE old == Places(d, known)
               new == {x.node} \X (1 .. Len(d.kids[x.node]))
    <2>1. Places(d, more) = old \cup new /\ old \cap new = {} /\ IsFiniteSet(new)
          /\ Cardinality(new) = Len(d.kids[x.node])
      BY <1>1, PlacesAdd DEF Counted
    <2>2. IsFiniteSet(old)
      BY PlacesFinite DEF Counted
    <2> HIDE DEF old, new
    <2>3. Cardinality(old \cup new) = Cardinality(old) + Cardinality(new)
      BY <2>1, <2>2, Apart
    <2> QED
      BY <2>1, <2>3 DEF old
  <1>5. Cardinality(more) = Cardinality(known) + 1 /\ Cardinality(known) \in Nat
    <2>1. IsFiniteSet(known) /\ Cardinality(known) \in Nat
      BY NodesFinite DEF Counted
    <2> QED
      BY <2>1, FS_AddElement
  <1>6. Root \in more \cup Coming(r)
    BY <1>2 DEF Counted
  <1>7. ASSUME NEW n \in more PROVE Range(d.kids[n]) \subseteq more \cup Coming(r)
    <2>1. CASE n \in known
      BY <1>2, <2>1 DEF Counted
    <2>2. CASE n = x.node
      BY <1>2, <2>2 DEF Unfolds
    <2> QED
      BY <1>7, <2>1, <2>2
  <1>8. Cardinality(Places(d, more)) = entries + 1 + Cardinality(Ahead(r))
    <2>1. Cardinality(Places(d, known)) = entries + Cardinality(Ahead(t)) /\ entries \in Nat
      BY DEF Counted
    <2>2. Cardinality(Ahead(K)) = Len(d.kids[x.node])
      BY DEF Unfolds
    <2> HIDE DEF x, r, more
    <2> QED
      BY <1>2, <1>3, <1>4, <2>1, <2>2
  <1>9. entries + 1 = Cardinality(more) + aliases
    BY <1>5 DEF Counted
  <1> HIDE DEF x, r
  <1> QED
    BY <1>1, <1>6, <1>7, <1>8, <1>9 DEF Counted, x, r

\* An alias: it has been counted, and nothing comes for it.
LEMMA CountedPasses ==
    ASSUME NEW d, IsDocument(d), NEW t \in Seq(Entry), t # <<>>, ~Head(t).leaving,
           NEW known, NEW entries, NEW aliases, Counted(d, t, known, entries, aliases),
           Head(t).node \in known
    PROVE  Counted(d, Tail(t), known, entries + 1, aliases + 1)
  <1> DEFINE none == <<>>
             r == Tail(t)
  <1>1. none \in Seq(Entry) /\ none \o Tail(t) = r /\ Len(none) = 0
    OBVIOUS
  <1>2. Ahead(none) = {} /\ Coming(none) = {}
    BY DEF Ahead, Coming
  <1> HIDE DEF none, r
  <1>3. Cardinality(Ahead(none)) = 0
    BY <1>2, FS_EmptySet
  <1>4. /\ Cardinality(Ahead(t)) >= 1
        /\ Cardinality(Ahead(r)) = Cardinality(Ahead(none)) + Cardinality(Ahead(t)) - 1
        /\ Coming(t) \subseteq Coming(r) \cup {Head(t).node}
    BY <1>1, AheadReplaced
  <1>5. Cardinality(Ahead(t)) \in Nat /\ Cardinality(known) \in Nat
    BY AheadFinite, NodesFinite DEF Counted
  <1>6. Coming(t) \subseteq known \cup Coming(r)
    BY <1>4
  <1> QED
    BY <1>3, <1>4, <1>5, <1>6 DEF Counted, r

\* There is room for what comes next only if there is room for all of it.
LEMMA CountedHead ==
    ASSUME NEW d, IsDocument(d), NEW t \in Seq(Entry), t # <<>>, ~Head(t).leaving,
           NEW known, NEW entries, NEW aliases, Counted(d, t, known, entries, aliases),
           known \subseteq Reached(d)
    PROVE  entries + 1 <= Occurrences(d) /\ Occurrences(d) \in Nat
  <1> DEFINE some == Places(d, known)
             all == Places(d, Reached(d))
  <1>1. Reached(d) \in SUBSET Node /\ known \in SUBSET Reached(d)
    <2>1. <<Root>> \in Way(d)
      BY WayTop
    <2> QED
      BY <2>1, OnTheWay
  <1>2. some \subseteq all /\ IsFiniteSet(all) /\ Cardinality(all) \in Nat
    BY <1>1, PlacesGrow, PlacesFinite
  <1>3. Cardinality(Ahead(t)) >= 1 /\ Cardinality(Ahead(t)) \in Nat
    <2>1. 1 \in Ahead(t) /\ IsFiniteSet(Ahead(t)) /\ Cardinality(Ahead(t)) \in Nat
      BY AheadFinite DEF Ahead
    <2> QED
      BY <2>1, FS_EmptySet
  <1>4. Cardinality(some) = entries + Cardinality(Ahead(t)) /\ entries \in Nat
    BY DEF Counted
  <1>5. Occurrences(d) = Cardinality(all)
    BY DEF Occurrences
  <1> HIDE DEF some, all
  <1>6. Cardinality(some) <= Cardinality(all)
    BY <1>2, FS_Subset
  <1> QED
    BY <1>2, <1>3, <1>4, <1>5, <1>6

\* What is reached is written somewhere.
LEMMA ReachedWritten ==
    ASSUME NEW d, IsDocument(d)
    PROVE  /\ Reached(d) \in SUBSET Node
           /\ \A p \in Places(d, Reached(d)) : NodeAt(d, p) \in Reached(d)
           /\ \A n \in Reached(d) : \E p \in Places(d, Reached(d)) : NodeAt(d, p) = n
  <1>1. Reached(d) \in SUBSET Node
    <2>1. <<Root>> \in Way(d)
      BY WayTop
    <2> QED
      BY <2>1, OnTheWay
  <1>2. ASSUME NEW n \in Reached(d), NEW i \in 1 .. Len(d.kids[n])
        PROVE  NodeAt(d, <<n, i>>) = d.kids[n][i] /\ d.kids[n][i] \in Reached(d)
               /\ <<n, i>> \in Places(d, Reached(d))
    <2>1. n \in Node
      BY <1>1
    <2>2. i # 0 /\ DOMAIN d.kids[n] = 1 .. Len(d.kids[n])
      BY <2>1, KidsOf
    <2>3. d.kids[n][i] \in Range(d.kids[n])
      BY <2>2 DEF Range
    <2>4. NodeAt(d, <<n, i>>) = d.kids[n][i]
      BY <2>2 DEF NodeAt
    <2> QED
      BY <1>1, <2>3, <2>4, KidsReached, PlaceIs
  <1>3. Root \in Reached(d) /\ NodeAt(d, <<Root, 0>>) = Root /\ <<Root, 0>> \in Places(d, Reached(d))
    BY <1>1, RootReached, PlaceIs DEF NodeAt
  <1>4. ASSUME NEW p \in Places(d, Reached(d)) PROVE NodeAt(d, p) \in Reached(d)
    BY <1>1, <1>2, <1>3, PlaceIs
  <1>5. ASSUME NEW n \in Reached(d) PROVE \E p \in Places(d, Reached(d)) : NodeAt(d, p) = n
    <2>1. CASE n = Root
      BY <1>3, <2>1
    <2>2. CASE n # Root
      <3>1. PICK q \in Reached(d) : \E i \in 1 .. Len(d.kids[q]) : d.kids[q][i] = n
        BY <2>2, PlaceOf
      <3>2. PICK i \in 1 .. Len(d.kids[q]) : d.kids[q][i] = n
        BY <3>1
      <3>3. <<q, i>> \in Places(d, Reached(d)) /\ NodeAt(d, <<q, i>>) = n
        BY <1>2, <3>2
      <3> QED
        BY <3>3
    <2> QED
      BY <2>1, <2>2
  <1> QED
    BY <1>1, <1>4, <1>5

\* In a tree no node has two places.
LEMMA TreeOnce ==
    ASSUME NEW d, IsDocument(d), IsTree(d)
    PROVE  Occurrences(d) <= Cardinality(Reached(d))
  <1> DEFINE all == Places(d, Reached(d))
             label == [p \in all |-> NodeAt(d, p)]
  <1>1. \A p \in all : NodeAt(d, p) \in Reached(d)
    BY ReachedWritten
  <1>2. label \in Injection(all, Reached(d))
    BY <1>1 DEF IsTree, Injection, IsInjective
  <1>3. IsFiniteSet(Reached(d))
    BY ReachedWritten, NodesFinite
  <1> HIDE DEF label, all
  <1>4. Cardinality(all) <= Cardinality(Reached(d))
    BY <1>2, <1>3, FS_Injection
  <1> QED
    BY <1>4 DEF all, Occurrences

\* Whoever writes some nodes more often than there are nodes, has written as much
\* too often when all is written.
LEMMA Beyond ==
    ASSUME NEW d, IsDocument(d), NEW N \in SUBSET Reached(d), NEW P, IsFiniteSet(P),
           Root \in P, \A n \in N : Range(d.kids[n]) \subseteq P
    PROVE  Cardinality(Reached(d)) + Cardinality(Places(d, N)) <= Occurrences(d) + Cardinality(P)
  <1> DEFINE R == Reached(d)
             all == Places(d, R)
             some == Places(d, N)
             rest == all \ some
             named == {NodeAt(d, p) : p \in rest}
             label == [p \in rest |-> NodeAt(d, p)]
  <1>1. R \in SUBSET Node /\ \A n \in R : \E p \in all : NodeAt(d, p) = n
    BY ReachedWritten
  <1>2. IsFiniteSet(all) /\ Cardinality(all) \in Nat /\ IsFiniteSet(some) /\ Cardinality(some) \in Nat
    BY <1>1, PlacesFinite
  <1>3. some \subseteq all
    BY <1>1, PlacesGrow
  <1>4. \A p \in some : NodeAt(d, p) \in P
    <2>1. ASSUME NEW n \in N, NEW i \in 1 .. Len(d.kids[n]) PROVE NodeAt(d, <<n, i>>) \in P
      <3>1. n \in Node
        BY <1>1
      <3>2. i # 0 /\ DOMAIN d.kids[n] = 1 .. Len(d.kids[n])
        BY <3>1, KidsOf
      <3>3. d.kids[n][i] \in Range(d.kids[n])
        BY <3>2 DEF Range
      <3> QED
        BY <3>2, <3>3 DEF NodeAt
    <2>2. NodeAt(d, <<Root, 0>>) \in P
      BY DEF NodeAt
    <2> QED
      BY <1>1, <2>1, <2>2, PlaceIs
  <1>5. R \subseteq P \cup named
    BY <1>1, <1>4
  <1>6. IsFiniteSet(rest) /\ Cardinality(rest) = Cardinality(all) - Cardinality(some)
    <2> HIDE DEF all, some
    <2>1. IsFiniteSet(rest) /\ rest \cap some = {} /\ rest \cup some = all
      BY <1>2, <1>3, FS_Difference
    <2> HIDE DEF rest
    <2>2. Cardinality(rest \cup some) = Cardinality(rest) + Cardinality(some)
      BY <1>2, <2>1, Apart
    <2>3. Cardinality(rest) \in Nat
      BY <2>1, FS_CardinalityType
    <2>4. Cardinality(all) = Cardinality(rest) + Cardinality(some)
      BY <2>1, <2>2
    <2>5. Cardinality(rest) = Cardinality(all) - Cardinality(some)
      BY <1>2, <2>3, <2>4
    <2> QED
      BY <2>1, <2>5 DEF rest
  <1>7. IsFiniteSet(named) /\ Cardinality(named) <= Cardinality(rest)
    <2>1. label \in Surjection(rest, named)
      <3> HIDE DEF rest
      <3> QED
        BY DEF Surjection
    <2> HIDE DEF label, rest, named
    <2> QED
      BY <1>6, <2>1, FS_Surjection
  <1> HIDE DEF named, rest, some, all
  <1>8. IsFiniteSet(P \cup named) /\ Cardinality(P \cup named) <= Cardinality(P) + Cardinality(named)
        /\ Cardinality(P) \in Nat /\ Cardinality(named) \in Nat
    <2>1. /\ IsFiniteSet(P \cup named)
          /\ Cardinality(P \cup named)
                = Cardinality(P) + Cardinality(named) - Cardinality(P \cap named)
      BY <1>7, FS_Union
    <2>2. IsFiniteSet(P \cap named)
      BY FS_Intersection
    <2>3. Cardinality(P) \in Nat /\ Cardinality(named) \in Nat /\ Cardinality(P \cap named) \in Nat
      BY <1>7, <2>2, FS_CardinalityType
    <2> QED
      BY <2>1, <2>3
  <1>9. Cardinality(R) <= Cardinality(P \cup named) /\ Cardinality(R) \in Nat
        /\ Cardinality(P \cup named) \in Nat
    <2>1. IsFiniteSet(R) /\ Cardinality(R) \in Nat
      BY <1>1, NodesFinite
    <2> HIDE DEF R
    <2>2. Cardinality(R) <= Cardinality(P \cup named)
      BY <1>5, <1>8, FS_Subset
    <2> QED
      BY <1>8, <2>1, <2>2, FS_CardinalityType
  <1>10. Occurrences(d) = Cardinality(all)
    BY DEF Occurrences, all
  <1>11. Cardinality(R) + Cardinality(some) <= Cardinality(all) + Cardinality(P)
    BY <1>2, <1>6, <1>7, <1>8, <1>9
  <1> QED
    BY <1>10, <1>11 DEF R, some

\* The nodes and the aliases counted so far are not more than the places.
LEMMA CountedAliases ==
    ASSUME NEW d, IsDocument(d), NEW t \in Seq(Entry), NEW known, NEW entries, NEW aliases,
           Counted(d, t, known, entries, aliases), known \subseteq Reached(d)
    PROVE  /\ Cardinality(Reached(d)) + aliases <= Occurrences(d)
           /\ Cardinality(Reached(d)) \in Nat /\ Occurrences(d) \in Nat
  <1> DEFINE new == Coming(t)
             P == known \cup new
             which == [i \in Ahead(t) |-> t[i].node]
  <1>1. IsFiniteSet(Ahead(t)) /\ Cardinality(Ahead(t)) \in Nat
    BY AheadFinite
  <1>2. IsFiniteSet(new) /\ Cardinality(new) <= Cardinality(Ahead(t))
    <2>1. which \in Surjection(Ahead(t), new)
      BY DEF Surjection, Coming
    <2> HIDE DEF which, new
    <2> QED
      BY <1>1, <2>1, FS_Surjection
  <1>3. IsFiniteSet(known) /\ Cardinality(known) \in Nat
    BY NodesFinite DEF Counted
  <1>4. IsFiniteSet(P) /\ Cardinality(P) <= Cardinality(known) + Cardinality(new)
        /\ Cardinality(P) \in Nat /\ Cardinality(new) \in Nat
    <2> HIDE DEF new
    <2>1. /\ IsFiniteSet(P)
          /\ Cardinality(P) = Cardinality(known) + Cardinality(new) - Cardinality(known \cap new)
      BY <1>2, <1>3, FS_Union
    <2>2. IsFiniteSet(known \cap new)
      BY <1>2, <1>3, FS_Intersection
    <2>3. Cardinality(new) \in Nat /\ Cardinality(known \cap new) \in Nat /\ Cardinality(P) \in Nat
      BY <1>2, <2>1, <2>2, FS_CardinalityType
    <2> QED
      BY <1>3, <2>1, <2>3
  <1>5. Cardinality(Reached(d)) + Cardinality(Places(d, known)) <= Occurrences(d) + Cardinality(P)
    <2>1. Root \in P /\ \A n \in known : Range(d.kids[n]) \subseteq P
      BY DEF Counted
    <2> HIDE DEF P
    <2> QED
      BY <1>4, <2>1, Beyond
  <1>6. Cardinality(Reached(d)) \in Nat /\ Occurrences(d) \in Nat
    BY ReachedWritten, NodesFinite, PlacesFinite DEF Occurrences
  <1>7. /\ Cardinality(Places(d, known)) = entries + Cardinality(Ahead(t))
        /\ entries = Cardinality(known) + aliases /\ entries \in Nat /\ aliases \in Nat
    BY DEF Counted
  <1> HIDE DEF P, new
  <1> QED
    BY <1>1, <1>2, <1>3, <1>4, <1>5, <1>6, <1>7, SMTT(60)

\* An alias is one more than there were; and in a tree there is none.
LEMMA CountedAgain ==
    ASSUME NEW d, IsDocument(d), NEW t \in Seq(Entry), t # <<>>, ~Head(t).leaving,
           NEW known, NEW entries, NEW aliases, Counted(d, t, known, entries, aliases),
           known \subseteq Reached(d), Head(t).node \in known
    PROVE  Cardinality(Reached(d)) + (aliases + 1) <= Occurrences(d) /\ ~IsTree(d)
  <1>1. Counted(d, Tail(t), known, entries + 1, aliases + 1) /\ Tail(t) \in Seq(Entry)
    BY CountedPasses
  <1>2. /\ Cardinality(Reached(d)) + (aliases + 1) <= Occurrences(d)
        /\ Cardinality(Reached(d)) \in Nat /\ Occurrences(d) \in Nat
    BY <1>1, CountedAliases
  <1>3. aliases \in Nat
    BY DEF Counted
  <1>4. ~IsTree(d)
    BY <1>2, <1>3, TreeOnce
  <1> QED
    BY <1>2, <1>4

\* When nothing is left, all has been counted.
LEMMA CountedEnds ==
    ASSUME NEW d, IsDocument(d), NEW known, NEW entries, NEW aliases,
           Counted(d, <<>>, known, entries, aliases), known \subseteq Reached(d)
    PROVE  /\ known = Reached(d) /\ Occurrences(d) = entries
           /\ Cardinality(Reached(d)) + aliases = entries
  <1>1. Ahead(<<>>) = {} /\ Coming(<<>>) = {}
    BY DEF Ahead, Coming
  <1>2. Cardinality(Ahead(<<>>)) = 0
    BY <1>1, FS_EmptySet
  <1>3. Root \in known /\ \A n \in known : Range(d.kids[n]) \subseteq known
    BY <1>1 DEF Counted
  <1>4. known = Reached(d)
    BY <1>3, ClosedHolds
  <1>5. Cardinality(Places(d, known)) = entries + 0 /\ entries \in Nat
        /\ Cardinality(known) + aliases = entries
    BY <1>2 DEF Counted
  <1> QED
    BY <1>4, <1>5 DEF Occurrences

-----------------------------------------------------------------------------
(* The steps of the first look.                                            *)

\* The way to what is looked at.
LEMMA MetOn ==
    ASSUME NEW d, IsDocument(d), NEW known, NEW x, Met(d, known, x), x.node \notin known
    PROVE  \E w \in Way(d) : /\ w[Len(w)] = x.node /\ Len(w) = x.depth + 1
                             /\ Range(w) \subseteq known \cup {x.node}
  <1>1. CASE x.node = Root /\ x.depth = 0
    BY <1>1, WayTop
  <1>2. CASE \E w \in Way(d) : /\ Range(w) \subseteq known /\ Len(w) = x.depth
                               /\ x.node \in Range(d.kids[w[Len(w)]])
    <2>1. PICK w \in Way(d) : /\ Range(w) \subseteq known /\ Len(w) = x.depth
                              /\ x.node \in Range(d.kids[w[Len(w)]])
      BY <1>2
    <2>2. x.node \notin Range(w)
      BY <2>1
    <2> DEFINE c == x.node
               on == Append(w, c)
    <2>3. on \in Way(d) /\ Len(on) = Len(w) + 1 /\ on[Len(w) + 1] = c /\ Range(on) = Range(w) \cup {c}
      BY <2>1, <2>2, WayOn
    <2> HIDE DEF on
    <2> QED
      BY <2>1, <2>3
  <1> QED
    BY <1>1, <1>2 DEF Met

\* The ways to what is on the stack, when the head gives way to other entries.
LEMMA WalkedReplaced ==
    ASSUME NEW d, IsDocument(d), NEW t, NEW known, Walked(d, t, known), t # <<>>, ~Head(t).leaving,
           NEW more \in SUBSET Node, known \subseteq more,
           \A n \in more \ known : \E w \in Way(d) : /\ w[Len(w)] = n /\ Len(w) - 1 <= MaxDepth
                                                    /\ Range(w) \subseteq more,
           NEW K \in Seq(Entry),
           \A i \in 1 .. Len(K) : IF K[i].leaving THEN K[i].node \in more \cap d.flawed
                                                 ELSE Met(d, more, K[i]),
           \A n \in (more \ known) \cap d.flawed :
              \E i \in 1 .. Len(K) : K[i].leaving /\ K[i].node = n
    PROVE  Walked(d, K \o Tail(t), more)
  <1> DEFINE r == K \o Tail(t)
  <1>1. t \in Seq(Entry)
    BY DEF Walked
  <1>2. /\ r \in Seq(Entry) /\ Len(r) = Len(K) + Len(t) - 1
        /\ Len(K) \in Nat /\ Len(t) \in Nat \ {0}
        /\ \A i \in 1 .. Len(K) : r[i] = K[i]
        /\ \A i \in 2 .. Len(t) : r[Len(K) + i - 1] = t[i]
        /\ \A k \in 1 .. Len(r) :
              \/ k \in 1 .. Len(K)
              \/ \E i \in 2 .. Len(t) : k = Len(K) + i - 1
    BY <1>1, Replaced
  <1> HIDE DEF r
  <1>3. ASSUME NEW n \in more
        PROVE  \E w \in Way(d) : /\ w[Len(w)] = n /\ Len(w) - 1 <= MaxDepth
                                 /\ Range(w) \subseteq more
    <2>1. CASE n \in known
      <3>1. PICK w \in Way(d) : /\ w[Len(w)] = n /\ Len(w) - 1 <= MaxDepth
                                /\ Range(w) \subseteq known
        BY <2>1 DEF Walked
      <3> QED
        BY <3>1
    <2> QED
      BY <2>1
  <1>4. ASSUME NEW k \in 1 .. Len(r)
        PROVE  IF r[k].leaving THEN r[k].node \in more \cap d.flawed ELSE Met(d, more, r[k])
    <2>1. CASE k \in 1 .. Len(K)
      BY <1>2, <2>1
    <2>2. CASE \E i \in 2 .. Len(t) : k = Len(K) + i - 1
      <3>1. PICK i \in 2 .. Len(t) : k = Len(K) + i - 1
        BY <2>2
      <3>2. i \in 1 .. Len(t) /\ r[k] = t[i]
        BY <1>2, <3>1
      <3>3. IF t[i].leaving THEN t[i].node \in known \cap d.flawed ELSE Met(d, known, t[i])
        BY <3>2 DEF Walked
      <3>4. Met(d, known, t[i]) => Met(d, more, t[i])
        BY DEF Met
      <3> QED
        BY <3>2, <3>3, <3>4
    <2> QED
      BY <1>2, <2>1, <2>2
  <1>5. ASSUME NEW n \in more \cap d.flawed
        PROVE  \E i \in 1 .. Len(r) : r[i].leaving /\ r[i].node = n
    <2>1. CASE n \in known
      <3>1. PICK i \in 1 .. Len(t) : t[i].leaving /\ t[i].node = n
        BY <2>1 DEF Walked
      <3>2. i \in 2 .. Len(t)
        <4>1. Head(t) = t[1]
          BY <1>1, HeadIs
        <4>2. i # 1
          BY <3>1, <4>1
        <4> QED
          BY <1>2, <4>2
      <3>3. Len(K) + i - 1 \in 1 .. Len(r) /\ r[Len(K) + i - 1] = t[i]
        BY <1>2, <3>2
      <3> QED
        BY <3>1, <3>3
    <2>2. CASE n \notin known
      <3>1. PICK i \in 1 .. Len(K) : K[i].leaving /\ K[i].node = n
        BY <2>2
      <3>2. i \in 1 .. Len(r) /\ r[i] = K[i]
        BY <1>2
      <3> QED
        BY <3>1, <3>2
    <2> QED
      BY <2>1, <2>2
  <1> QED
    BY <1>2, <1>3, <1>4, <1>5 DEF Walked, r

\* The head is passed.
LEMMA WalkedPasses ==
    ASSUME NEW d, IsDocument(d), NEW t, NEW known, Walked(d, t, known), t # <<>>, ~Head(t).leaving
    PROVE  Walked(d, Tail(t), known)
  <1> DEFINE none == <<>>
  <1>1. t \in Seq(Entry) /\ known \in SUBSET Node
    BY DEF Walked
  <1>2. none \in Seq(Entry) /\ Len(none) = 0 /\ none \o Tail(t) = Tail(t)
    BY <1>1
  <1> HIDE DEF none
  <1>3. \A i \in 1 .. Len(none) : FALSE
    BY <1>2
  <1>4. Walked(d, none \o Tail(t), known)
    BY <1>1, <1>2, <1>3, WalkedReplaced
  <1> QED
    BY <1>2, <1>4

\* A node is entered: its children are a step further on.
LEMMA WalkedEnters ==
    ASSUME NEW d, IsDocument(d), NEW t, NEW known, Walked(d, t, known), t # <<>>, ~Head(t).leaving,
           Head(t).node \notin known, Head(t).depth <= MaxDepth, NEW K, Unfolds(d, Head(t), K)
    PROVE  Walked(d, K \o Tail(t), known \cup {Head(t).node})
  <1> DEFINE x == Head(t)
             more == known \cup {x.node}
  <1>1. t \in Seq(Entry) /\ known \subseteq Node /\ K \in Seq(Entry)
    BY DEF Walked, Unfolds
  <1>2. Len(t) \in Nat \ {0} /\ x = t[1] /\ x.node \in Node /\ x.depth \in Nat
    BY <1>1, HeadIs
  <1>3. Met(d, known, x)
    <2>1. 1 \in 1 .. Len(t)
      BY <1>2
    <2> QED
      BY <1>2, <2>1 DEF Walked
  <1>4. PICK w \in Way(d) : /\ w[Len(w)] = x.node /\ Len(w) = x.depth + 1
                            /\ Range(w) \subseteq more
    BY <1>3, MetOn
  <1>5. MaxDepth \in Nat /\ Len(w) - 1 <= MaxDepth
    BY <1>2, <1>4, DocumentAssumption
  <1>6. ASSUME NEW i \in 1 .. Len(K)
        PROVE  IF K[i].leaving THEN K[i].node \in more \cap d.flawed ELSE Met(d, more, K[i])
    <2>1. CASE K[i].leaving
      BY <2>1 DEF Unfolds
    <2>2. CASE ~K[i].leaving
      <3>1. K[i].node \in Range(d.kids[x.node]) /\ K[i].depth = x.depth + 1
        BY <2>2 DEF Unfolds, Ahead, Coming
      <3> QED
        BY <1>4, <2>2, <3>1 DEF Met
    <2> QED
      BY <2>1, <2>2
  <1>7. \A n \in (more \ known) \cap d.flawed :
           \E i \in 1 .. Len(K) : K[i].leaving /\ K[i].node = n
    BY DEF Unfolds
  <1>8. more \in SUBSET Node
    BY <1>1, <1>2
  <1>9. \A n \in more \ known : \E u \in Way(d) : /\ u[Len(u)] = n /\ Len(u) - 1 <= MaxDepth
                                                  /\ Range(u) \subseteq more
    BY <1>4, <1>5
  <1>10. known \subseteq more
    OBVIOUS
  <1> HIDE DEF x, more
  <1>11. Walked(d, K \o Tail(t), more)
    BY <1>1, <1>6, <1>7, <1>8, <1>9, <1>10, WalkedReplaced DEF x
  <1> QED
    BY <1>11 DEF x, more

\* A sequence with one entry more.
LEMMA Ended ==
    ASSUME NEW K \in Seq(Entry), NEW x \in Entry
    PROVE  /\ K \o <<x>> \in Seq(Entry) /\ Len(K \o <<x>>) = Len(K) + 1
           /\ (K \o <<x>>)[Len(K) + 1] = x
           /\ \A i \in 1 .. Len(K) : (K \o <<x>>)[i] = K[i]
  OBVIOUS

\* The children of a node, and the mark behind them.
LEMMA KidsAre ==
    ASSUME NEW d, IsDocument(d), NEW x \in Entry
    PROVE  /\ Kids(d, x) \in Seq(Entry) /\ Len(Kids(d, x)) = Len(d.kids[x.node])
           /\ Len(d.kids[x.node]) \in Nat
           /\ \A i \in 1 .. Len(d.kids[x.node]) :
                 Kids(d, x)[i] = [node |-> d.kids[x.node][i], depth |-> x.depth + 1, leaving |-> FALSE]
           /\ Range(d.kids[x.node]) = {d.kids[x.node][i] : i \in 1 .. Len(d.kids[x.node])}
  <1> DEFINE kids == d.kids[x.node]
  <1>1. x.node \in Node /\ x.depth \in Nat
    BY DEF Entry
  <1>2. kids \in Seq(Node) /\ DOMAIN kids = 1 .. Len(kids) /\ Len(kids) \in Nat
    BY <1>1, KidsOf
  <1>3. Range(kids) = {kids[i] : i \in 1 .. Len(kids)}
    BY <1>2 DEF Range
  <1>4. Kids(d, x) = [i \in 1 .. Len(kids) |-> At(kids[i], x.depth + 1)]
    BY <1>2 DEF Kids
  <1> HIDE DEF kids
  <1>5. \A i \in 1 .. Len(kids) :
           /\ At(kids[i], x.depth + 1) = [node |-> kids[i], depth |-> x.depth + 1, leaving |-> FALSE]
           /\ At(kids[i], x.depth + 1) \in Entry
    BY <1>1, <1>2 DEF At, Entry
  <1>6. Kids(d, x) \in Seq(Entry) /\ Len(Kids(d, x)) = Len(kids)
    <2> DEFINE f == Kids(d, x)
               n == Len(kids)
    <2>1. f \in [1 .. n -> Entry]
      BY <1>4, <1>5
    <2>2. n \in Nat
      BY <1>2
    <2> HIDE DEF f, n
    <2>3. f \in Seq(Entry) /\ Len(f) = n
      BY <2>1, <2>2
    <2> QED
      BY <2>3 DEF f, n
  <1>7. \A i \in 1 .. Len(kids) :
           Kids(d, x)[i] = [node |-> kids[i], depth |-> x.depth + 1, leaving |-> FALSE]
    BY <1>4, <1>5
  <1> QED
    BY <1>2, <1>3, <1>6, <1>7 DEF kids

\* What the first look pushes are the children, and the mark of a flaw.
LEMMA UnfoldsKids ==
    ASSUME NEW d, IsDocument(d), NEW x \in Entry
    PROVE  Unfolds(d, x, Kids(d, x) \o BadKey(d, x))
  <1> DEFINE kids == d.kids[x.node]
             n == Len(kids)
             all == Kids(d, x)
             K == all \o BadKey(d, x)
  <1>1. /\ all \in Seq(Entry) /\ Len(all) = n /\ n \in Nat
        /\ \A i \in 1 .. n : all[i] = [node |-> kids[i], depth |-> x.depth + 1, leaving |-> FALSE]
        /\ Range(kids) = {kids[i] : i \in 1 .. n}
    BY KidsAre, ZenonT(60)
  <1> HIDE DEF all, n, kids
  <1>2. ASSUME x.node \notin d.flawed PROVE K = all
    BY <1>1, <1>2 DEF BadKey
  <1>3. ASSUME x.node \in d.flawed
        PROVE  /\ K \in Seq(Entry) /\ Len(K) = n + 1 /\ K[n + 1].leaving /\ K[n + 1].node = x.node
               /\ \A i \in 1 .. n : K[i] = all[i]
    <2> DEFINE mark == [x EXCEPT !.leaving = TRUE]
    <2>1. BadKey(d, x) = <<mark>> /\ mark \in Entry /\ mark.leaving /\ mark.node = x.node
      BY <1>3 DEF BadKey, Entry
    <2> HIDE DEF mark
    <2> QED
      BY <1>1, <2>1
  <1>4. K \in Seq(Entry) /\ Len(K) \in {n, n + 1} /\ \A i \in 1 .. n : K[i] = all[i]
    BY <1>1, <1>2, <1>3
  <1>5. ASSUME NEW i \in 1 .. Len(K), i \notin 1 .. n
        PROVE  K[i].leaving /\ K[i].node = x.node /\ x.node \in d.flawed
    <2>1. Len(K) = n + 1 /\ i = n + 1
      BY <1>1, <1>4, <1>5
    <2>2. x.node \in d.flawed
      BY <1>1, <1>2, <2>1
    <2> QED
      BY <1>3, <2>1, <2>2
  <1> HIDE DEF K
  <1>6. \A i \in 1 .. n : K[i].node = kids[i] /\ K[i].depth = x.depth + 1 /\ ~K[i].leaving
    BY <1>1, <1>4
  <1>7. Ahead(K) = 1 .. n
    BY <1>1, <1>4, <1>5, <1>6 DEF Ahead
  <1>8. Cardinality(Ahead(K)) = n
    BY <1>1, <1>7, UpTo
  <1>9. Coming(K) = Range(kids)
    BY <1>1, <1>6, <1>7 DEF Coming
  <1>10. \A i \in 1 .. Len(K) :
            IF K[i].leaving THEN K[i].node = x.node /\ x.node \in d.flawed
                            ELSE K[i].depth = x.depth + 1
    BY <1>5, <1>6
  <1>11. x.node \in d.flawed => \E i \in 1 .. Len(K) : K[i].leaving
    BY <1>1, <1>3 DEF K
  <1> QED
    BY <1>4, <1>8, <1>9, <1>10, <1>11 DEF Unfolds, K, kids, n, all

\* What the look at a checkpoint pushes are the children, in reverse.
LEMMA UnfoldsStacked ==
    ASSUME NEW d, IsDocument(d), NEW x \in Entry, x.node \notin d.flawed
    PROVE  /\ Unfolds(d, x, Stacked(d, x))
           /\ \A i \in 1 .. Len(Stacked(d, x)) : ~Stacked(d, x)[i].leaving
  <1> DEFINE kids == d.kids[x.node]
             n == Len(kids)
             all == Kids(d, x)
             K == Stacked(d, x)
  <1>1. /\ all \in Seq(Entry) /\ Len(all) = n /\ n \in Nat
        /\ \A i \in 1 .. n : all[i] = [node |-> kids[i], depth |-> x.depth + 1, leaving |-> FALSE]
        /\ Range(kids) = {kids[i] : i \in 1 .. n}
    BY KidsAre
  <1>2. K = [i \in 1 .. n |-> all[n + 1 - i]]
    BY DEF Stacked
  <1> HIDE DEF all, n, kids, K
  <1>3. \A i \in 1 .. n : n + 1 - i \in 1 .. n /\ n + 1 - (n + 1 - i) = i
    BY <1>1
  <1>4. K \in Seq(Entry) /\ Len(K) = n
    <2>1. \A i \in 1 .. n : all[n + 1 - i] \in Entry
      BY <1>1, <1>3
    <2> QED
      BY <1>1, <1>2, <2>1
  <1>5. \A i \in 1 .. n : /\ K[i].node = kids[n + 1 - i]
                          /\ K[i].depth = x.depth + 1 /\ ~K[i].leaving
    BY <1>1, <1>2, <1>3
  <1>6. Ahead(K) = 1 .. n
    BY <1>4, <1>5 DEF Ahead
  <1>7. Cardinality(Ahead(K)) = n
    BY <1>1, <1>6, UpTo
  <1>8. Coming(K) = Range(kids)
    <2>1. ASSUME NEW i \in 1 .. n PROVE K[i].node \in Range(kids)
      BY <1>1, <1>3, <1>5
    <2>2. ASSUME NEW i \in 1 .. n PROVE kids[i] \in Coming(K)
      <3>1. n + 1 - i \in Ahead(K) /\ K[n + 1 - i].node = kids[n + 1 - (n + 1 - i)]
        BY <1>3, <1>5, <1>6
      <3>2. K[n + 1 - i].node = kids[i]
        BY <1>3, <3>1
      <3> QED
        BY <3>1, <3>2 DEF Coming
    <2> QED
      BY <1>1, <1>6, <2>1, <2>2, SMTT(60) DEF Coming
  <1> QED
    BY <1>4, <1>5, <1>7, <1>8 DEF Unfolds, K, kids, n

-----------------------------------------------------------------------------
(* The first look, step by step.                                           *)

Moment == [todo : Seq(Entry), known : SUBSET Node]

\* One step of it, wherever it leads.
Looks(d, a, b) ==
    /\ a.todo # <<>> /\ ~Head(a.todo).leaving /\ Head(a.todo).depth <= MaxDepth
    /\ IF Head(a.todo).node \in a.known
       THEN b.todo = Tail(a.todo) /\ b.known = a.known
       ELSE /\ b.todo = Kids(d, Head(a.todo)) \o BadKey(d, Head(a.todo)) \o Tail(a.todo)
            /\ b.known = a.known \cup {Head(a.todo).node}

\* Its steps so far.
Looked(d, run, todo, known) ==
    /\ run \in Seq(Moment) /\ run # <<>>
    /\ run[1] = [todo |-> <<At(Root, 0)>>, known |-> {}]
    /\ \A i \in 1 .. Len(run) - 1 : Looks(d, run[i], run[i + 1])
    /\ run[Len(run)] = [todo |-> todo, known |-> known]

\* The record of the first look, at its beginning ...
LEMMA LookedInit ==
    ASSUME NEW d PROVE \E run : Looked(d, run, <<At(Root, 0)>>, {})
  <1> DEFINE start == [todo |-> <<At(Root, 0)>>, known |-> {}]
  <1>1. At(Root, 0) \in Entry
    BY DocumentAssumption DEF At, Entry
  <1>2. start \in Moment
    BY <1>1 DEF Moment
  <1>3. Looked(d, <<start>>, <<At(Root, 0)>>, {})
    BY <1>2 DEF Looked
  <1> QED
    BY <1>3

\* ... and after a step.
LEMMA LookedOn ==
    ASSUME NEW d, NEW todo, NEW known, \E run : Looked(d, run, todo, known),
           NEW t \in Seq(Entry), NEW k \in SUBSET Node,
           Looks(d, [todo |-> todo, known |-> known], [todo |-> t, known |-> k])
    PROVE  \E run : Looked(d, run, t, k)
  <1>1. PICK run : Looked(d, run, todo, known)
    OBVIOUS
  <1> DEFINE now == [todo |-> t, known |-> k]
             on == Append(run, now)
  <1>2. now \in Moment /\ run \in Seq(Moment) /\ run # <<>>
    BY <1>1 DEF Moment, Looked
  <1>3. Len(run) \in Nat \ {0} /\ run[Len(run)] = [todo |-> todo, known |-> known]
    BY <1>1, <1>2 DEF Looked
  <1>4. /\ on \in Seq(Moment) /\ Len(on) = Len(run) + 1 /\ on[Len(run) + 1] = now
        /\ \A i \in 1 .. Len(run) : on[i] = run[i]
    <2> HIDE DEF now
    <2> QED
      BY <1>2, <1>3
  <1>5. Looks(d, run[Len(run)], now)
    BY <1>3
  <1> HIDE DEF on, now
  <1>6. ASSUME NEW i \in 1 .. Len(on) - 1 PROVE Looks(d, on[i], on[i + 1])
    <2>1. i \in 1 .. Len(run) /\ on[i] = run[i]
      BY <1>3, <1>4
    <2>2. CASE i = Len(run)
      BY <1>4, <1>5, <2>1, <2>2
    <2>3. CASE i # Len(run)
      <3>1. i \in 1 .. Len(run) - 1 /\ i + 1 \in 1 .. Len(run)
        BY <1>3, <2>1, <2>3
      <3> QED
        BY <1>1, <1>4, <2>1, <3>1 DEF Looked
    <2> QED
      BY <2>2, <2>3
  <1>7. on[1] = run[1] /\ on # <<>> /\ on[Len(on)] = now
    BY <1>3, <1>4
  <1>8. Looked(d, on, t, k)
    BY <1>1, <1>4, <1>6, <1>7 DEF Looked, now
  <1> QED
    BY <1>8

\* How far it has come while nothing has been refused.
Fields == {"todo", "known", "active", "entries", "aliases", "verdict"}

FirstLook(d, s) ==
    /\ Fields \subseteq DOMAIN s
    /\ Walked(d, s.todo, s.known)
    /\ Counted(d, s.todo, s.known, s.entries, s.aliases)
    /\ s.entries <= MaxEntries /\ s.aliases <= MaxAliases
    /\ \E run : Looked(d, run, s.todo, s.known)

\* ... and what a refusal says.
Unfit(d) == ~Acceptable(d) \/ DeepSomewhere(d)

\* The first look begins.
LEMMA FirstLookInit ==
    ASSUME NEW d, IsDocument(d)
    PROVE  FirstLook(d, ComposeAll)
  <1> DEFINE todo == <<At(Root, 0)>>
  <1>1. /\ At(Root, 0) \in Entry /\ At(Root, 0).node = Root /\ At(Root, 0).depth = 0
        /\ ~At(Root, 0).leaving
    BY DocumentAssumption DEF At, Entry
  <1>2. todo \in Seq(Entry) /\ Len(todo) = 1 /\ todo[1] = At(Root, 0)
    BY <1>1
  <1> HIDE DEF todo
  <1>3. Ahead(todo) = {1} /\ Coming(todo) = {Root}
    BY <1>1, <1>2 DEF Ahead, Coming
  <1>4. Cardinality(Ahead(todo)) = 1 /\ Cardinality({}) = 0
    BY <1>3, FS_Singleton, FS_EmptySet
  <1>5. Places(d, {}) = {<<Root, 0>>}
    BY DEF Places
  <1>6. Cardinality(Places(d, {})) = 1
    BY <1>5, FS_Singleton
  <1>7. Counted(d, todo, {}, 0, 0)
    BY <1>3, <1>4, <1>6 DEF Counted
  <1>8. Walked(d, todo, {})
    BY <1>1, <1>2 DEF Walked, Met
  <1>9. \E run : Looked(d, run, todo, {})
    BY LookedInit DEF todo
  <1>10. /\ ComposeAll.todo = todo /\ ComposeAll.known = {} /\ ComposeAll.entries = 0
         /\ ComposeAll.aliases = 0 /\ DOMAIN ComposeAll = Fields
    BY DEF ComposeAll, Fields, todo
  <1> QED
    BY <1>7, <1>8, <1>9, <1>10, DocumentAssumption DEF FirstLook

\* The types of what the first look is about.
LEMMA FirstLookIs ==
    ASSUME NEW d, NEW s, FirstLook(d, s)
    PROVE  /\ s.todo \in Seq(Entry) /\ s.known \subseteq Node /\ s.known \subseteq Reached(d)
           /\ s.entries \in Nat /\ s.aliases \in Nat
           /\ s.todo # <<>> =>
                 /\ Head(s.todo) \in Entry /\ Head(s.todo).node \in Node
                 /\ Head(s.todo).depth \in Nat
                 /\ IF Head(s.todo).leaving THEN Head(s.todo).node \in s.known \cap d.flawed
                                            ELSE Met(d, s.known, Head(s.todo))
  <1>1. s.todo \in Seq(Entry) /\ s.known \subseteq Node
    BY DEF FirstLook, Walked
  <1>2. s.known \subseteq Reached(d)
    BY WalkedReached DEF FirstLook
  <1>3. s.todo # <<>> => /\ Head(s.todo) = s.todo[1] /\ 1 \in 1 .. Len(s.todo)
                         /\ Head(s.todo) \in Entry
    BY <1>1
  <1>4. s.todo # <<>> => Head(s.todo).node \in Node /\ Head(s.todo).depth \in Nat
    BY <1>1, HeadIs
  <1> QED
    BY <1>1, <1>2, <1>3, <1>4 DEF FirstLook, Walked, Counted

\* It enters a node.
LEMMA FirstLookEnters ==
    ASSUME NEW d, IsDocument(d), NEW s, FirstLook(d, s), s.todo # <<>>, ~Head(s.todo).leaving,
           ~Exceeds(s, Head(s.todo)), Head(s.todo).node \notin s.known
    PROVE  FirstLook(d, Enters(d, s, Head(s.todo)))
  <1> DEFINE t == s.todo
             x == Head(t)
             K == Kids(d, x) \o BadKey(d, x)
             more == s.known \cup {x.node}
             r == K \o Tail(t)
             e == Enters(d, s, x)
  <1>1. /\ t \in Seq(Entry) /\ s.known \subseteq Node /\ s.entries \in Nat /\ s.aliases \in Nat
        /\ x \in Entry /\ x.node \in Node /\ x.depth \in Nat
    BY FirstLookIs
  <1>2. x.depth <= MaxDepth /\ s.entries + 1 <= MaxEntries
    BY <1>1, DocumentAssumption DEF Exceeds
  <1>3. Unfolds(d, x, K)
    BY <1>1, UnfoldsKids
  <1>4. /\ e.todo = r /\ e.known = more /\ e.entries = s.entries + 1 /\ e.aliases = s.aliases
        /\ DOMAIN e = DOMAIN s
    BY DEF Enters, FirstLook, Fields
  <1> HIDE DEF K, e
  <1>5. Walked(d, r, more)
    <2>1. Walked(d, t, s.known)
      BY DEF FirstLook
    <2> QED
      BY <1>2, <1>3, <2>1, WalkedEnters
  <1>6. Counted(d, r, more, s.entries + 1, s.aliases)
    <2>1. Counted(d, t, s.known, s.entries, s.aliases)
      BY DEF FirstLook
    <2> QED
      BY <1>1, <1>3, <2>1, CountedEnters
  <1>7. r \in Seq(Entry) /\ more \in SUBSET Node
    BY <1>5 DEF Walked
  <1>8. \E run : Looked(d, run, r, more)
    <2> DEFINE a == [todo |-> t, known |-> s.known]
               b == [todo |-> r, known |-> more]
    <2>1. \E run : Looked(d, run, t, s.known)
      BY DEF FirstLook
    <2>2. Looks(d, a, b)
      BY <1>2 DEF Looks, K
    <2> HIDE DEF r, more, t
    <2> QED
      BY <1>7, <2>1, <2>2, LookedOn
  <1> QED
    BY <1>2, <1>4, <1>5, <1>6, <1>8 DEF FirstLook, e

\* It passes an alias.
LEMMA FirstLookPasses ==
    ASSUME NEW d, IsDocument(d), NEW s, FirstLook(d, s), s.todo # <<>>, ~Head(s.todo).leaving,
           ~Exceeds(s, Head(s.todo)), Head(s.todo).node \in s.known, s.aliases # MaxAliases,
           NEW e, e = [s EXCEPT !.entries = @ + 1, !.aliases = @ + 1, !.todo = Tail(@)]
    PROVE  FirstLook(d, e)
  <1> DEFINE t == s.todo
             x == Head(t)
             r == Tail(t)
  <1>1. /\ t \in Seq(Entry) /\ s.known \subseteq Node /\ s.entries \in Nat /\ s.aliases \in Nat
        /\ x \in Entry /\ x.node \in Node /\ x.depth \in Nat
    BY FirstLookIs
  <1>2. x.depth <= MaxDepth /\ s.entries + 1 <= MaxEntries /\ s.aliases + 1 <= MaxAliases
    BY <1>1, DocumentAssumption, SMTT(60) DEF Exceeds, FirstLook
  <1>3. /\ e.todo = r /\ e.known = s.known /\ e.entries = s.entries + 1
        /\ e.aliases = s.aliases + 1 /\ DOMAIN e = DOMAIN s
    BY DEF FirstLook, Fields
  <1>4. Walked(d, r, s.known)
    BY WalkedPasses DEF FirstLook
  <1>5. Counted(d, r, s.known, s.entries + 1, s.aliases + 1)
    BY <1>1, CountedPasses DEF FirstLook
  <1>6. \E run : Looked(d, run, r, s.known)
    <2> DEFINE a == [todo |-> t, known |-> s.known]
               b == [todo |-> r, known |-> s.known]
    <2>1. \E run : Looked(d, run, t, s.known)
      BY DEF FirstLook
    <2>2. Looks(d, a, b)
      BY <1>2 DEF Looks
    <2>3. r \in Seq(Entry) /\ s.known \in SUBSET Node
      BY <1>1, <1>4 DEF Walked
    <2> HIDE DEF r, t
    <2> QED
      BY <2>1, <2>2, <2>3, LookedOn
  <1> QED
    BY <1>2, <1>3, <1>4, <1>5, <1>6 DEF FirstLook

\* Whatever it refuses is at fault.
LEMMA FirstLookRefuses ==
    ASSUME NEW d, IsDocument(d), NEW s, FirstLook(d, s), s.todo # <<>>
    PROVE  /\ Head(s.todo).leaving => Unfit(d)
           /\ ~Head(s.todo).leaving /\ Exceeds(s, Head(s.todo)) => Unfit(d)
           /\ ~Head(s.todo).leaving /\ Head(s.todo).node \in s.known =>
                 ~IsTree(d) /\ (s.aliases = MaxAliases => Unfit(d))
  <1> DEFINE t == s.todo
             x == Head(t)
  <1>1. /\ t \in Seq(Entry) /\ s.known \subseteq Node /\ s.entries \in Nat /\ s.aliases \in Nat
        /\ x \in Entry /\ x.node \in Node /\ x.depth \in Nat
        /\ s.known \subseteq Reached(d)
        /\ IF x.leaving THEN x.node \in s.known \cap d.flawed ELSE Met(d, s.known, x)
    BY FirstLookIs
  <1>2. Counted(d, t, s.known, s.entries, s.aliases)
    BY DEF FirstLook
  <1>3. MaxDepth \in Nat /\ MaxEntries \in Nat /\ MaxAliases \in Nat
    BY DocumentAssumption
  <1>4. ASSUME x.leaving PROVE Unfit(d)
    <2>1. d.flawed \cap Reached(d) # {}
      BY <1>1, <1>4
    <2> QED
      BY <2>1 DEF Unfit, Acceptable
  <1>5. ASSUME ~x.leaving, x.depth > MaxDepth PROVE Unfit(d)
    <2>1. x.depth # 0
      BY <1>1, <1>3, <1>5
    <2>2. PICK w \in Way(d) : Len(w) = x.depth /\ x.node \in Range(d.kids[w[Len(w)]])
      BY <1>1, <1>5, <2>1 DEF Met
    <2>3. d.kids[w[Len(w)]] # <<>>
      BY <2>2 DEF Range
    <2>4. DeepSomewhere(d)
      BY <1>5, <2>2, <2>3 DEF DeepSomewhere
    <2> QED
      BY <2>4 DEF Unfit
  <1>6. ASSUME ~x.leaving, s.entries + 1 > MaxEntries PROVE Unfit(d)
    <2>1. s.entries + 1 <= Occurrences(d) /\ Occurrences(d) \in Nat
      BY <1>1, <1>2, <1>6, CountedHead
    <2>2. ~(Occurrences(d) <= MaxEntries)
      BY <1>1, <1>3, <1>6, <2>1
    <2> QED
      BY <2>2 DEF Unfit, Acceptable
  <1>7. ASSUME ~x.leaving, x.node \in s.known
        PROVE  ~IsTree(d) /\ (s.aliases = MaxAliases => Unfit(d))
    <2>1. Cardinality(Reached(d)) + (s.aliases + 1) <= Occurrences(d) /\ ~IsTree(d)
      BY <1>1, <1>2, <1>7, CountedAgain
    <2>2. Cardinality(Reached(d)) \in Nat /\ Occurrences(d) \in Nat
      BY <1>1, <1>2, CountedAliases
    <2>3. s.aliases = MaxAliases => ~(Occurrences(d) - Cardinality(Reached(d)) <= MaxAliases)
      BY <1>3, <2>1, <2>2
    <2> QED
      BY <2>1, <2>3 DEF Unfit, Acceptable
  <1> QED
    BY <1>4, <1>5, <1>6, <1>7 DEF Exceeds

\* What it has found when nothing is left.
Composed(d) ==
    /\ d.flawed \cap Reached(d) = {} /\ Occurrences(d) <= MaxEntries /\ ~TooDeep(d)
    /\ Occurrences(d) - Cardinality(Reached(d)) <= MaxAliases
    /\ \E run : Looked(d, run, <<>>, Reached(d))

\* It has come to an end.
LEMMA FirstLookEnds ==
    ASSUME NEW d, IsDocument(d), NEW s, FirstLook(d, s), s.todo = <<>>
    PROVE  Composed(d)
  <1>1. /\ s.known \subseteq Reached(d) /\ s.entries \in Nat /\ s.aliases \in Nat
        /\ s.known \subseteq Node
    BY FirstLookIs
  <1>2. /\ s.known = Reached(d) /\ Occurrences(d) = s.entries
        /\ Cardinality(Reached(d)) + s.aliases = s.entries
    BY <1>1, CountedEnds DEF FirstLook
  <1>3. Cardinality(Reached(d)) \in Nat
    BY <1>1, <1>2, NodesFinite
  <1>4. Occurrences(d) <= MaxEntries /\ Occurrences(d) - Cardinality(Reached(d)) <= MaxAliases
    BY <1>1, <1>2, <1>3 DEF FirstLook
  <1>5. Walked(d, <<>>, Reached(d)) /\ \E run : Looked(d, run, <<>>, Reached(d))
    BY <1>2 DEF FirstLook
  <1>6. d.flawed \cap Reached(d) = {}
    BY <1>5 DEF Walked
  <1>7. ~TooDeep(d)
    <2> SUFFICES ASSUME NEW n \in Reached(d)
                 PROVE  \E w \in Way(d) : w[Len(w)] = n /\ ~(Len(w) - 1 > MaxDepth)
      BY DEF TooDeep
    <2>1. PICK w \in Way(d) : w[Len(w)] = n /\ Len(w) - 1 <= MaxDepth
      BY <1>5 DEF Walked
    <2>2. Len(w) \in Nat /\ MaxDepth \in Nat
      BY WayIs, DocumentAssumption, SomeNode
    <2> QED
      BY <2>1, <2>2
  <1> QED
    BY <1>4, <1>5, <1>6, <1>7 DEF Composed

\* An entry is looked at: the look goes on, or it refuses what is unfit.
LEMMA FirstLookNext ==
    ASSUME NEW d, IsDocument(d), NEW s, FirstLook(d, s), s.verdict = "open", s.todo # <<>>,
           NEW e, e = ComposeNext(d, s) \/ (IsTree(d) /\ e = JsonNext(d, s))
    PROVE  \/ FirstLook(d, e) /\ e.verdict = "open"
           \/ e.verdict \in {"keys", "parser"} /\ Unfit(d)
  <1> DEFINE x == Head(s.todo)
             repeats == [s EXCEPT !.entries = @ + 1, !.aliases = @ + 1, !.todo = Tail(@)]
  <1>1. "verdict" \in DOMAIN s
    BY DEF FirstLook, Fields
  <1>2. /\ Refused(s, "keys").verdict = "keys" /\ Refused(s, "parser").verdict = "parser"
        /\ Enters(d, s, x).verdict = "open" /\ repeats.verdict = "open"
    BY <1>1 DEF Refused, Enters
  <1>3. /\ x.leaving => Unfit(d)
        /\ ~x.leaving /\ Exceeds(s, x) => Unfit(d)
        /\ ~x.leaving /\ x.node \in s.known => ~IsTree(d) /\ (s.aliases = MaxAliases => Unfit(d))
    BY FirstLookRefuses
  <1>4. ~x.leaving /\ ~Exceeds(s, x) /\ x.node \notin s.known => FirstLook(d, Enters(d, s, x))
    BY FirstLookEnters
  <1>5. ~x.leaving /\ ~Exceeds(s, x) /\ x.node \in s.known /\ s.aliases # MaxAliases
          => FirstLook(d, repeats)
    BY FirstLookPasses
  <1> HIDE DEF repeats
  <1>6. CASE IsTree(d) /\ e = JsonNext(d, s)
    <2>1. CASE x.leaving \/ Exceeds(s, x)
      BY <1>2, <1>3, <1>6, <2>1 DEF JsonNext
    <2>2. CASE ~x.leaving /\ ~Exceeds(s, x)
      <3>1. e = Enters(d, s, x) /\ x.node \notin s.known
        BY <1>3, <1>6, <2>2 DEF JsonNext
      <3> QED
        BY <1>2, <1>4, <2>2, <3>1
    <2> QED
      BY <2>1, <2>2
  <1>7. CASE e = ComposeNext(d, s)
    <2>1. CASE x.leaving
      <3>1. e = Refused(s, "keys")
        BY <1>7, <2>1 DEF ComposeNext
      <3> QED
        BY <1>2, <1>3, <2>1, <3>1
    <2>2. CASE ~x.leaving /\ Exceeds(s, x)
      <3>1. e = Refused(s, "parser")
        BY <1>7, <2>2 DEF ComposeNext
      <3> QED
        BY <1>2, <1>3, <2>2, <3>1
    <2>3. CASE ~x.leaving /\ ~Exceeds(s, x) /\ x.node \in s.known
      <3>1. e = IF s.aliases = MaxAliases THEN Refused(s, "parser") ELSE repeats
        BY <1>7, <2>3 DEF ComposeNext, repeats
      <3> QED
        BY <1>2, <1>3, <1>5, <2>3, <3>1
    <2>4. CASE ~x.leaving /\ ~Exceeds(s, x) /\ x.node \notin s.known
      <3>1. e = Enters(d, s, x)
        BY <1>7, <2>4 DEF ComposeNext
      <3> QED
        BY <1>2, <1>4, <2>4, <3>1
    <2> QED
      BY <2>1, <2>2, <2>3, <2>4
  <1> QED
    BY <1>6, <1>7

-----------------------------------------------------------------------------
(* Checkpoints.                                                            *)

\* What has been walked of a checkpoint has neither flaw nor too much in it.
StateLook(d, s, V) ==
    /\ Fields \subseteq DOMAIN s
    /\ Walked(d, s.todo, V) /\ Counted(d, s.todo, V, s.entries, 0)
    /\ s.entries <= MaxEntries
    /\ \A n \in V : n \notin d.flawed /\ Len(d.kids[n]) <= MaxContainer

\* The look at a checkpoint begins.
LEMMA StateLookInit ==
    ASSUME NEW d, IsDocument(d)
    PROVE  \E V : StateLook(d, ComposeAll, V)
  <1>1. FirstLook(d, ComposeAll) /\ ComposeAll.known = {} /\ ComposeAll.aliases = 0
    BY FirstLookInit DEF ComposeAll
  <1>2. StateLook(d, ComposeAll, {})
    BY <1>1 DEF StateLook, FirstLook
  <1> QED
    BY <1>2

\* An entry of a checkpoint: the look goes on, or refuses what is not acceptable.
LEMMA StateLookNext ==
    ASSUME NEW d, IsDocument(d), IsTree(d), NEW s, NEW V, StateLook(d, s, V),
           s.verdict = "open", s.todo # <<>>, NEW e, e = StateNext(d, s)
    PROVE  \/ e.verdict = "open" /\ \E W : StateLook(d, e, W)
           \/ e.verdict \in {"keys", "structure"} /\ ~AcceptableState(d)
  <1> DEFINE t == s.todo
             x == Head(t)
             K == Stacked(d, x)
             W == V \cup {x.node}
             r == K \o Tail(t)
             on == [s EXCEPT !.entries = @ + 1, !.todo = Stacked(d, x) \o Tail(@)]
  <1>1. /\ t \in Seq(Entry) /\ V \subseteq Node /\ V \subseteq Reached(d)
        /\ Counted(d, t, V, s.entries, 0) /\ Walked(d, t, V) /\ s.entries \in Nat
        /\ s.entries = Cardinality(V) + 0
    BY WalkedReached DEF StateLook, Walked, Counted
  <1>2. x \in Entry /\ x.node \in Node /\ x.depth \in Nat /\ x = t[1] /\ 1 \in 1 .. Len(t)
    <2>1. t \in Seq(Entry) /\ t # <<>>
      BY <1>1
    <2> HIDE DEF t
    <2>2. x \in Entry
      BY <2>1
    <2> QED
      BY <2>1, <2>2, HeadIs
  <1>3. ~x.leaving /\ Met(d, V, x)
    <2>1. IF x.leaving THEN x.node \in V \cap d.flawed ELSE Met(d, V, x)
      BY <1>1, <1>2 DEF Walked
    <2> QED
      BY <2>1 DEF StateLook
  <1>4. x.node \notin V
    BY <1>1, <1>3, CountedAgain
  <1>5. PICK v \in Way(d) : v[Len(v)] = x.node /\ Len(v) = x.depth + 1
    BY <1>3, <1>4, MetOn
  <1>6. x.node \in Reached(d)
    BY <1>5 DEF Reached
  <1>7. MaxDepth \in Nat /\ MaxEntries \in Nat /\ MaxContainer \in Nat
        /\ Len(d.kids[x.node]) \in Nat
    BY <1>2, KidsOf, DocumentAssumption
  <1>8. "verdict" \in DOMAIN s /\ "todo" \in DOMAIN s /\ "entries" \in DOMAIN s
    BY DEF StateLook, Fields
  <1>9. /\ Refused(s, "keys").verdict = "keys" /\ Refused(s, "structure").verdict = "structure"
        /\ on.verdict = "open" /\ on.todo = r /\ on.entries = s.entries + 1
        /\ DOMAIN on = DOMAIN s
    BY <1>8 DEF Refused
  <1> HIDE DEF on, t
  <1>10. CASE x.depth > MaxDepth
    <2>1. ASSUME NEW w \in Way(d), w[Len(w)] = x.node PROVE Len(w) - 1 > MaxDepth
      <3>1. Len(v) <= Len(w)
        BY <1>5, <2>1, TreeWays
      <3>2. Len(w) \in Nat
        BY WayIs, SomeNode
      <3> QED
        BY <1>2, <1>5, <1>7, <1>10, <3>1, <3>2
    <2>2. TooDeep(d)
      BY <1>6, <2>1 DEF TooDeep
    <2>3. e = Refused(s, "structure")
      BY <1>10 DEF StateNext, Exceeds, t
    <2> QED
      BY <1>9, <2>2, <2>3 DEF AcceptableState
  <1>11. CASE s.entries + 1 > MaxEntries
    <2>1. W \subseteq Reached(d) /\ Reached(d) \in SUBSET Node
      BY <1>1, <1>6, ReachedWritten
    <2>2. IsFiniteSet(V) /\ IsFiniteSet(Reached(d)) /\ Cardinality(Reached(d)) \in Nat
          /\ Cardinality(V) \in Nat
      BY <1>1, <2>1, NodesFinite
    <2>3. Cardinality(W) = Cardinality(V) + 1
      BY <1>4, <2>2, FS_AddElement
    <2>4. Cardinality(W) <= Cardinality(Reached(d))
      <3> HIDE DEF W
      <3> QED
        BY <2>1, <2>2, FS_Subset
    <2>5. ~(Cardinality(Reached(d)) <= MaxEntries)
      BY <1>1, <1>7, <1>11, <2>2, <2>3, <2>4
    <2>6. e = Refused(s, "structure")
      BY <1>11 DEF StateNext, Exceeds, t
    <2> QED
      BY <1>9, <2>5, <2>6 DEF AcceptableState
  <1>12. CASE Len(d.kids[x.node]) > MaxContainer
    <2>1. ~(Len(d.kids[x.node]) <= MaxContainer)
      BY <1>7, <1>12
    <2>2. e = Refused(s, "structure")
      BY <1>12, <2>1 DEF StateNext, t
    <2> QED
      BY <1>6, <1>9, <2>1, <2>2 DEF AcceptableState
  <1>13. CASE ~Exceeds(s, x) /\ Len(d.kids[x.node]) <= MaxContainer /\ x.node \in d.flawed
    <2>1. ~(Len(d.kids[x.node]) > MaxContainer)
      BY <1>7, <1>13
    <2>2. e = Refused(s, "keys")
      BY <1>13, <2>1 DEF StateNext, t
    <2> QED
      BY <1>6, <1>9, <1>13, <2>2 DEF AcceptableState
  <1>14. CASE ~Exceeds(s, x) /\ Len(d.kids[x.node]) <= MaxContainer /\ x.node \notin d.flawed
    <2>1. ~(Len(d.kids[x.node]) > MaxContainer)
      BY <1>7, <1>14
    <2>2. e = on
      BY <1>14, <2>1 DEF StateNext, on, t
    <2>3. x.depth <= MaxDepth /\ s.entries + 1 <= MaxEntries
      BY <1>1, <1>2, <1>7, <1>14 DEF Exceeds
    <2>4. Unfolds(d, x, K)
      BY <1>2, <1>14, UnfoldsStacked
    <2> HIDE DEF K
    <2>5. Walked(d, r, W)
      BY <1>1, <1>3, <1>4, <2>3, <2>4, WalkedEnters DEF t
    <2>6. Counted(d, r, W, s.entries + 1, 0)
      BY <1>1, <1>3, <1>4, <2>4, CountedEnters DEF t
    <2>7. \A n \in W : n \notin d.flawed /\ Len(d.kids[n]) <= MaxContainer
      BY <1>14 DEF StateLook
    <2> HIDE DEF r, W
    <2>8. StateLook(d, on, W)
      BY <1>9, <2>3, <2>5, <2>6, <2>7 DEF StateLook
    <2> QED
      BY <1>9, <2>2, <2>8
  <1>15. Exceeds(s, x) <=> x.depth > MaxDepth \/ s.entries + 1 > MaxEntries
    BY DEF Exceeds
  <1> QED
    BY <1>7, <1>10, <1>11, <1>12, <1>13, <1>14, <1>15

\* A checkpoint that has been looked at is acceptable.
LEMMA StateLookEnds ==
    ASSUME NEW d, IsDocument(d), NEW s, NEW V, StateLook(d, s, V), s.todo = <<>>, d.mapping
    PROVE  AcceptableState(d)
  <1>1. V \subseteq Node /\ V \subseteq Reached(d) /\ Walked(d, <<>>, V)
    BY WalkedReached DEF StateLook, Walked
  <1>2. V = Reached(d) /\ Cardinality(Reached(d)) + 0 = s.entries
    BY <1>1, CountedEnds DEF StateLook
  <1>3. Cardinality(Reached(d)) <= MaxEntries
    <2>1. Cardinality(Reached(d)) \in Nat
      BY <1>1, <1>2, NodesFinite
    <2> QED
      BY <1>2, <2>1 DEF StateLook
  <1>4. ~TooDeep(d)
    <2> SUFFICES ASSUME NEW n \in Reached(d)
                 PROVE  \E w \in Way(d) : w[Len(w)] = n /\ ~(Len(w) - 1 > MaxDepth)
      BY DEF TooDeep
    <2>1. PICK w \in Way(d) : w[Len(w)] = n /\ Len(w) - 1 <= MaxDepth
      BY <1>1, <1>2 DEF Walked
    <2>2. Len(w) \in Nat /\ MaxDepth \in Nat
      BY WayIs, DocumentAssumption, SomeNode
    <2> QED
      BY <2>1, <2>2
  <1> QED
    BY <1>2, <1>3, <1>4 DEF StateLook, AcceptableState

-----------------------------------------------------------------------------
(* The second look: the nodes that are being looked at lie on a way.       *)

Marks(todo) == {i \in 1 .. Len(todo) : todo[i].leaving}
Below(todo, i) == {todo[k].node : k \in {j \in Marks(todo) : j > i}}
Above(todo, i) == {todo[k].node : k \in 1 .. i - 1}

\* Where something was met: as the root, or at the end of the way that is still open.
Beneath(d, x, nodes) ==
    \/ x.node = Root /\ nodes = {}
    \/ \E w \in Way(d) : Range(w) = nodes /\ x.node \in Range(d.kids[w[Len(w)]])

Pending(d, todo, known, active) ==
    /\ todo \in Seq(Entry) /\ known \cup active \subseteq Reached(d) /\ known \cap active = {}
    /\ active = Below(todo, 0)
    /\ \A i, j \in Marks(todo) : todo[i].node = todo[j].node => i = j
    /\ \A i \in Ahead(todo) : Beneath(d, todo[i], Below(todo, i))
    /\ \A i \in Marks(todo) : Range(d.kids[todo[i].node]) \subseteq known \cup Above(todo, i)
    /\ Root \in known \cup Above(todo, Len(todo) + 1)

\* The marks below an entry are those from there on.
LEMMA BelowIs ==
    ASSUME NEW todo, NEW i, NEW y
    PROVE  /\ y \in Below(todo, i) <=> \E k \in Marks(todo) : k > i /\ y = todo[k].node
           /\ y \in Above(todo, i) <=> \E k \in 1 .. i - 1 : y = todo[k].node
  BY DEF Below, Above

\* What lies above and below an entry, when the head gives way to others.
LEMMA Shifted ==
    ASSUME NEW t \in Seq(Entry), t # <<>>, NEW K \in Seq(Entry), NEW r, r = K \o Tail(t)
    PROVE  /\ \A k \in 0 .. Len(K) : Below(r, k) = Below(K, k) \cup Below(t, 1)
           /\ \A i \in 2 .. Len(t) : Below(r, Len(K) + i - 1) = Below(t, i)
           /\ \A i \in 2 .. Len(t) + 1 :
                 /\ Above(t, i) \subseteq {Head(t).node} \cup Above(r, Len(K) + i - 1)
                 /\ Above(K, Len(K) + 1) \subseteq Above(r, Len(K) + i - 1)
           /\ \A k \in 1 .. Len(K) + 1 : Above(K, k) \subseteq Above(r, k)
           /\ \A k \in 1 .. Len(K) : k \in Marks(r) <=> k \in Marks(K)
           /\ \A i \in 2 .. Len(t) : Len(K) + i - 1 \in Marks(r) <=> i \in Marks(t)
  <1> DEFINE m == Len(K)
  <1>1. /\ r \in Seq(Entry) /\ Len(r) = m + Len(t) - 1
        /\ m \in Nat /\ Len(t) \in Nat \ {0}
        /\ \A i \in 1 .. m : r[i] = K[i]
        /\ \A i \in 2 .. Len(t) : r[m + i - 1] = t[i]
        /\ \A k \in 1 .. Len(r) :
              \/ k \in 1 .. m
              \/ \E i \in 2 .. Len(t) : k = m + i - 1
    <2> DEFINE u == K \o Tail(t)
    <2>1. /\ u \in Seq(Entry) /\ Len(u) = m + Len(t) - 1
          /\ m \in Nat /\ Len(t) \in Nat \ {0}
          /\ \A i \in 1 .. m : u[i] = K[i]
          /\ \A i \in 2 .. Len(t) : u[m + i - 1] = t[i]
          /\ \A k \in 1 .. Len(u) :
                \/ k \in 1 .. m
                \/ \E i \in 2 .. Len(t) : k = m + i - 1
      BY Replaced
    <2>2. u = r
      OBVIOUS
    <2> HIDE DEF u, m
    <2> QED
      BY <2>1, <2>2
  <1>2. t[1] = Head(t)
    BY HeadIs
  <1> HIDE DEF m
  <1>3. ASSUME NEW k \in 1 .. m PROVE k \in 1 .. Len(r) /\ r[k] = K[k]
    BY <1>1
  <1>4. ASSUME NEW i \in 2 .. Len(t)
        PROVE  m + i - 1 \in 1 .. Len(r) /\ r[m + i - 1] = t[i] /\ i \in 1 .. Len(t)
               /\ m + i - 1 > m
    BY <1>1
  <1>5. \A k \in 1 .. m : k \in Marks(r) <=> k \in Marks(K)
    BY <1>3 DEF Marks, m
  <1>6. \A i \in 2 .. Len(t) : m + i - 1 \in Marks(r) <=> i \in Marks(t)
    BY <1>4 DEF Marks
  <1>7. \A k \in Marks(r) : k \in 1 .. m \/ \E i \in 2 .. Len(t) : k = m + i - 1
    BY <1>1 DEF Marks
  <1>8. ASSUME NEW k \in 0 .. m PROVE Below(r, k) = Below(K, k) \cup Below(t, 1)
    <2>1. ASSUME NEW j \in Marks(r), j > k PROVE r[j].node \in Below(K, k) \cup Below(t, 1)
      <3>1. CASE j \in 1 .. m
        BY <1>3, <1>5, <2>1, <3>1 DEF Below
      <3>2. CASE \E i \in 2 .. Len(t) : j = m + i - 1
        <4>1. PICK i \in 2 .. Len(t) : j = m + i - 1
          BY <3>2
        <4>2. i \in Marks(t) /\ i > 1 /\ r[j] = t[i]
          BY <1>4, <1>6, <4>1
        <4> QED
          BY <4>2 DEF Below
      <3> QED
        BY <1>7, <3>1, <3>2
    <2>2. ASSUME NEW j \in Marks(K), j > k PROVE K[j].node \in Below(r, k)
      <3>1. j \in 1 .. m
        BY DEF Marks, m
      <3> QED
        BY <1>3, <1>5, <2>2, <3>1 DEF Below
    <2>3. ASSUME NEW i \in Marks(t), i > 1 PROVE t[i].node \in Below(r, k)
      <3>1. i \in 2 .. Len(t)
        BY <1>1, <2>3 DEF Marks
      <3>2. m + i - 1 \in Marks(r) /\ m + i - 1 > k /\ r[m + i - 1] = t[i]
        BY <1>1, <1>4, <1>6, <2>3, <3>1
      <3> QED
        BY <3>2 DEF Below
    <2>4. Below(r, k) \subseteq Below(K, k) \cup Below(t, 1)
      <3> SUFFICES ASSUME NEW y \in Below(r, k) PROVE y \in Below(K, k) \cup Below(t, 1)
        OBVIOUS
      <3>1. PICK j \in Marks(r) : j > k /\ y = r[j].node
        BY DEF Below
      <3> QED
        BY <2>1, <3>1
    <2>5. Below(K, k) \subseteq Below(r, k)
      BY <2>2, BelowIs
    <2>6. Below(t, 1) \subseteq Below(r, k)
      BY <2>3, BelowIs
    <2> QED
      BY <2>4, <2>5, <2>6
  <1>9. ASSUME NEW i \in 2 .. Len(t) PROVE Below(r, m + i - 1) = Below(t, i)
    <2>1. ASSUME NEW j \in Marks(r), j > m + i - 1 PROVE r[j].node \in Below(t, i)
      <3>1. PICK k \in 2 .. Len(t) : j = m + k - 1
        BY <1>1, <1>7, <2>1
      <3>2. k \in Marks(t) /\ r[j] = t[k] /\ k > i
        BY <1>1, <1>4, <1>6, <2>1, <3>1
      <3> QED
        BY <3>2 DEF Below
    <2>2. ASSUME NEW j \in Marks(t), j > i PROVE t[j].node \in Below(r, m + i - 1)
      <3>1. j \in 2 .. Len(t)
        BY <1>1, <2>2 DEF Marks
      <3>2. m + j - 1 \in Marks(r) /\ m + j - 1 > m + i - 1 /\ r[m + j - 1] = t[j]
        BY <1>1, <1>4, <1>6, <2>2, <3>1
      <3> QED
        BY <3>2 DEF Below
    <2> QED
      BY <2>1, <2>2, ZenonT(60) DEF Below
  <1>10. ASSUME NEW i \in 2 .. Len(t) + 1
         PROVE  /\ Above(t, i) \subseteq {Head(t).node} \cup Above(r, m + i - 1)
                /\ Above(K, m + 1) \subseteq Above(r, m + i - 1)
    <2>1. ASSUME NEW j \in 1 .. i - 1 PROVE t[j].node \in {Head(t).node} \cup Above(r, m + i - 1)
      <3>1. CASE j = 1
        BY <1>2, <3>1
      <3>2. CASE j # 1
        <4>1. j \in 2 .. Len(t) /\ m + j - 1 \in 1 .. (m + i - 1) - 1
          BY <1>1, <2>1, <3>2
        <4>2. r[m + j - 1] = t[j]
          BY <1>4, <4>1
        <4> QED
          BY <4>1, <4>2 DEF Above
      <3> QED
        BY <3>1, <3>2
    <2>2. ASSUME NEW j \in 1 .. m PROVE K[j].node \in Above(r, m + i - 1)
      <3>1. j \in 1 .. m /\ j \in 1 .. (m + i - 1) - 1
        BY <1>1
      <3> QED
        BY <1>3, <3>1 DEF Above
    <2>3. Above(t, i) \subseteq {Head(t).node} \cup Above(r, m + i - 1)
      <3> SUFFICES ASSUME NEW y \in Above(t, i) PROVE y \in {Head(t).node} \cup Above(r, m + i - 1)
        OBVIOUS
      <3>1. PICK j \in 1 .. i - 1 : y = t[j].node
        BY BelowIs
      <3> QED
        BY <2>1, <3>1
    <2>4. Above(K, m + 1) \subseteq Above(r, m + i - 1)
      <3> SUFFICES ASSUME NEW y \in Above(K, m + 1) PROVE y \in Above(r, m + i - 1)
        OBVIOUS
      <3>1. \A j \in 1 .. (m + 1) - 1 : j \in 1 .. m
        BY <1>1
      <3>2. y \in {K[k].node : k \in 1 .. (m + 1) - 1}
        BY DEF Above
      <3> QED
        BY <2>2, <3>1, <3>2
    <2> QED
      BY <2>3, <2>4
  <1>11. ASSUME NEW k \in 1 .. m + 1 PROVE Above(K, k) \subseteq Above(r, k)
    <2>1. \A j \in 1 .. k - 1 : j \in 1 .. m
      BY <1>1
    <2> QED
      BY <1>3, <2>1 DEF Above
  <1> QED
    BY <1>5, <1>6, <1>8, <1>9, <1>10, <1>11 DEF m

\* The open way, when the head gives way to other entries.
LEMMA PendingReplaced ==
    ASSUME NEW d, NEW t, NEW known, NEW active, Pending(d, t, known, active), t # <<>>,
           NEW known2, NEW active2, known2 \cup active2 \subseteq Reached(d), known2 \cap active2 = {},
           known \subseteq known2, NEW K \in Seq(Entry),
           active2 = Below(K, 0) \cup Below(t, 1),
           Head(t).node \in known2 \cup Above(K, Len(K) + 1),
           \A i, j \in Marks(K) : K[i].node = K[j].node => i = j,
           \A i \in Marks(K) : /\ K[i].node \notin Below(t, 1)
                              /\ Range(d.kids[K[i].node]) \subseteq known2 \cup Above(K, i),
           \A i \in Ahead(K) : Beneath(d, K[i], Below(K, i) \cup Below(t, 1))
    PROVE  Pending(d, K \o Tail(t), known2, active2)
  <1> DEFINE m == Len(K)
  <1>r. PICK r : r = K \o Tail(t)
    OBVIOUS
  <1>1. t \in Seq(Entry)
    BY DEF Pending
  <1>2. /\ \A k \in 0 .. m : Below(r, k) = Below(K, k) \cup Below(t, 1)
        /\ \A i \in 2 .. Len(t) : Below(r, m + i - 1) = Below(t, i)
        /\ \A i \in 2 .. Len(t) + 1 :
              /\ Above(t, i) \subseteq {Head(t).node} \cup Above(r, m + i - 1)
              /\ Above(K, m + 1) \subseteq Above(r, m + i - 1)
        /\ \A k \in 1 .. m + 1 : Above(K, k) \subseteq Above(r, k)
        /\ \A k \in 1 .. m : k \in Marks(r) <=> k \in Marks(K)
        /\ \A i \in 2 .. Len(t) : m + i - 1 \in Marks(r) <=> i \in Marks(t)
    <2>1. \A u : u = K \o Tail(t) =>
        /\ \A k \in 0 .. m : Below(u, k) = Below(K, k) \cup Below(t, 1)
        /\ \A i \in 2 .. Len(t) : Below(u, m + i - 1) = Below(t, i)
        /\ \A i \in 2 .. Len(t) + 1 :
              /\ Above(t, i) \subseteq {Head(t).node} \cup Above(u, m + i - 1)
              /\ Above(K, m + 1) \subseteq Above(u, m + i - 1)
        /\ \A k \in 1 .. m + 1 : Above(K, k) \subseteq Above(u, k)
        /\ \A k \in 1 .. m : k \in Marks(u) <=> k \in Marks(K)
        /\ \A i \in 2 .. Len(t) : m + i - 1 \in Marks(u) <=> i \in Marks(t)
      BY <1>1, Shifted
    <2> HIDE DEF m
    <2> QED
      BY <1>r, <2>1
  <1>3. /\ r \in Seq(Entry) /\ Len(r) = m + Len(t) - 1
        /\ m \in Nat /\ Len(t) \in Nat \ {0}
        /\ \A i \in 1 .. m : r[i] = K[i]
        /\ \A i \in 2 .. Len(t) : r[m + i - 1] = t[i]
        /\ \A k \in 1 .. Len(r) :
              \/ k \in 1 .. m
              \/ \E i \in 2 .. Len(t) : k = m + i - 1
    <2> DEFINE u == K \o Tail(t)
    <2>1. /\ u \in Seq(Entry) /\ Len(u) = m + Len(t) - 1
          /\ m \in Nat /\ Len(t) \in Nat \ {0}
          /\ \A i \in 1 .. m : u[i] = K[i]
          /\ \A i \in 2 .. Len(t) : u[m + i - 1] = t[i]
          /\ \A k \in 1 .. Len(u) :
                \/ k \in 1 .. m
                \/ \E i \in 2 .. Len(t) : k = m + i - 1
      BY <1>1, Replaced
    <2>2. u = r
      BY <1>r
    <2> HIDE DEF u, m
    <2> QED
      BY <2>1, <2>2
  <1> HIDE DEF m
  <1>4. active2 = Below(r, 0)
    BY <1>2, <1>3
  <1>5. ASSUME NEW i \in Marks(r), NEW j \in Marks(r), r[i].node = r[j].node PROVE i = j
    <2>1. \A k \in Marks(r) : k \in 1 .. Len(r)
      BY DEF Marks
    <2>2. ASSUME NEW k \in Marks(r)
          PROVE  \/ k \in Marks(K) /\ r[k] = K[k]
                 \/ \E l \in Marks(t) : k = m + l - 1 /\ l > 1 /\ r[k] = t[l]
      <3>1. CASE k \in 1 .. m
        BY <1>2, <1>3, <3>1
      <3>2. CASE \E l \in 2 .. Len(t) : k = m + l - 1
        <4>1. PICK l \in 2 .. Len(t) : k = m + l - 1
          BY <3>2
        <4>2. l \in Marks(t) /\ l > 1 /\ r[k] = t[l]
          BY <1>2, <1>3, <4>1
        <4> QED
          BY <4>1, <4>2
      <3> QED
        BY <1>3, <2>1, <3>1, <3>2
    <2>3. \A l \in Marks(t) : l > 1 => t[l].node \in Below(t, 1)
      BY BelowIs
    <2>4. CASE i \in Marks(K) /\ r[i] = K[i] /\ j \in Marks(K) /\ r[j] = K[j]
      BY <1>5, <2>4
    <2>5. CASE \E l \in Marks(t) : i = m + l - 1 /\ l > 1 /\ r[i] = t[l]
      BY <1>5, <2>2, <2>3, <2>5, SMTT(60) DEF Pending
    <2>6. CASE \E l \in Marks(t) : j = m + l - 1 /\ l > 1 /\ r[j] = t[l]
      BY <1>5, <2>2, <2>3, <2>6, SMTT(60) DEF Pending
    <2> QED
      BY <2>2, <2>4, <2>5, <2>6
  <1>6. ASSUME NEW k \in Ahead(r) PROVE Beneath(d, r[k], Below(r, k))
    <2>1. k \in 1 .. Len(r) /\ ~r[k].leaving
      BY DEF Ahead
    <2>2. CASE k \in 1 .. m
      <3>1. k \in Ahead(K) /\ r[k] = K[k]
        BY <1>3, <2>1, <2>2 DEF Ahead, m
      <3>2. Below(r, k) = Below(K, k) \cup Below(t, 1)
        BY <1>2, <1>3, <2>2
      <3> QED
        BY <3>1, <3>2
    <2>3. CASE \E i \in 2 .. Len(t) : k = m + i - 1
      <3>1. PICK i \in 2 .. Len(t) : k = m + i - 1
        BY <2>3
      <3>2. r[k] = t[i] /\ Below(r, k) = Below(t, i) /\ i \in 1 .. Len(t)
        BY <1>2, <1>3, <3>1
      <3>3. i \in Ahead(t)
        BY <2>1, <3>2 DEF Ahead
      <3> QED
        BY <3>2, <3>3 DEF Pending
    <2> QED
      BY <1>3, <2>1, <2>2, <2>3
  <1>7. ASSUME NEW k \in Marks(r) PROVE Range(d.kids[r[k].node]) \subseteq known2 \cup Above(r, k)
    <2>1. k \in 1 .. Len(r)
      BY DEF Marks
    <2>2. CASE k \in 1 .. m
      <3>1. k \in Marks(K) /\ r[k] = K[k] /\ Above(K, k) \subseteq Above(r, k)
        BY <1>2, <1>3, <2>2
      <3> QED
        BY <3>1
    <2>3. CASE \E i \in 2 .. Len(t) : k = m + i - 1
      <3>1. PICK i \in 2 .. Len(t) : k = m + i - 1
        BY <2>3
      <3>2. r[k] = t[i] /\ i \in Marks(t) /\ i \in 2 .. Len(t) + 1
        BY <1>2, <1>3, <3>1
      <3>3. Range(d.kids[t[i].node]) \subseteq known \cup Above(t, i)
        BY <3>2 DEF Pending
      <3>4. Above(t, i) \subseteq {Head(t).node} \cup Above(r, k) /\ Above(K, m + 1) \subseteq Above(r, k)
        BY <1>2, <3>1, <3>2
      <3> QED
        BY <3>2, <3>3, <3>4 DEF m
    <2> QED
      BY <1>3, <2>1, <2>2, <2>3
  <1>8. Root \in known2 \cup Above(r, Len(r) + 1)
    <2>1. Len(t) + 1 \in 2 .. Len(t) + 1 /\ m + (Len(t) + 1) - 1 = Len(r) + 1
      BY <1>3
    <2>2. /\ Above(t, Len(t) + 1) \subseteq {Head(t).node} \cup Above(r, Len(r) + 1)
          /\ Above(K, m + 1) \subseteq Above(r, Len(r) + 1)
      BY <1>2, <2>1
    <2>3. Root \in known \cup Above(t, Len(t) + 1)
      BY DEF Pending
    <2> QED
      BY <2>2, <2>3 DEF m
  <1>9. Pending(d, r, known2, active2)
    BY <1>3, <1>4, <1>5, <1>6, <1>7, <1>8 DEF Pending
  <1> QED
    BY <1>r, <1>9

-----------------------------------------------------------------------------
(* The second look retraces the first one.                                 *)

\* What was to be looked at then is what is now, without the marks.
Same(r, t) ==
    \E e \in [1 .. Len(r) -> 1 .. Len(t)] :
        /\ \A a, b \in 1 .. Len(r) : a < b => e[a] < e[b]
        /\ \A a \in 1 .. Len(r) : t[e[a]] = r[a] /\ ~r[a].leaving
        /\ \A i \in Ahead(t) : \E a \in 1 .. Len(r) : i = e[a]

\* A mark is taken off: what is to be looked at is the same.
LEMMA SameLeaves ==
    ASSUME NEW r \in Seq(Entry), NEW t \in Seq(Entry), t # <<>>, Head(t).leaving, Same(r, t)
    PROVE  Same(r, Tail(t))
  <1>1. PICK e \in [1 .. Len(r) -> 1 .. Len(t)] :
            /\ \A a, b \in 1 .. Len(r) : a < b => e[a] < e[b]
            /\ \A a \in 1 .. Len(r) : t[e[a]] = r[a] /\ ~r[a].leaving
            /\ \A i \in Ahead(t) : \E a \in 1 .. Len(r) : i = e[a]
    BY DEF Same
  <1> DEFINE u == Tail(t)
             f == [a \in 1 .. Len(r) |-> e[a] - 1]
  <1>2. /\ Len(t) \in Nat \ {0} /\ Len(u) = Len(t) - 1 /\ \A i \in 1 .. Len(t) - 1 : u[i] = t[i + 1]
        /\ t[1].leaving
    BY HeadIs
  <1> HIDE DEF u
  <1>3. ASSUME NEW a \in 1 .. Len(r)
        PROVE  /\ e[a] \in 1 .. Len(t) /\ e[a] - 1 \in 1 .. Len(u) /\ (e[a] - 1) + 1 = e[a]
               /\ u[e[a] - 1] = r[a]
    <2>1. e[a] \in 1 .. Len(t) /\ t[e[a]] = r[a] /\ ~r[a].leaving
      BY <1>1
    <2>2. e[a] # 1
      BY <1>2, <2>1
    <2>3. e[a] - 1 \in 1 .. Len(t) - 1 /\ (e[a] - 1) + 1 = e[a]
      BY <1>2, <2>1, <2>2
    <2> QED
      BY <1>2, <2>1, <2>3
  <1>4. f \in [1 .. Len(r) -> 1 .. Len(u)]
    BY <1>3
  <1>5. \A a, b \in 1 .. Len(r) : a < b => f[a] < f[b]
    <2> SUFFICES ASSUME NEW a \in 1 .. Len(r), NEW b \in 1 .. Len(r), a < b PROVE f[a] < f[b]
      OBVIOUS
    <2>1. e[a] < e[b] /\ e[a] \in 1 .. Len(t) /\ e[b] \in 1 .. Len(t)
      BY <1>1, <1>3
    <2> QED
      BY <1>2, <2>1
  <1>6. \A a \in 1 .. Len(r) : u[f[a]] = r[a] /\ ~r[a].leaving
    BY <1>1, <1>3
  <1>7. ASSUME NEW i \in Ahead(u) PROVE \E a \in 1 .. Len(r) : i = f[a]
    <2>1. i \in 1 .. Len(u) /\ ~u[i].leaving
      BY DEF Ahead
    <2>2. i + 1 \in Ahead(t) /\ (i + 1) - 1 = i
      BY <1>2, <2>1 DEF Ahead
    <2>3. PICK a \in 1 .. Len(r) : i + 1 = e[a]
      BY <1>1, <2>2
    <2>4. f[a] = i
      BY <2>2, <2>3
    <2> QED
      BY <2>4
  <1> HIDE DEF f
  <1> QED
    BY <1>4, <1>5, <1>6, <1>7 DEF Same, u

\* What is looked at next was looked at next then.
LEMMA SameHead ==
    ASSUME NEW r \in Seq(Entry), NEW t \in Seq(Entry), t # <<>>, ~Head(t).leaving, Same(r, t)
    PROVE  r # <<>> /\ Head(r) = Head(t) /\ Same(Tail(r), Tail(t))
  <1>1. PICK e \in [1 .. Len(r) -> 1 .. Len(t)] :
            /\ \A a, b \in 1 .. Len(r) : a < b => e[a] < e[b]
            /\ \A a \in 1 .. Len(r) : t[e[a]] = r[a] /\ ~r[a].leaving
            /\ \A i \in Ahead(t) : \E a \in 1 .. Len(r) : i = e[a]
    BY DEF Same
  <1> DEFINE u == Tail(t)
             q == Tail(r)
             f == [a \in 1 .. Len(q) |-> e[a + 1] - 1]
  <1>2. /\ Len(t) \in Nat \ {0} /\ Len(u) = Len(t) - 1 /\ \A i \in 1 .. Len(t) - 1 : u[i] = t[i + 1]
        /\ t[1] = Head(t) /\ 1 \in Ahead(t)
    BY HeadIs DEF Ahead
  <1>3. PICK a \in 1 .. Len(r) : 1 = e[a]
    BY <1>1, <1>2
  <1>4. r # <<>> /\ Len(r) \in Nat \ {0}
    BY <1>3
  <1>5. a = 1
    <2>1. ASSUME a # 1 PROVE FALSE
      <3>1. 1 \in 1 .. Len(r) /\ 1 < a
        BY <1>4, <2>1
      <3>2. e[1] < 1 /\ e[1] \in 1 .. Len(t)
        BY <1>1, <1>3, <3>1
      <3> QED
        BY <1>2, <3>2
    <2> QED
      BY <2>1
  <1>6. e[1] = 1 /\ Head(r) = Head(t)
    BY <1>1, <1>2, <1>3, <1>4, <1>5
  <1>7. Len(q) = Len(r) - 1 /\ \A i \in 1 .. Len(r) - 1 : q[i] = r[i + 1]
    BY <1>4
  <1> HIDE DEF u, q
  <1>8. ASSUME NEW b \in 1 .. Len(q)
        PROVE  /\ b + 1 \in 1 .. Len(r) /\ e[b + 1] \in 1 .. Len(t) /\ e[b + 1] - 1 \in 1 .. Len(u)
               /\ u[e[b + 1] - 1] = q[b]
    <2>1. b + 1 \in 1 .. Len(r) /\ 1 < b + 1 /\ 1 \in 1 .. Len(r) /\ q[b] = r[b + 1]
      BY <1>4, <1>7
    <2>2. e[b + 1] \in 1 .. Len(t) /\ 1 < e[b + 1] /\ t[e[b + 1]] = r[b + 1]
      BY <1>1, <1>6, <2>1
    <2>3. e[b + 1] - 1 \in 1 .. Len(t) - 1 /\ (e[b + 1] - 1) + 1 = e[b + 1]
      BY <1>2, <2>2
    <2> QED
      BY <1>2, <2>1, <2>2, <2>3
  <1>9. f \in [1 .. Len(q) -> 1 .. Len(u)]
    BY <1>8
  <1>10. \A b, c \in 1 .. Len(q) : b < c => f[b] < f[c]
    <2> SUFFICES ASSUME NEW b \in 1 .. Len(q), NEW c \in 1 .. Len(q), b < c PROVE f[b] < f[c]
      OBVIOUS
    <2>1. e[b + 1] \in 1 .. Len(t) /\ e[c + 1] \in 1 .. Len(t) /\ b + 1 < c + 1
      <3>1. b + 1 < c + 1
        BY <1>4, <1>7
      <3>2. e[b + 1] \in 1 .. Len(t) /\ e[c + 1] \in 1 .. Len(t)
        BY <1>8
      <3> QED
        BY <3>1, <3>2
    <2>2. e[b + 1] < e[c + 1]
      BY <1>1, <1>8, <2>1
    <2> QED
      BY <1>2, <2>1, <2>2
  <1>11. \A b \in 1 .. Len(q) : u[f[b]] = q[b] /\ ~q[b].leaving
    BY <1>1, <1>7, <1>8
  <1>12. ASSUME NEW i \in Ahead(u) PROVE \E b \in 1 .. Len(q) : i = f[b]
    <2>1. i \in 1 .. Len(u) /\ ~u[i].leaving
      BY DEF Ahead
    <2>2. i + 1 \in Ahead(t) /\ (i + 1) - 1 = i /\ i + 1 # 1
      BY <1>2, <2>1 DEF Ahead
    <2>3. PICK b \in 1 .. Len(r) : i + 1 = e[b]
      BY <1>1, <2>2
    <2>4. b - 1 \in 1 .. Len(q) /\ (b - 1) + 1 = b
      BY <1>4, <1>6, <1>7, <2>2, <2>3
    <2>5. f[b - 1] = i
      BY <2>2, <2>3, <2>4
    <2> QED
      BY <2>4, <2>5
  <1> HIDE DEF f
  <1>13. Same(q, u)
    BY <1>9, <1>10, <1>11, <1>12 DEF Same
  <1> QED
    BY <1>4, <1>6, <1>13 DEF q, u

\* The same entries are pushed on both stacks.
LEMMA SamePushed ==
    ASSUME NEW r \in Seq(Entry), NEW t \in Seq(Entry), Same(r, t), NEW K \in Seq(Entry),
           \A i \in 1 .. Len(K) : ~K[i].leaving, NEW mark \in Entry, mark.leaving
    PROVE  Same(K \o r, K \o <<mark>> \o t)
  <1>1. PICK e \in [1 .. Len(r) -> 1 .. Len(t)] :
            /\ \A a, b \in 1 .. Len(r) : a < b => e[a] < e[b]
            /\ \A a \in 1 .. Len(r) : t[e[a]] = r[a] /\ ~r[a].leaving
            /\ \A i \in Ahead(t) : \E a \in 1 .. Len(r) : i = e[a]
    BY DEF Same
  <1>0. \A i \in 1 .. Len(K) : ~K[i].leaving
    OBVIOUS
  <1> DEFINE n == Len(K)
             q == K \o r
             u == K \o <<mark>> \o t
             f == [a \in 1 .. Len(q) |-> IF a <= n THEN a ELSE n + 1 + e[a - n]]
  <1>2. /\ n \in Nat /\ Len(r) \in Nat /\ Len(t) \in Nat
        /\ q \in Seq(Entry) /\ Len(q) = n + Len(r)
        /\ \A a \in 1 .. n : q[a] = K[a] /\ ~q[a].leaving
        /\ \A a \in 1 .. Len(r) : q[n + a] = r[a]
    OBVIOUS
  <1>3. /\ u \in Seq(Entry) /\ Len(u) = n + 1 + Len(t)
        /\ \A i \in 1 .. n : u[i] = K[i]
        /\ u[n + 1] = mark
        /\ \A i \in 1 .. Len(t) : u[n + 1 + i] = t[i]
    <2> DEFINE v == K \o <<mark>>
    <2>1. v \in Seq(Entry) /\ Len(v) = n + 1 /\ \A i \in 1 .. n : v[i] = K[i]
      OBVIOUS
    <2>2. v[n + 1] = mark
      OBVIOUS
    <2>3. u = v \o t
      OBVIOUS
    <2> HIDE DEF v, n, u
    <2>4. \A i \in 1 .. n + 1 : u[i] = v[i]
      BY <1>2, <2>1, <2>3
    <2>5. \A i \in 1 .. Len(t) : u[n + 1 + i] = t[i]
      BY <1>2, <2>1, <2>3
    <2>6. u \in Seq(Entry) /\ Len(u) = n + 1 + Len(t)
      <3>0. v \in Seq(Entry)
        BY <2>1
      <3>1. v \o t \in Seq(Entry) /\ Len(v \o t) = Len(v) + Len(t)
        BY ONLY <3>0, t \in Seq(Entry)
      <3> QED
        BY <2>1, <2>3, <3>1
    <2> QED
      BY <1>2, <2>1, <2>2, <2>4, <2>5, <2>6
  <1> HIDE DEF n, q, u
  <1>4. ASSUME NEW a \in 1 .. Len(q)
        PROVE  \/ a \in 1 .. n /\ f[a] = a
               \/ a > n /\ a - n \in 1 .. Len(r) /\ e[a - n] \in 1 .. Len(t)
                  /\ f[a] = n + 1 + e[a - n] /\ n + (a - n) = a
    <2>1. CASE a <= n
      BY <1>2, <2>1
    <2>2. CASE ~(a <= n)
      <3>1. a - n \in 1 .. Len(r) /\ a > n /\ n + (a - n) = a
        BY <1>2, <2>2
      <3>2. e[a - n] \in 1 .. Len(t)
        BY <3>1
      <3> QED
        BY <2>2, <3>1, <3>2
    <2> QED
      BY <2>1, <2>2
  <1> HIDE DEF f
  <1>5. \A a \in 1 .. Len(q) : f[a] \in 1 .. Len(u) /\ u[f[a]] = q[a] /\ ~q[a].leaving
    <2> SUFFICES ASSUME NEW a \in 1 .. Len(q) PROVE f[a] \in 1 .. Len(u) /\ u[f[a]] = q[a] /\ ~q[a].leaving
      OBVIOUS
    <2>1. CASE a \in 1 .. n /\ f[a] = a
      <3>1. q[a] = K[a] /\ ~q[a].leaving
        BY <1>2, <2>1
      <3>2. u[a] = K[a] /\ a \in 1 .. Len(u)
        BY <1>2, <1>3, <2>1
      <3> QED
        BY <2>1, <3>1, <3>2
    <2>2. CASE a > n /\ a - n \in 1 .. Len(r) /\ e[a - n] \in 1 .. Len(t)
               /\ f[a] = n + 1 + e[a - n] /\ n + (a - n) = a
      <3>1. u[f[a]] = t[e[a - n]] /\ f[a] \in 1 .. Len(u)
        BY <1>2, <1>3, <2>2
      <3>2. t[e[a - n]] = r[a - n] /\ q[a] = r[a - n] /\ ~r[a - n].leaving
        BY <1>1, <1>2, <2>2
      <3> QED
        BY <3>1, <3>2
    <2> QED
      BY <1>4, <2>1, <2>2
  <1>6. f \in [1 .. Len(q) -> 1 .. Len(u)]
    BY <1>5 DEF f
  <1>7. \A a, b \in 1 .. Len(q) : a < b => f[a] < f[b]
    <2> SUFFICES ASSUME NEW a \in 1 .. Len(q), NEW b \in 1 .. Len(q), a < b PROVE f[a] < f[b]
      OBVIOUS
    <2>1. CASE a \in 1 .. n /\ f[a] = a
      BY <1>2, <1>4, <2>1, SMTT(60)
    <2>2. CASE a > n /\ a - n \in 1 .. Len(r) /\ e[a - n] \in 1 .. Len(t)
               /\ f[a] = n + 1 + e[a - n] /\ n + (a - n) = a
      <3>1. b - n \in 1 .. Len(r) /\ e[b - n] \in 1 .. Len(t) /\ f[b] = n + 1 + e[b - n]
        BY <1>2, <1>4, <2>2
      <3>2. a - n < b - n
        BY <1>2, <2>2, <3>1, SMTT(60)
      <3>3. e[a - n] < e[b - n]
        BY <1>1, <2>2, <3>1, <3>2
      <3> QED
        BY <1>2, <2>2, <3>1, <3>3
    <2> QED
      BY <1>4, <2>1, <2>2
  <1>8. ASSUME NEW i \in Ahead(u) PROVE \E a \in 1 .. Len(q) : i = f[a]
    <2>1. i \in 1 .. Len(u) /\ ~u[i].leaving
      BY DEF Ahead
    <2>2. CASE i \in 1 .. n
      <3>1. i \in 1 .. Len(q)
        BY <1>2, <2>2
      <3>2. f[i] = i
        BY <1>2, <1>4, <2>2, <3>1
      <3> QED
        BY <3>1, <3>2
    <2>3. CASE i \notin 1 .. n
      <3>1. i # n + 1
        BY <1>3, <2>1
      <3>2. i - n - 1 \in 1 .. Len(t) /\ n + 1 + (i - n - 1) = i
        BY <1>2, <1>3, <2>1, <2>3, <3>1
      <3> DEFINE j == i - n - 1
      <3>3. u[i] = t[j] /\ j \in 1 .. Len(t) /\ n + 1 + j = i
        BY <1>3, <3>2
      <3> HIDE DEF j
      <3>4. j \in Ahead(t)
        BY <2>1, <3>3 DEF Ahead
      <3>5. PICK a \in 1 .. Len(r) : j = e[a]
        BY <1>1, <3>4
      <3>6. n + a \in 1 .. Len(q) /\ n + a > n /\ (n + a) - n = a
        BY <1>2
      <3> DEFINE c == n + a
      <3>7. c \in 1 .. Len(q) /\ c \notin 1 .. n /\ c - n = a
        BY <1>2, <3>6
      <3> HIDE DEF c
      <3>8. f[c] = n + 1 + e[c - n]
        BY <1>4, <3>7
      <3>9. f[c] = i
        BY <3>3, <3>5, <3>7, <3>8
      <3> QED
        BY <3>7, <3>9
    <2> QED
      BY <2>2, <2>3
  <1>9. Same(q, u)
    BY <1>5, <1>6, <1>7, <1>8 DEF Same
  <1> QED
    BY <1>9 DEF q, u

\* The moments of the record.
LEMMA LookedIs ==
    ASSUME NEW d, NEW run, NEW todo, NEW known, Looked(d, run, todo, known)
    PROVE  /\ Len(run) \in Nat
           /\ \A i \in 1 .. Len(run) : run[i].todo \in Seq(Entry) /\ run[i].known \subseteq Node
  <1>1. run \in Seq(Moment)
    BY DEF Looked
  <1>2. \A i \in 1 .. Len(run) : run[i] \in Moment
    BY <1>1
  <1>3. \A m \in Moment : m.todo \in Seq(Entry) /\ m.known \subseteq Node
    BY DEF Moment
  <1> QED
    BY <1>1, <1>2, <1>3

\* Where the first look was, when it had met what the second has met by now.
Retraced(d, s) ==
    \E run : /\ Looked(d, run, <<>>, Reached(d))
            /\ \E j \in 1 .. Len(run) : /\ run[j].known = s.known \cup s.active
                                        /\ Same(run[j].todo, s.todo)

\* The second look begins where the first did.
LEMMA RetracedInit ==
    ASSUME NEW d, IsDocument(d), Composed(d)
    PROVE  Retraced(d, ValidateAll)
  <1> DEFINE todo == <<At(Root, 0)>>
  <1>1. PICK run : Looked(d, run, <<>>, Reached(d))
    BY DEF Composed
  <1>2. run \in Seq(Moment) /\ run # <<>> /\ run[1] = [todo |-> todo, known |-> {}]
    BY <1>1 DEF Looked
  <1>3. ValidateAll.todo = todo /\ ValidateAll.known = {} /\ ValidateAll.active = {}
    BY DEF ValidateAll
  <1>4. ~At(Root, 0).leaving
    BY DEF At
  <1>5. Len(todo) = 1 /\ todo[1] = At(Root, 0)
    OBVIOUS
  <1> HIDE DEF todo
  <1>6. Same(todo, todo)
    <2> DEFINE e == [a \in 1 .. Len(todo) |-> a]
    <2>1. /\ e \in [1 .. Len(todo) -> 1 .. Len(todo)]
          /\ \A a, b \in 1 .. Len(todo) : a < b => e[a] < e[b]
          /\ \A a \in 1 .. Len(todo) : todo[e[a]] = todo[a] /\ ~todo[a].leaving
          /\ \A i \in Ahead(todo) : \E a \in 1 .. Len(todo) : i = e[a]
      BY <1>4, <1>5 DEF Ahead
    <2> HIDE DEF e
    <2> QED
      BY <2>1 DEF Same
  <1>7. 1 \in 1 .. Len(run)
    BY <1>2
  <1>8. run[1].known = {} \cup {} /\ Same(run[1].todo, todo)
    BY <1>2, <1>6
  <1> QED
    BY <1>1, <1>3, <1>7, <1>8 DEF Retraced

\* What was to be looked at has been looked at: it was not too deep.
LEMMA RetracedHead ==
    ASSUME NEW d, NEW run, NEW known, Looked(d, run, <<>>, known), NEW j \in 1 .. Len(run),
           run[j].todo # <<>>
    PROVE  j + 1 \in 1 .. Len(run) /\ Looks(d, run[j], run[j + 1]) /\ run[j].todo \in Seq(Entry)
           /\ run[j + 1].todo \in Seq(Entry)
  <1>1. /\ run \in Seq(Moment) /\ Len(run) \in Nat
        /\ run[Len(run)].todo = <<>>
        /\ \A i \in 1 .. Len(run) - 1 : Looks(d, run[i], run[i + 1])
    BY DEF Looked
  <1>2. j # Len(run)
    BY <1>1
  <1>3. j \in 1 .. Len(run) - 1 /\ j + 1 \in 1 .. Len(run)
    BY <1>1, <1>2
  <1>4. \A i \in 1 .. Len(run) : run[i].todo \in Seq(Entry)
    BY LookedIs
  <1> QED
    BY <1>1, <1>3, <1>4

\* A node is left.
LEMMA RetracedLeaves ==
    ASSUME NEW d, NEW s, Retraced(d, s), s.todo \in Seq(Entry), s.todo # <<>>, Head(s.todo).leaving,
           NEW e, e.todo = Tail(s.todo), e.known \cup e.active = s.known \cup s.active
    PROVE  Retraced(d, e)
  <1>1. PICK run : /\ Looked(d, run, <<>>, Reached(d))
                   /\ \E j \in 1 .. Len(run) : /\ run[j].known = s.known \cup s.active
                                               /\ Same(run[j].todo, s.todo)
    BY DEF Retraced
  <1>2. PICK j \in 1 .. Len(run) : run[j].known = s.known \cup s.active /\ Same(run[j].todo, s.todo)
    BY <1>1
  <1>3. run[j].todo \in Seq(Entry)
    BY <1>1, LookedIs
  <1>4. Same(run[j].todo, Tail(s.todo))
    BY <1>2, <1>3, SameLeaves
  <1> QED
    BY <1>1, <1>2, <1>4 DEF Retraced

\* A node that has been left is met again: so it was in the first look, an alias.
LEMMA RetracedPasses ==
    ASSUME NEW d, NEW s, Retraced(d, s), s.todo \in Seq(Entry), s.todo # <<>>, ~Head(s.todo).leaving
    PROVE  /\ Head(s.todo).depth <= MaxDepth
           /\ Head(s.todo).node \in s.known \cup s.active =>
                 \A e : e.todo = Tail(s.todo) /\ e.known \cup e.active = s.known \cup s.active
                          => Retraced(d, e)
  <1>1. PICK run : /\ Looked(d, run, <<>>, Reached(d))
                   /\ \E j \in 1 .. Len(run) : /\ run[j].known = s.known \cup s.active
                                               /\ Same(run[j].todo, s.todo)
    BY DEF Retraced
  <1>2. PICK j \in 1 .. Len(run) : run[j].known = s.known \cup s.active /\ Same(run[j].todo, s.todo)
    BY <1>1
  <1> DEFINE r == run[j].todo
  <1>3. r \in Seq(Entry)
    BY <1>1, LookedIs
  <1> HIDE DEF r
  <1>4. r # <<>> /\ Head(r) = Head(s.todo) /\ Same(Tail(r), Tail(s.todo))
    BY <1>2, <1>3, SameHead DEF r
  <1>5. j + 1 \in 1 .. Len(run) /\ Looks(d, run[j], run[j + 1])
    BY <1>1, <1>4, RetracedHead DEF r
  <1>6. Head(s.todo).depth <= MaxDepth
    BY <1>4, <1>5 DEF Looks, r
  <1>7. ASSUME Head(s.todo).node \in s.known \cup s.active,
               NEW e, e.todo = Tail(s.todo), e.known \cup e.active = s.known \cup s.active
        PROVE  Retraced(d, e)
    <2>1. run[j + 1].todo = Tail(r) /\ run[j + 1].known = run[j].known
      BY <1>2, <1>4, <1>5, <1>7 DEF Looks, r
    <2>2. Same(run[j + 1].todo, e.todo) /\ run[j + 1].known = e.known \cup e.active
      BY <1>2, <1>4, <1>7, <2>1
    <2> QED
      BY <1>1, <1>5, <2>2 DEF Retraced
  <1> QED
    BY <1>6, <1>7

\* A node is entered: so it was in the first look.
LEMMA RetracedEnters ==
    ASSUME NEW d, IsDocument(d), NEW s, Retraced(d, s), s.todo \in Seq(Entry), s.todo # <<>>,
           ~Head(s.todo).leaving, Head(s.todo).node \notin s.known \cup s.active,
           Head(s.todo).node \notin d.flawed
    PROVE  /\ d.kids[Head(s.todo).node] # <<>> => Head(s.todo).depth + 1 <= MaxDepth
           /\ \A e : /\ e.todo = Kids(d, Head(s.todo))
                                \o <<[Head(s.todo) EXCEPT !.leaving = TRUE]>> \o Tail(s.todo)
                     /\ e.known \cup e.active = s.known \cup s.active \cup {Head(s.todo).node}
                     => Retraced(d, e)
  <1> DEFINE x == Head(s.todo)
             K == Kids(d, x)
             mark == [x EXCEPT !.leaving = TRUE]
  <1>0. x \in Entry
    <2> DEFINE t == s.todo
    <2>1. t \in Seq(Entry) /\ t # <<>>
      OBVIOUS
    <2> HIDE DEF t
    <2>2. Head(t) \in Entry
      BY <2>1
    <2> QED
      BY <2>2 DEF t
  <1>1. PICK run : /\ Looked(d, run, <<>>, Reached(d))
                   /\ \E j \in 1 .. Len(run) : /\ run[j].known = s.known \cup s.active
                                               /\ Same(run[j].todo, s.todo)
    BY DEF Retraced
  <1>2. PICK j \in 1 .. Len(run) : run[j].known = s.known \cup s.active /\ Same(run[j].todo, s.todo)
    BY <1>1
  <1> DEFINE r == run[j].todo
             q == run[j + 1].todo
  <1>3. r \in Seq(Entry)
    BY <1>1, LookedIs
  <1> HIDE DEF r
  <1>4. r # <<>> /\ Head(r) = x /\ Same(Tail(r), Tail(s.todo))
    BY <1>2, <1>3, SameHead DEF r
  <1>5. j + 1 \in 1 .. Len(run) /\ Looks(d, run[j], run[j + 1]) /\ q \in Seq(Entry)
    BY <1>1, <1>4, RetracedHead DEF r
  <1>6. /\ K \in Seq(Entry) /\ Len(K) = Len(d.kids[x.node]) /\ Len(d.kids[x.node]) \in Nat
        /\ \A i \in 1 .. Len(d.kids[x.node]) :
              K[i] = [node |-> d.kids[x.node][i], depth |-> x.depth + 1, leaving |-> FALSE]
    BY <1>0, KidsAre
  <1>7. BadKey(d, x) = <<>>
    BY DEF BadKey
  <1>8. /\ q = K \o BadKey(d, x) \o Tail(r)
        /\ run[j + 1].known = run[j].known \cup {x.node}
    BY <1>2, <1>4, <1>5 DEF Looks, r
  <1> HIDE DEF K, x
  <1>9. q = K \o Tail(r)
    <2>1. K \o <<>> = K
      BY <1>6
    <2> QED
      BY <1>7, <1>8, <2>1
  <1> HIDE DEF q
  <1>10. ASSUME d.kids[x.node] # <<>> PROVE x.depth + 1 <= MaxDepth
    <2>1. Len(K) # 0
      <3>1. x.node \in Node
        BY <1>0 DEF Entry
      <3>2. d.kids[x.node] \in Seq(Node)
        BY <3>1, KidsOf
      <3> QED
        BY <1>6, <1>10, <3>2
    <2>2. Tail(r) \in Seq(Entry)
      BY <1>3, <1>4
    <2>3. 1 \in 1 .. Len(K)
      BY <1>6, <2>1
    <2>4. q # <<>> /\ q[1] = K[1]
      <3> DEFINE u == Tail(r)
      <3>1. u \in Seq(Entry) /\ q = K \o u /\ K \in Seq(Entry)
        BY <1>6, <1>9, <2>2
      <3> HIDE DEF u
      <3> QED
        BY <2>3, <3>1
    <2>5. Head(q) = K[1] /\ K[1].depth = x.depth + 1
      <3>1. Head(q) = q[1]
        BY <1>5, <2>4
      <3>2. 1 \in 1 .. Len(d.kids[x.node])
        BY <1>6, <2>3
      <3>3. K[1] = [node |-> d.kids[x.node][1], depth |-> x.depth + 1, leaving |-> FALSE]
        BY <1>6, <3>2
      <3> QED
        BY <2>4, <3>1, <3>3
    <2>6. Looks(d, run[j + 1], run[j + 1 + 1])
      BY <1>1, <1>5, <2>4, RetracedHead DEF q
    <2> QED
      BY <2>5, <2>6 DEF Looks, q
  <1>11. ASSUME NEW e, e.todo = K \o <<mark>> \o Tail(s.todo),
                e.known \cup e.active = s.known \cup s.active \cup {x.node}
         PROVE  Retraced(d, e)
    <2>1. Tail(r) \in Seq(Entry) /\ Tail(s.todo) \in Seq(Entry)
      BY <1>3, <1>4
    <2>2. mark \in Entry /\ mark.leaving
      BY <1>0 DEF Entry
    <2>3. \A i \in 1 .. Len(K) : ~K[i].leaving
      <3> SUFFICES ASSUME NEW i \in 1 .. Len(K) PROVE ~K[i].leaving
        OBVIOUS
      <3>1. K[i] = [node |-> d.kids[x.node][i], depth |-> x.depth + 1, leaving |-> FALSE]
        BY <1>6
      <3> QED
        BY <3>1
    <2> HIDE DEF mark
    <2>4. Same(K \o Tail(r), K \o <<mark>> \o Tail(s.todo))
      BY <1>4, <1>6, <2>1, <2>2, <2>3, SamePushed
    <2>5. Same(run[j + 1].todo, e.todo) /\ run[j + 1].known = e.known \cup e.active
      BY <1>2, <1>8, <1>9, <1>11, <2>4 DEF q
    <2> QED
      BY <1>1, <1>5, <2>5 DEF Retraced
  <1> QED
    BY <1>10, <1>11 DEF K, x

-----------------------------------------------------------------------------
(* The second look, step by step.                                          *)

\* What has been left: with everything that can be reached from it, and what was
\* left first of some nodes has none of them for a child.
Finished(d, known) ==
    /\ \A n \in known : Range(d.kids[n]) \subseteq known
    /\ \A S \in SUBSET known : S # {} => \E n \in S : Range(d.kids[n]) \cap S = {}

SecondLook(d, s) ==
    /\ Fields \subseteq DOMAIN s
    /\ Pending(d, s.todo, s.known, s.active) /\ Finished(d, s.known)
    /\ s.entries = Cardinality(Places(d, s.known \cup s.active))
    /\ Retraced(d, s)

\* The second look begins.
LEMMA SecondLookInit ==
    ASSUME NEW d, IsDocument(d), Composed(d)
    PROVE  SecondLook(d, ValidateAll)
  <1> DEFINE todo == <<At(Root, 0)>>
  <1>1. /\ ValidateAll.todo = todo /\ ValidateAll.known = {} /\ ValidateAll.active = {}
        /\ ValidateAll.entries = 1 /\ DOMAIN ValidateAll = Fields
    BY DEF ValidateAll, Fields
  <1>2. At(Root, 0) \in Entry /\ At(Root, 0).node = Root /\ ~At(Root, 0).leaving
    BY DocumentAssumption DEF At, Entry
  <1>3. todo \in Seq(Entry) /\ Len(todo) = 1 /\ todo[1] = At(Root, 0)
    BY <1>2
  <1> HIDE DEF todo
  <1>4. Marks(todo) = {} /\ Ahead(todo) = {1}
    BY <1>2, <1>3 DEF Marks, Ahead
  <1>5. \A i : Below(todo, i) = {}
    BY <1>4 DEF Below
  <1>6. Root \in Above(todo, Len(todo) + 1)
    BY <1>2, <1>3 DEF Above
  <1>7. Beneath(d, todo[1], {})
    BY <1>2, <1>3 DEF Beneath
  <1>8. Pending(d, todo, {}, {})
    BY <1>3, <1>4, <1>5, <1>6, <1>7 DEF Pending
  <1>9. Places(d, {} \cup {}) = {<<Root, 0>>}
    BY DEF Places
  <1>10. Cardinality(Places(d, {} \cup {})) = 1
    BY <1>9, FS_Singleton
  <1> QED
    BY <1>1, <1>8, <1>10, RetracedInit DEF SecondLook, Finished

\* Of what is open, the head is the last or none.
LEMMA PendingHead ==
    ASSUME NEW d, NEW t, NEW known, NEW active, Pending(d, t, known, active), t # <<>>
    PROVE  /\ Head(t) \in Entry /\ Head(t) = t[1] /\ Head(t).node \in Node
           /\ Head(t).leaving => /\ Head(t).node \in active /\ Below(t, 1) = active \ {Head(t).node}
                                 /\ Range(d.kids[Head(t).node]) \subseteq known
           /\ ~Head(t).leaving => Below(t, 1) = active /\ Beneath(d, Head(t), active)
  <1>1. t \in Seq(Entry) /\ active = Below(t, 0)
    BY DEF Pending
  <1>2. Len(t) \in Nat \ {0} /\ Head(t) = t[1] /\ 1 \in 1 .. Len(t) /\ Head(t).node \in Node
    BY <1>1, HeadIs
  <1>3. Head(t) \in Entry
    BY <1>1
  <1>4. \A k \in Marks(t) : k \in 1 .. Len(t) /\ k > 0 /\ (k > 1 \/ k = 1)
    BY <1>2 DEF Marks
  <1>5. ASSUME Head(t).leaving
        PROVE  /\ Head(t).node \in active /\ Below(t, 1) = active \ {Head(t).node}
               /\ Range(d.kids[Head(t).node]) \subseteq known
    <2>1. 1 \in Marks(t)
      BY <1>2, <1>5 DEF Marks
    <2>2. Head(t).node \in active
      BY <1>1, <1>2, <2>1, BelowIs
    <2>3. ASSUME NEW y \in Below(t, 1) PROVE y \in active \ {Head(t).node}
      <3>1. PICK k \in Marks(t) : k > 1 /\ y = t[k].node
        BY <2>3, BelowIs
      <3>2. y \in active
        BY <1>1, <1>4, <3>1, BelowIs
      <3>3. k # 1
        BY <1>4, <3>1
      <3>4. t[k].node # t[1].node
        BY <2>1, <3>1, <3>3 DEF Pending
      <3> QED
        BY <1>2, <3>1, <3>2, <3>4
    <2>4. ASSUME NEW y \in active, y # Head(t).node PROVE y \in Below(t, 1)
      <3>1. PICK k \in Marks(t) : k > 0 /\ y = t[k].node
        BY <1>1, <2>4, BelowIs
      <3>2. k > 1
        BY <1>2, <1>4, <2>4, <3>1
      <3> QED
        BY <3>1, <3>2, BelowIs
    <2>5. Range(d.kids[Head(t).node]) \subseteq known \cup Above(t, 1)
      BY <1>2, <2>1 DEF Pending
    <2>6. Above(t, 1) = {}
      <3>1. 1 .. 1 - 1 = {}
        OBVIOUS
      <3> QED
        BY <3>1 DEF Above
    <2> QED
      BY <2>2, <2>3, <2>4, <2>5, <2>6
  <1>6. ASSUME ~Head(t).leaving PROVE Below(t, 1) = active /\ Beneath(d, Head(t), active)
    <2>1. 1 \notin Marks(t) /\ 1 \in Ahead(t)
      BY <1>2, <1>6 DEF Marks, Ahead
    <2>2. \A k \in Marks(t) : k > 1 /\ k > 0
      BY <1>4, <2>1
    <2>3. \A k \in Marks(t) : k > 1 <=> k > 0
      BY <2>2
    <2>4. Below(t, 1) = Below(t, 0)
      BY <2>2 DEF Below
    <2>5. Beneath(d, t[1], Below(t, 1))
      BY <2>1 DEF Pending
    <2> QED
      BY <1>1, <1>2, <2>4, <2>5
  <1> QED
    BY <1>2, <1>3, <1>5, <1>6

\* The head is done with.
LEMMA PendingTail ==
    ASSUME NEW d, NEW t, NEW known, NEW active, Pending(d, t, known, active), t # <<>>,
           NEW known2, NEW active2, known2 \cup active2 \subseteq Reached(d), known2 \cap active2 = {},
           known \subseteq known2, active2 = Below(t, 1), Head(t).node \in known2
    PROVE  Pending(d, Tail(t), known2, active2)
  <1> DEFINE none == <<>>
  <1>1. t \in Seq(Entry)
    BY DEF Pending
  <1>2. none \in Seq(Entry) /\ none \o Tail(t) = Tail(t) /\ Len(none) = 0
    BY <1>1
  <1> HIDE DEF none
  <1>3. Marks(none) = {} /\ Ahead(none) = {}
    BY <1>2 DEF Marks, Ahead
  <1>4. Below(none, 0) = {}
    BY <1>3 DEF Below
  <1>5. active2 = Below(none, 0) \cup Below(t, 1)
    BY <1>4
  <1>6. Pending(d, none \o Tail(t), known2, active2)
    BY <1>2, <1>3, <1>5, PendingReplaced
  <1> QED
    BY <1>2, <1>6

\* A node is entered: the open way becomes one longer.
LEMMA PendingEnters ==
    ASSUME NEW d, IsDocument(d), NEW t, NEW known, NEW active, Pending(d, t, known, active),
           t # <<>>, ~Head(t).leaving, Head(t).node \notin known \cup active
    PROVE  /\ Pending(d, Kids(d, Head(t)) \o <<[Head(t) EXCEPT !.leaving = TRUE]>> \o Tail(t),
                      known, active \cup {Head(t).node})
           /\ Head(t).node \in Reached(d)
  <1> DEFINE x == Head(t)
             kids == d.kids[x.node]
             n == Len(kids)
             all == Kids(d, x)
             mark == [x EXCEPT !.leaving = TRUE]
             K == all \o <<mark>>
             more == active \cup {x.node}
  <1>1. /\ t \in Seq(Entry) /\ known \cup active \subseteq Reached(d) /\ known \cap active = {}
        /\ \A i, j \in Marks(t) : t[i].node = t[j].node => i = j
    BY DEF Pending
  <1>2. x \in Entry /\ x.node \in Node /\ Below(t, 1) = active /\ Beneath(d, x, active)
    BY PendingHead
  <1>3. /\ all \in Seq(Entry) /\ Len(all) = n /\ n \in Nat
        /\ \A i \in 1 .. n : all[i] = [node |-> kids[i], depth |-> x.depth + 1, leaving |-> FALSE]
        /\ Range(kids) = {kids[i] : i \in 1 .. n}
    BY <1>2, KidsAre, ZenonT(60)
  <1>4. mark \in Entry /\ mark.leaving /\ mark.node = x.node
    BY <1>2 DEF Entry
  <1>5. x.node \notin known /\ x.node \notin active
    OBVIOUS
  <1> HIDE DEF x, all, n, kids, mark
  <1>6. /\ K \in Seq(Entry) /\ Len(K) = n + 1 /\ K[n + 1] = mark
        /\ \A i \in 1 .. n : K[i] = all[i]
    <2>1. /\ K \in Seq(Entry) /\ Len(K) = Len(all) + 1 /\ K[Len(all) + 1] = mark
          /\ \A i \in 1 .. Len(all) : K[i] = all[i]
      BY <1>3, <1>4, Ended
    <2> QED
      BY <1>3, <2>1
  <1> HIDE DEF K
  <1>7. \A i \in 1 .. n : K[i].node = kids[i] /\ ~K[i].leaving
    BY <1>3, <1>6
  <1>8. n + 1 \in 1 .. Len(K) /\ \A i \in 1 .. Len(K) : i = n + 1 \/ i \in 1 .. n
    BY <1>3, <1>6
  <1>9. Marks(K) = {n + 1}
    BY <1>4, <1>6, <1>7, <1>8 DEF Marks
  <1>10. \A i \in Ahead(K) : i \in 1 .. n
    BY <1>4, <1>6, <1>8 DEF Ahead
  <1>11. \A i \in 0 .. n : Below(K, i) = {x.node}
    <2> SUFFICES ASSUME NEW i \in 0 .. n PROVE Below(K, i) = {x.node}
      OBVIOUS
    <2>1. {j \in Marks(K) : j > i} = {n + 1}
      BY <1>3, <1>9
    <2> QED
      BY <1>4, <1>6, <2>1 DEF Below
  <1>12. PICK w \in Way(d) : w[Len(w)] = x.node /\ Range(w) = more
    <2>1. CASE x.node = Root /\ active = {}
      BY <2>1, WayTop
    <2>2. CASE \E w \in Way(d) : Range(w) = active /\ x.node \in Range(d.kids[w[Len(w)]])
      <3>1. PICK w \in Way(d) : Range(w) = active /\ x.node \in Range(d.kids[w[Len(w)]])
        BY <2>2
      <3> DEFINE c == x.node
                 on == Append(w, c)
      <3>2. on \in Way(d) /\ Len(on) = Len(w) + 1 /\ on[Len(w) + 1] = c /\ Range(on) = Range(w) \cup {c}
        BY <1>5, <3>1, WayOn
      <3> HIDE DEF on
      <3> QED
        BY <3>1, <3>2
    <2> QED
      BY <1>2, <2>1, <2>2 DEF Beneath
  <1>13. x.node \in Reached(d)
    BY <1>12 DEF Reached
  <1>14. ASSUME NEW i \in Ahead(K) PROVE Beneath(d, K[i], Below(K, i) \cup Below(t, 1))
    <2>1. i \in 1 .. n /\ i \in 0 .. n
      BY <1>3, <1>10
    <2>2. Below(K, i) \cup Below(t, 1) = more
      BY <1>2, <1>11, <2>1
    <2>3. K[i].node \in Range(d.kids[w[Len(w)]])
      BY <1>3, <1>7, <1>12, <2>1 DEF kids
    <2> QED
      BY <1>12, <2>2, <2>3 DEF Beneath
  <1>15. ASSUME NEW i \in Marks(K)
         PROVE  /\ K[i].node \notin Below(t, 1)
                /\ Range(d.kids[K[i].node]) \subseteq known \cup Above(K, i)
    <2>1. i = n + 1 /\ K[i].node = x.node
      BY <1>4, <1>6, <1>9
    <2>2. ASSUME NEW y \in Range(kids) PROVE y \in Above(K, n + 1)
      <3>1. PICK j \in 1 .. n : y = kids[j]
        BY <1>3
      <3>2. j \in 1 .. (n + 1) - 1 /\ K[j].node = y
        BY <1>3, <1>7, <3>1
      <3> QED
        BY <3>2 DEF Above
    <2> QED
      BY <1>2, <1>5, <2>1, <2>2 DEF kids
  <1>16. x.node \in Above(K, Len(K) + 1)
    <2>1. n + 1 \in 1 .. (Len(K) + 1) - 1 /\ K[n + 1].node = x.node
      BY <1>3, <1>4, <1>6
    <2> QED
      BY <2>1 DEF Above
  <1>17. more = Below(K, 0) \cup Below(t, 1)
    <2>1. 0 \in 0 .. n
      BY <1>3
    <2> QED
      BY <1>2, <1>11, <2>1
  <1>18. known \cup more \subseteq Reached(d) /\ known \cap more = {}
    BY <1>1, <1>5, <1>13
  <1>19. \A i, j \in Marks(K) : K[i].node = K[j].node => i = j
    BY <1>9
  <1> HIDE DEF more
  <1>20. Pending(d, K \o Tail(t), known, more)
    <2>1. t # <<>> /\ known \subseteq known /\ Head(t).node \in known \cup Above(K, Len(K) + 1)
      BY <1>16 DEF x
    <2> QED
      BY <1>6, <1>14, <1>15, <1>17, <1>18, <1>19, <2>1, PendingReplaced
  <1> QED
    BY <1>13, <1>20 DEF K, all, mark, more, x

\* A node is left after its children.
LEMMA FinishedOn ==
    ASSUME NEW d, NEW known, Finished(d, known), NEW x, x \notin known,
           Range(d.kids[x]) \subseteq known
    PROVE  Finished(d, known \cup {x})
  <1>1. \A n \in known \cup {x} : Range(d.kids[n]) \subseteq known \cup {x}
    BY DEF Finished
  <1>2. ASSUME NEW S \in SUBSET (known \cup {x}), S # {}
        PROVE  \E n \in S : Range(d.kids[n]) \cap S = {}
    <2>1. CASE S \ {x} = {}
      <3>1. S = {x}
        BY <1>2, <2>1
      <3> QED
        BY <3>1
    <2>2. CASE S \ {x} # {}
      <3>1. S \ {x} \in SUBSET known
        OBVIOUS
      <3>2. PICK n \in S \ {x} : Range(d.kids[n]) \cap (S \ {x}) = {}
        BY <2>2, <3>1 DEF Finished
      <3>3. x \notin Range(d.kids[n])
        BY <3>1, <3>2 DEF Finished
      <3> QED
        BY <3>2, <3>3
    <2> QED
      BY <2>1, <2>2
  <1> QED
    BY <1>1, <1>2 DEF Finished

\* An entry is looked at again: the look goes on, or it finds a cycle.
LEMMA SecondLookNext ==
    ASSUME NEW d, IsDocument(d), Composed(d), NEW s, SecondLook(d, s), s.verdict = "open",
           s.todo # <<>>, NEW e, e = ValidateNext(d, s)
    PROVE  \/ SecondLook(d, e) /\ e.verdict = "open"
           \/ e.verdict = "cycle" /\ Cyclic(d)
  <1> DEFINE t == s.todo
             x == Head(t)
             known == s.known
             active == s.active
             n == Len(d.kids[x.node])
             rest == [s EXCEPT !.todo = Tail(@)]
             leaves == [rest EXCEPT !.active = @ \ {x.node}, !.known = @ \cup {x.node}]
             entered == [rest EXCEPT !.entries = @ + n,
                                     !.active = @ \cup {x.node},
                                     !.todo = Kids(d, x) \o <<[x EXCEPT !.leaving = TRUE]>> \o @]
  <1>1. /\ Fields \subseteq DOMAIN s /\ Pending(d, t, known, active) /\ Finished(d, known)
        /\ s.entries = Cardinality(Places(d, known \cup active)) /\ Retraced(d, s)
    BY DEF SecondLook
  <1>2. /\ t \in Seq(Entry) /\ known \cup active \subseteq Reached(d) /\ known \cap active = {}
    BY <1>1 DEF Pending
  <1>3. /\ x \in Entry /\ x = t[1] /\ x.node \in Node
        /\ x.leaving => /\ x.node \in active /\ Below(t, 1) = active \ {x.node}
                        /\ Range(d.kids[x.node]) \subseteq known
        /\ ~x.leaving => Below(t, 1) = active /\ Beneath(d, x, active)
    BY <1>1, PendingHead
  <1>4. x.depth \in Nat /\ x.leaving \in BOOLEAN /\ n \in Nat
    BY <1>3, KidsOf DEF Entry
  <1>5. /\ rest.todo = Tail(t) /\ rest.known = known /\ rest.active = active
        /\ rest.entries = s.entries /\ rest.verdict = "open" /\ DOMAIN rest = DOMAIN s
    BY <1>1 DEF Fields
  <1>6. /\ leaves.todo = Tail(t) /\ leaves.known = known \cup {x.node} /\ leaves.active = active \ {x.node}
        /\ leaves.entries = s.entries /\ leaves.verdict = "open" /\ DOMAIN leaves = DOMAIN s
    BY <1>1 DEF Fields
  <1>7. /\ entered.todo = Kids(d, x) \o <<[x EXCEPT !.leaving = TRUE]>> \o Tail(t)
        /\ entered.known = known /\ entered.active = active \cup {x.node}
        /\ entered.entries = s.entries + n /\ entered.verdict = "open"
        /\ DOMAIN entered = DOMAIN s
    BY <1>1 DEF Fields
  <1>8. "verdict" \in DOMAIN s /\ Refused(s, "cycle").verdict = "cycle"
    BY <1>1 DEF Fields, Refused
  <1>9. MaxDepth \in Nat /\ MaxEntries \in Nat
    BY DocumentAssumption
  <1> HIDE DEF leaves, entered, rest
  <1>10. CASE x.leaving
    <2>1. e = leaves
      BY <1>10 DEF ValidateNext, leaves, rest
    <2>2. leaves.known \cup leaves.active = known \cup active
      BY <1>3, <1>6, <1>10
    <2>3. Pending(d, Tail(t), leaves.known, leaves.active)
      <3>1. leaves.known \cap leaves.active = {} /\ known \subseteq leaves.known /\ leaves.active = Below(t, 1)
            /\ x.node \in leaves.known /\ leaves.known \cup leaves.active \subseteq Reached(d)
        BY <1>2, <1>3, <1>6, <1>10, <2>2
      <3> HIDE DEF known, active, t
      <3> QED
        BY <1>1, <3>1, PendingTail DEF t
    <2>4. Finished(d, leaves.known)
      BY <1>1, <1>2, <1>3, <1>6, <1>10, FinishedOn
    <2>5. Retraced(d, leaves)
      BY <1>1, <1>2, <1>6, <1>10, <2>2, RetracedLeaves
    <2>6. SecondLook(d, leaves)
      BY <1>1, <1>6, <2>2, <2>3, <2>4, <2>5 DEF SecondLook
    <2> QED
      BY <1>6, <2>1, <2>6
  <1>11. CASE ~x.leaving
    <2>1. x.depth <= MaxDepth /\ ~(x.depth > MaxDepth)
      <3>1. x.depth <= MaxDepth
        BY <1>1, <1>2, <1>11, RetracedPasses
      <3> QED
        BY <1>4, <1>9, <3>1
    <2>2. CASE x.node \in known
      <3>1. e = rest
        BY <1>11, <2>1, <2>2 DEF ValidateNext, Completed, rest
      <3>2. Retraced(d, rest)
        BY <1>1, <1>2, <1>5, <1>11, <2>2, RetracedPasses
      <3>3. Pending(d, Tail(t), known, active)
        BY <1>1, <1>2, <1>3, <1>11, <2>2, PendingTail
      <3>4. SecondLook(d, rest)
        BY <1>1, <1>5, <3>2, <3>3 DEF SecondLook
      <3> QED
        BY <1>5, <3>1, <3>4
    <2>3. CASE x.node \notin known /\ x.node \in active
      <3>1. e = Refused(s, "cycle")
        BY <1>11, <2>1, <2>3 DEF ValidateNext, Completed
      <3>2. PICK w \in Way(d) : Range(w) = active /\ x.node \in Range(d.kids[w[Len(w)]])
        BY <1>3, <1>11, <2>3 DEF Beneath
      <3>3. Range(w) \cap Range(d.kids[w[Len(w)]]) # {}
        BY <2>3, <3>2
      <3>4. Cyclic(d)
        BY <3>3 DEF Cyclic
      <3> QED
        BY <1>8, <3>1, <3>4
    <2>4. CASE x.node \notin known /\ x.node \notin active
      <3>1. /\ Pending(d, entered.todo, known, active \cup {x.node})
            /\ x.node \in Reached(d)
        <4>1. x.node \notin known \cup active /\ t # <<>> /\ ~x.leaving
          BY <1>11, <2>4
        <4>2. Pending(d, t, known, active)
          BY <1>1
        <4> HIDE DEF t, known, active
        <4>3. /\ Pending(d, Kids(d, x) \o <<[x EXCEPT !.leaving = TRUE]>> \o Tail(t),
                         known, active \cup {x.node})
              /\ x.node \in Reached(d)
          BY <4>1, <4>2, PendingEnters, SMTT(60)
        <4> QED
          BY <1>7, <4>3
      <3>2. x.node \notin d.flawed
        BY <3>1 DEF Composed
      <3>3. /\ d.kids[x.node] # <<>> => x.depth + 1 <= MaxDepth
            /\ Retraced(d, entered)
        BY <1>1, <1>2, <1>7, <1>11, <2>4, <3>2, RetracedEnters, ZenonT(60)
      <3>4. ~(n > 0 /\ x.depth >= MaxDepth)
        <4>1. CASE n = 0
          BY <4>1
        <4>2. CASE n # 0
          <5>1. d.kids[x.node] # <<>>
            BY <4>2
          <5> QED
            BY <1>4, <1>9, <3>3, <5>1
        <4> QED
          BY <4>1, <4>2
      <3> DEFINE old == Places(d, known \cup active)
                 more == Places(d, known \cup active \cup {x.node})
                 all == Places(d, Reached(d))
      <3>5. Cardinality(more) = Cardinality(old) + n /\ Cardinality(old) \in Nat
        <4>1. known \cup active \in SUBSET Node
          BY <1>2, ReachedWritten
        <4> DEFINE new == {x.node} \X (1 .. n)
        <4>2. more = old \cup new /\ old \cap new = {} /\ IsFiniteSet(new) /\ Cardinality(new) = n
          <5>1. x.node \in Node /\ x.node \notin known \cup active
            BY <1>3, <2>4
          <5> HIDE DEF x, known, active, t
          <5>2. \A N \in SUBSET Node, y \in Node : y \notin N =>
                   /\ Places(d, N \cup {y}) = Places(d, N) \cup ({y} \X (1 .. Len(d.kids[y])))
                   /\ Places(d, N) \cap ({y} \X (1 .. Len(d.kids[y]))) = {}
                   /\ IsFiniteSet({y} \X (1 .. Len(d.kids[y])))
                   /\ Cardinality({y} \X (1 .. Len(d.kids[y]))) = Len(d.kids[y])
            BY PlacesAdd
          <5> QED
            BY <4>1, <5>1, <5>2
        <4>3. IsFiniteSet(old) /\ Cardinality(old) \in Nat
          BY <4>1, PlacesFinite
        <4> HIDE DEF more, old, new, n
        <4>4. Cardinality(old \cup new) = Cardinality(old) + Cardinality(new)
          BY <4>2, <4>3, Apart
        <4> QED
          BY <4>2, <4>3, <4>4
      <3>6. Cardinality(more) <= Cardinality(all) /\ Cardinality(all) \in Nat
            /\ Cardinality(all) = Occurrences(d)
        <4>1. Reached(d) \in SUBSET Node /\ known \cup active \cup {x.node} \in SUBSET Reached(d)
          BY <1>2, <3>1, ReachedWritten
        <4>2. more \subseteq all /\ IsFiniteSet(all) /\ Cardinality(all) \in Nat
          BY <4>1, PlacesGrow, PlacesFinite
        <4> HIDE DEF more
        <4>3. Cardinality(more) <= Cardinality(all)
          BY <4>2, FS_Subset
        <4> QED
          BY <4>2, <4>3 DEF Occurrences
      <3> HIDE DEF old, more, all, n
      <3>7. Occurrences(d) <= MaxEntries
        BY DEF Composed
      <3>8. s.entries = Cardinality(old)
        BY <1>1 DEF old
      <3>9. ~(n > MaxEntries - s.entries)
        BY <1>4, <1>9, <3>5, <3>6, <3>7, <3>8
      <3>10. e = entered
        BY <1>11, <2>1, <2>4, <3>2, <3>4, <3>9 DEF ValidateNext, Completed, entered, rest, n
      <3>11. entered.known \cup entered.active = known \cup active \cup {x.node}
        BY <1>7
      <3>12. entered.entries = Cardinality(Places(d, entered.known \cup entered.active))
        BY <1>7, <3>5, <3>8, <3>11 DEF more
      <3>13. SecondLook(d, entered)
        BY <1>1, <1>7, <3>1, <3>3, <3>12 DEF SecondLook
      <3> QED
        BY <1>7, <3>10, <3>13
    <2> QED
      BY <2>2, <2>3, <2>4
  <1> QED
    BY <1>4, <1>10, <1>11

\* What has been left altogether has no cycle.
LEMMA SecondLookEnds ==
    ASSUME NEW d, IsDocument(d), NEW s, SecondLook(d, s), s.todo = <<>>
    PROVE  ~Cyclic(d)
  <1> DEFINE known == s.known
  <1>1. Pending(d, <<>>, known, s.active) /\ Finished(d, known)
    BY DEF SecondLook
  <1>2. Above(<<>>, Len(<<>>) + 1) = {}
    <2>1. 1 .. (Len(<<>>) + 1) - 1 = {}
      OBVIOUS
    <2> QED
      BY <2>1 DEF Above
  <1>3. Root \in known /\ \A n \in known : Range(d.kids[n]) \subseteq known
    BY <1>1, <1>2 DEF Pending, Finished
  <1>4. Reached(d) \subseteq known
    BY <1>3, ClosedHolds
  <1> SUFFICES ASSUME NEW w \in Way(d), NEW c \in Range(w), c \in Range(d.kids[w[Len(w)]])
               PROVE  FALSE
    BY DEF Cyclic
  <1>5. /\ w \in Seq(Node) /\ Len(w) \in Nat /\ Len(w) >= 1 /\ DOMAIN w = 1 .. Len(w)
        /\ \A i \in 1 .. Len(w) - 1 : w[i + 1] \in Range(d.kids[w[i]])
    BY WayIs, SomeNode
  <1>6. PICK j \in 1 .. Len(w) : c = w[j]
    BY <1>5 DEF Range
  <1> DEFINE S == {w[k] : k \in j .. Len(w)}
  <1>7. S \subseteq known
    <2>1. \A k \in j .. Len(w) : k \in 1 .. Len(w)
      BY <1>5
    <2>2. \A k \in 1 .. Len(w) : w[k] \in Range(w)
      BY <1>5 DEF Range
    <2>3. Range(w) \subseteq known
      BY <1>4, OnTheWay
    <2> QED
      BY <2>1, <2>2, <2>3
  <1>8. j \in j .. Len(w) /\ c \in S
    BY <1>5, <1>6
  <1>9. PICK n \in S : Range(d.kids[n]) \cap S = {}
    <2> HIDE DEF S
    <2> QED
      BY <1>1, <1>7, <1>8 DEF Finished
  <1>10. PICK k \in j .. Len(w) : n = w[k]
    BY <1>9
  <1>11. CASE k = Len(w)
    BY <1>8, <1>9, <1>10, <1>11
  <1>12. CASE k # Len(w)
    <2>1. k \in 1 .. Len(w) - 1 /\ k + 1 \in j .. Len(w)
      <3>1. Len(w) \in Nat
        BY <1>5
      <3> HIDE DEF S
      <3> QED
        BY <1>12, <3>1
    <2>2. w[k + 1] \in Range(d.kids[n]) /\ w[k + 1] \in S
      BY <1>5, <1>10, <2>1
    <2> QED
      BY <1>9, <2>2
  <1> QED
    BY <1>11, <1>12

-----------------------------------------------------------------------------
(* What is judged: until it is, nothing of the document has been looked    *)
(* at, and afterwards the answer is that of the looks.                     *)

Unread == {"note", "open", "inspect", "shed", "stat", "verify", "read", "shut"}
Faults == {"parser", "keys", "structure", "cycle"}

\* A checkpoint is looked at once, and its fields are checked.
JudgedState ==
    /\ pc \in Unread => scan = ComposeAll
    /\ pc \in Unread \cup {"compose", "schema", "release", "tidied", "done"}
    /\ pc = "compose" =>
          \/ scan.verdict = "open" /\ \E V : StateLook(case.document, scan, V)
          \/ scan.verdict \in {"keys", "structure"} /\ ~AcceptableState(case.document)
    /\ pc = "schema" \/ Answered => AcceptableState(case.document)
    /\ told \in {"keys", "structure"} => ~AcceptableState(case.document)

\* A document is looked at twice.
JudgedDocument ==
    /\ pc \in Unread => scan = ComposeAll
    /\ pc \in (Unread \ {"shut"}) \cup {"compose", "validate", "release", "tidied", "done"}
    /\ pc = "compose" =>
          \/ scan.verdict = "open" /\ FirstLook(case.document, scan)
          \/ scan.verdict \in {"keys", "parser"} /\ Unfit(case.document)
    /\ pc = "validate" =>
         /\ case.document.mapping /\ Composed(case.document)
         /\ \/ scan.verdict = "open" /\ SecondLook(case.document, scan)
            \/ scan.verdict = "cycle" /\ Cyclic(case.document)
    /\ Answered => Acceptable(case.document)
    /\ told \in Faults => Unfit(case.document)
    /\ told = "cycle" => Cyclic(case.document)
    /\ told = "structure" => ~case.document.mapping

Judged ==
    /\ how.use = "state" => JudgedState
    /\ how.use = "document" => JudgedDocument

\* What a case is, as far as its document is concerned.
LEMMA DocumentIs ==
    ASSUME case \in Cases
    PROVE  /\ IsDocument(case.document)
           /\ case.document.json \/ how.use = "state" => IsTree(case.document)
           /\ Writes => how.use \notin {"state", "document"}
  <1>1. DownloadTarget.use = "download" /\ PersistCache.use = "persist"
    BY DEF DownloadTarget, PersistCache, PosixOpenRegular
  <1> QED
    BY <1>1, CasesAssumption DEF how, Writes, Writers

LEMMA JudgedInit == Init => Judged
  <1> SUFFICES ASSUME Init PROVE Judged
    OBVIOUS
  <1>1. case \in Cases /\ scan = ComposeAll /\ told = None
        /\ (Writes => pc = "look") /\ (~Writes => pc \in {"note", "open"})
    BY DEF Init
  <1>2. Writes => how.use \notin {"state", "document"}
    BY <1>1, DocumentIs
  <1>3. ~Answered /\ told \notin Faults
    BY <1>1, <1>2 DEF Answered, Faults, None
  <1>4. ~Writes => JudgedState /\ JudgedDocument
    BY <1>1, <1>3 DEF JudgedState, JudgedDocument, Unread, Faults
  <1> QED
    BY <1>1, <1>2, <1>4 DEF Judged

\* A step that leaves the call where it is, or leaves it with a failure that is
\* none of the document, or lets go of what is still open.
LEMMA JudgedStays ==
    ASSUME Judged, UNCHANGED <<case, scan>>,
           \/ pc' = pc /\ told' = told
           \/ told' \notin Faults \cup {None} /\ pc' \in {"release", "tidied", "done"}
           \/ told' = told /\ {pc, pc'} \subseteq {"release", "tidied", "done"}
    PROVE  Judged'
  <1>1. UNCHANGED how
    BY DEF how
  <1>2. CASE pc' = pc /\ told' = told
    BY <1>1, <1>2 DEF Judged, JudgedState, JudgedDocument, Answered
  <1>3. CASE told' \notin Faults \cup {None} /\ pc' \in {"release", "tidied", "done"}
    BY <1>1, <1>3 DEF Judged, JudgedState, JudgedDocument, Answered, Unread, Faults
  <1>4. CASE told' = told /\ {pc, pc'} \subseteq {"release", "tidied", "done"}
    BY <1>1, <1>4 DEF Judged, JudgedState, JudgedDocument, Answered, Unread, Faults
  <1> QED
    BY <1>2, <1>3, <1>4

\* Until the content is there.
LEMMA JudgedOn ==
    ASSUME Judged, how.use \in {"state", "document"}, case \in Cases, told = None,
           UNCHANGED <<case, scan, told>>,
           pc \in Unread, pc' \in Unread \cup {"compose"}, pc' = "shut" => how.use = "state"
    PROVE  Judged'
  <1>1. UNCHANGED how /\ scan = ComposeAll /\ ComposeAll.verdict = "open"
    BY DEF how, Judged, JudgedState, JudgedDocument, ComposeAll
  <1>2. IsDocument(case.document)
    BY DocumentIs
  <1>3. FirstLook(case.document, ComposeAll) /\ \E V : StateLook(case.document, ComposeAll, V)
    BY <1>2, FirstLookInit, StateLookInit
  <1>4. ~Answered' /\ told' \notin Faults
    BY DEF Answered, Unread, Faults, None
  <1>5. JudgedState'
    BY <1>1, <1>3, <1>4 DEF JudgedState, Unread, Faults
  <1>6. how.use = "document" => JudgedDocument'
    BY <1>1, <1>3, <1>4 DEF JudgedDocument, Unread, Faults
  <1> QED
    BY <1>1, <1>5, <1>6 DEF Judged

\* An entry of a checkpoint, and then its end.
LEMMA JudgedComposeState ==
    ASSUME Judged, Telling, Compose, how.use = "state"
    PROVE  JudgedState'
  <1> DEFINE d == case.document
  <1> USE DEF Goes, Fails
  <1>1. /\ pc = "compose" /\ UNCHANGED case /\ case \in Cases /\ told = None /\ JudgedState
        /\ UNCHANGED how
    BY DEF Compose, Telling, ReaderSteps, Judged, how
  <1>2. IsDocument(d) /\ IsTree(d)
    BY <1>1, DocumentIs
  <1>3. CASE scan.verdict # "open"
    <2>1. /\ pc' = "release" /\ told' = scan.verdict /\ told' # None
          /\ scan.verdict \in {"keys", "structure"} /\ ~AcceptableState(d)
      BY <1>1, <1>3 DEF Compose, JudgedState, None
    <2> QED
      BY <1>1, <2>1 DEF JudgedState, Answered, Unread, None
  <1>4. CASE scan.verdict = "open" /\ scan.todo # <<>>
    <2>1. scan' = StateNext(d, scan) /\ pc' = "compose" /\ told' = None
      BY <1>1, <1>4 DEF Compose, NextOfDocument, failing
    <2>2. PICK V : StateLook(d, scan, V)
      BY <1>1, <1>4 DEF JudgedState
    <2>3. \/ scan'.verdict = "open" /\ \E W : StateLook(d, scan', W)
          \/ scan'.verdict \in {"keys", "structure"} /\ ~AcceptableState(d)
      BY <1>2, <1>4, <2>1, <2>2, StateLookNext
    <2> QED
      BY <1>1, <2>1, <2>3 DEF JudgedState, Answered, Unread, None
  <1>5. CASE scan.verdict = "open" /\ scan.todo = <<>>
    <2>1. PICK V : StateLook(d, scan, V)
      BY <1>1, <1>5 DEF JudgedState
    <2>2. d.mapping => AcceptableState(d)
      BY <1>2, <1>5, <2>1, StateLookEnds
    <2>3. CASE ~d.mapping
      <3>1. pc' = "release" /\ told' = "structure" /\ ~AcceptableState(d)
        BY <1>1, <1>5, <2>3 DEF Compose, AcceptableState
      <3> QED
        BY <1>1, <3>1 DEF JudgedState, Answered, Unread, None
    <2>4. CASE d.mapping
      <3>1. pc' = "schema" /\ told' = None /\ AcceptableState(d)
        BY <1>1, <1>5, <2>2, <2>4 DEF Compose, failing
      <3> QED
        BY <1>1, <3>1 DEF JudgedState, Answered, Unread, None
    <2> QED
      BY <2>3, <2>4
  <1> QED
    BY <1>3, <1>4, <1>5

\* An entry of a document, and then its end.
LEMMA JudgedComposeDocument ==
    ASSUME Judged, Telling, Compose, how.use = "document"
    PROVE  JudgedDocument'
  <1> DEFINE d == case.document
  <1> USE DEF Goes, Fails
  <1>1. /\ pc = "compose" /\ UNCHANGED case /\ case \in Cases /\ told = None /\ JudgedDocument
        /\ UNCHANGED how
    BY DEF Compose, Telling, ReaderSteps, Judged, how
  <1>2. IsDocument(d) /\ (d.json => IsTree(d))
    BY <1>1, DocumentIs
  <1>3. CASE scan.verdict # "open"
    <2>1. /\ pc' = "release" /\ told' = scan.verdict
          /\ scan.verdict \in {"keys", "parser"} /\ Unfit(d)
      BY <1>1, <1>3 DEF Compose, JudgedDocument
    <2> QED
      BY <1>1, <2>1 DEF JudgedDocument, Answered, Unread, None, Faults
  <1>4. CASE scan.verdict = "open" /\ scan.todo # <<>>
    <2>1. /\ scan' = ComposeNext(d, scan) \/ (IsTree(d) /\ scan' = JsonNext(d, scan))
          /\ pc' = "compose" /\ told' = None
      BY <1>1, <1>2, <1>4 DEF Compose, NextOfDocument, failing
    <2>2. FirstLook(d, scan)
      BY <1>1, <1>4 DEF JudgedDocument
    <2>3. \/ FirstLook(d, scan') /\ scan'.verdict = "open"
          \/ scan'.verdict \in {"keys", "parser"} /\ Unfit(d)
      BY <1>2, <1>4, <2>1, <2>2, FirstLookNext
    <2> QED
      BY <1>1, <2>1, <2>3 DEF JudgedDocument, Answered, Unread, None, Faults
  <1>5. CASE scan.verdict = "open" /\ scan.todo = <<>>
    <2>1. Composed(d)
      BY <1>1, <1>2, <1>5, FirstLookEnds DEF JudgedDocument
    <2>2. CASE ~d.mapping
      <3>1. pc' = "release" /\ told' = "structure" /\ Unfit(d)
        BY <1>1, <1>5, <2>2 DEF Compose, Unfit, Acceptable
      <3> QED
        BY <1>1, <2>2, <3>1 DEF JudgedDocument, Answered, Unread, None, Faults
    <2>3. CASE d.mapping
      <3>1. pc' = "validate" /\ told' = None /\ scan' = ValidateAll
        BY <1>1, <1>5, <2>3 DEF Compose, failing
      <3>2. SecondLook(d, scan') /\ scan'.verdict = "open"
        BY <1>2, <2>1, <3>1, SecondLookInit DEF ValidateAll
      <3> QED
        BY <1>1, <2>1, <2>3, <3>1, <3>2 DEF JudgedDocument, Answered, Unread, None, Faults
    <2> QED
      BY <2>2, <2>3
  <1> QED
    BY <1>3, <1>4, <1>5

\* The second look at a document.
LEMMA JudgedValidate ==
    ASSUME Judged, Telling, Validate, how.use = "document"
    PROVE  JudgedDocument'
  <1> DEFINE d == case.document
  <1> USE DEF Goes, Fails
  <1>1. /\ pc = "validate" /\ UNCHANGED case /\ case \in Cases /\ told = None /\ JudgedDocument
        /\ UNCHANGED how
    BY DEF Validate, Telling, ReaderSteps, Judged, how
  <1>2. IsDocument(d) /\ Composed(d) /\ d.mapping
    BY <1>1, DocumentIs DEF JudgedDocument
  <1>3. CASE scan.verdict # "open"
    <2>1. pc' = "release" /\ told' = "cycle" /\ Cyclic(d) /\ Unfit(d)
      BY <1>1, <1>3 DEF Validate, JudgedDocument, Unfit, Acceptable
    <2> QED
      BY <1>1, <2>1 DEF JudgedDocument, Answered, Unread, None, Faults
  <1>4. CASE scan.verdict = "open" /\ scan.todo # <<>>
    <2>1. scan' = ValidateNext(d, scan) /\ pc' = "validate" /\ told' = None
      BY <1>1, <1>4 DEF Validate, failing
    <2>2. SecondLook(d, scan)
      BY <1>1, <1>4 DEF JudgedDocument
    <2>3. \/ SecondLook(d, scan') /\ scan'.verdict = "open"
          \/ scan'.verdict = "cycle" /\ Cyclic(d)
      BY <1>2, <1>4, <2>1, <2>2, SecondLookNext
    <2> QED
      BY <1>1, <1>2, <2>1, <2>3 DEF JudgedDocument, Answered, Unread, None, Faults
  <1>5. CASE scan.verdict = "open" /\ scan.todo = <<>>
    <2>1. pc' = "release" /\ told' = None
      BY <1>1, <1>5 DEF Validate, failing
    <2>2. ~Cyclic(d)
      BY <1>1, <1>2, <1>5, SecondLookEnds DEF JudgedDocument
    <2>3. Acceptable(d)
      BY <1>2, <2>2 DEF Acceptable, Composed
    <2> QED
      BY <1>1, <2>1, <2>3 DEF JudgedDocument, Answered, Unread, None, Faults
  <1> QED
    BY <1>3, <1>4, <1>5

\* Until the content is there: the call goes on, or fails.
LEMMA JudgedReading ==
    ASSUME Telling, Judged, how.use \in {"state", "document"},
           Note \/ Open \/ Inspect \/ Shed \/ Stat \/ Verify \/ Part \/ EndOfFile \/ Shut
    PROVE  Judged'
  <1> USE DEF Goes, Fails
  <1>1. /\ pc \in Unread /\ UNCHANGED <<case, scan>> /\ case \in Cases
        /\ told = None
    BY DEF Note, Open, Inspect, Shed, Stat, Verify, Part, EndOfFile, Shut, Telling, ReaderSteps,
           Unread
  <1>2. \/ told' \notin Faults \cup {None} /\ pc' = "release"
        \/ told' = told /\ pc' \in Unread \cup {"compose"} /\ (pc' = "shut" => pc = "shut" \/ how.use = "state")
    <2>1. {"missing", "unsafe", "io", "bytes", "changed", "invalid"} \cap (Faults \cup {None}) = {}
      BY DEF Faults, None
    <2>2. CASE Note
      BY <1>1, <2>1, <2>2 DEF Note, failing, Unread
    <2>3. CASE Open
      <3>1. Refuses(at) \in {"missing", "unsafe", None}
        BY DEF Refuses
      <3> QED
        BY <1>1, <2>1, <2>3, <3>1 DEF Open, After, failing, Unread
    <2>4. CASE Inspect
      BY <1>1, <2>1, <2>4 DEF Inspect, After, failing, Unread
    <2>5. CASE Shed
      BY <1>1, <2>1, <2>5 DEF Shed, failing, Unread
    <2>6. CASE Stat
      BY <1>1, <2>1, <2>6 DEF Stat, failing, Unread
    <2>7. CASE Verify
      BY <1>1, <2>1, <2>7 DEF Verify, failing, Unread
    <2>8. CASE Part
      BY <1>1, <2>1, <2>8 DEF Part, failing, Unread
    <2>9. CASE EndOfFile
      BY <1>1, <2>1, <2>9 DEF EndOfFile, failing, Unread
    <2>10. CASE Shut
      BY <1>1, <2>1, <2>10 DEF Shut, failing, Unread
    <2> QED
      BY <2>2, <2>3, <2>4, <2>5, <2>6, <2>7, <2>8, <2>9, <2>10
  <1>3. pc = "shut" => how.use = "state"
    BY DEF Judged, JudgedDocument, Unread
  <1> QED
    BY <1>1, <1>2, <1>3, JudgedStays, JudgedOn

LEMMA JudgedNext == Held /\ Telling /\ Judged /\ [Next]_vars => Judged'
  <1> SUFFICES ASSUME Held, Telling, Judged, [Next]_vars PROVE Judged'
    OBVIOUS
  <1> USE DEF Goes, Fails
  <1>1. /\ case \in Cases /\ UNCHANGED <<case, how>>
        /\ (pc \in WriterSteps => Writes) /\ (~Writes => ~left)
    BY DEF Held, Telling, Next, vars, how, place, Note, Open, Inspect, Shed, CallFails, Interrupt,
           Stat, Verify, Part, EndOfFile, Shut, Compose, Validate, ValidateState, Probe, SendPart,
           Sent, VerifyDeploy, Look, Create, Fill, Seal, Publish, Settle, Release, Tidy, Conclude,
           Kill, Replace, Edit, Changes
  <1>2. Writes => how.use \notin {"state", "document"}
    BY <1>1, DocumentIs
  <1>3. CASE how.use \notin {"state", "document"}
    BY <1>1, <1>3 DEF Judged
  <1>4. ASSUME how.use \in {"state", "document"} PROVE Judged'
    <2>1. ~Writes /\ ~left /\ pc \notin WriterSteps /\ pc \notin {"probe", "send", "verdict"}
      BY <1>1, <1>2, <1>4 DEF Judged, JudgedState, JudgedDocument, Unread
    <2>2. CASE Note \/ Open \/ Inspect \/ Shed \/ Stat \/ Verify \/ Part \/ EndOfFile \/ Shut
      BY <1>4, <2>2, JudgedReading
    <2>3. CASE CallFails \/ Interrupt
      <3>1. UNCHANGED <<case, scan, pc, told>>
            \/ (UNCHANGED <<case, scan>> /\ told' = "io" /\ pc' = "release")
        BY <2>3 DEF CallFails, Interrupt, failing
      <3> QED
        BY <3>1, JudgedStays DEF Faults, None
    <2>4. CASE Compose
      BY <1>1, <1>4, <2>4, JudgedComposeState, JudgedComposeDocument DEF Judged
    <2>5. CASE Validate
      <3>1. how.use = "document"
        BY <1>4, <2>5 DEF Validate, Judged, JudgedState, Unread
      <3> QED
        BY <1>1, <2>5, <3>1, JudgedValidate DEF Judged
    <2>6. CASE ValidateState
      <3>1. /\ pc = "schema" /\ how.use = "state" /\ JudgedState /\ told = None
            /\ UNCHANGED <<case, scan>>
        BY <1>4, <2>6 DEF ValidateState, Judged, JudgedDocument, Unread, Telling, ReaderSteps
      <3>2. CASE Fails("invalid")
        BY <3>1, <3>2, JudgedStays DEF Faults, None
      <3>3. CASE Goes("release")
        BY <1>1, <3>1, <3>3 DEF Judged, JudgedState, Answered, failing, Unread, None
      <3> QED
        BY <2>6, <3>2, <3>3 DEF ValidateState
    <2>7. CASE Release
      <3>1. pc = "release" /\ pc' = "release" /\ UNCHANGED <<case, scan>> /\ told' \in {told, "io"}
        BY <2>7 DEF Release, Told, failing
      <3> QED
        BY <3>1, JudgedStays DEF Faults, None
    <2>8. CASE Conclude
      <3>1. /\ {pc, pc'} \subseteq {"release", "tidied", "done"}
            /\ UNCHANGED <<case, scan, told>>
        BY <2>8 DEF Conclude, failing
      <3> QED
        BY <3>1, JudgedStays
    <2>9. CASE Replace \/ Edit \/ UNCHANGED vars
      <3>1. UNCHANGED <<case, scan, pc, told>>
        BY <2>9 DEF Replace, Edit, Changes, vars, failing
      <3> QED
        BY <3>1, JudgedStays
    <2>10. CASE Probe \/ SendPart \/ Sent \/ VerifyDeploy
      BY <2>1, <2>10 DEF Probe, SendPart, Sent, VerifyDeploy
    <2>11. CASE Look \/ Create \/ Fill \/ Seal \/ Publish \/ Settle \/ Tidy \/ Kill
      BY <2>1, <2>11 DEF Look, Create, Fill, Seal, Publish, Settle, Tidy, Kill, WriterSteps
    <2> QED
      BY <2>2, <2>3, <2>4, <2>5, <2>6, <2>7, <2>8, <2>9, <2>10, <2>11 DEF Next
  <1> QED
    BY <1>3, <1>4

\* At every step, the verdict is that of what has been looked at.
THEOREM JudgedAlways == Spec => []Judged
  <1>1. Held /\ Telling /\ Judged /\ [Next]_vars => Judged'
    BY JudgedNext
  <1> QED
    BY <1>1, JudgedInit, HeldAlways, TellingAlways, PTL DEF Spec

(***************************************************************************)
(* The readers accept only documents that are mappings without a cycle or  *)
(* a flaw and within the limits; what they refuse for what it is has a     *)
(* fault of that kind, or is too deep on some way.  A checkpoint that is   *)
(* accepted has none, one that is refused for a flaw or a limit has one.   *)
(***************************************************************************)
THEOREM DocumentsAreJudgedAlways == Spec => []DocumentsAreJudged
  <1>1. Telling /\ Judged => DocumentsAreJudged
    <2> SUFFICES ASSUME Telling, Judged, pc = "done" PROVE DocumentsAreJudged
      BY DEF DocumentsAreJudged
    <2>1. outcome = Conclusion /\ told \in Codes \cup {None}
      BY DEF Telling
    <2>2. /\ outcome = "given" => Answered
          /\ outcome \in Faults => told = outcome
      BY <2>1 DEF Conclusion, Answered, Faults, Codes, None
    <2>3. how.use = "state" => StatesAreJudged
      BY <2>2 DEF Judged, JudgedState, StatesAreJudged, Faults
    <2>4. Careful =>
            /\ outcome = "given" => Acceptable(case.document)
            /\ outcome \in Faults => Unfit(case.document)
            /\ outcome = "cycle" => Cyclic(case.document)
            /\ outcome = "structure" => ~case.document.mapping
      BY <2>2 DEF Judged, JudgedDocument, Careful, Faults
    <2> QED
      BY <2>3, <2>4 DEF DocumentsAreJudged, Unfit, Faults
  <1> QED
    BY <1>1, JudgedAlways, TellingAlways, PTL

=============================================================================
