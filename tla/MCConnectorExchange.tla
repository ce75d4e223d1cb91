------------------------- MODULE MCConnectorExchange -------------------------
(***************************************************************************)
(* Settings and bodies for TLC.  A body of two parts is the longest that   *)
(* is accepted, and one part may be unpacked in two ways.                  *)
(***************************************************************************)
EXTENDS ConnectorExchange

Whole(kind, as, parts, twin) ==
    [kind |-> kind, as |-> as, parts |-> parts, whole |-> TRUE, twin |-> twin]

Plainly ==
    {Whole("json", "plain", 2, 1), Whole("json", "plain", 3, 1), Whole("other", "plain", 1, 1),
     Whole("empty", "plain", 0, 1), [Whole("json", "plain", 1, 1) EXCEPT !.whole = FALSE]}

MCBody ==
    Plainly \cup
    {Whole("json", "unknown", 1, 1), Whole("json", "zlib", 2, 1),
     Whole("json", "raw", 1, 2), Whole("json", "raw", 2, 3),
     [Whole("json", "raw", 1, 1) EXCEPT !.whole = FALSE]}

Setting(upto, service, version, transport, exists, serves, blocks, sends) ==
    [upto |-> upto, service |-> service, version |-> version, transport |-> transport,
     exists |-> exists, serves |-> serves, blocks |-> blocks, sends |-> sends]

\* Two calls of a Jira client, for every version; one call for every transport;
\* one call of the others, which keep nothing from one call to the next.  Only
\* the edge in front of Artifactory has a refusal of its own.
MCSettings ==
    {Setting(2, "jira", v, "native", e, k, FALSE, {Whole("json", "plain", 2, 1),
                                                   Whole("other", "plain", 1, 1)}) :
        v \in {"auto", "2", "3"}, e \in BOOLEAN, k \in {{"2"}, {"3"}, {"2", "3"}}}
    \cup {Setting(1, "jira", "auto", t, TRUE, {"2"}, b, MCBody) :
              t \in {"native", "auto", "curl"}, b \in BOOLEAN}
    \cup {Setting(1, s, "none", "native", e, {}, FALSE, Plainly) :
              s \in {"gitlab", "confluence", "arm"}, e \in BOOLEAN}
    \cup {Setting(1, "arm", "none", "native", TRUE, {}, TRUE, Plainly)}
=============================================================================
