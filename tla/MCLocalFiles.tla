---------------------------- MODULE MCLocalFiles ----------------------------
(***************************************************************************)
(* The calls for TLC: every reader in every surrounding with a small       *)
(* document, every document of three nodes and trees of four in a quiet    *)
(* surrounding, and both writers.                                          *)
(***************************************************************************)
EXTENDS LocalFiles, TLC

CONSTANTS n1, n2, n3, n4, f1, f2, new

Fewer(nodes, k) == UNION {[1 .. i -> nodes] : i \in 0 .. k}

Document(a, b, c, flawed, mapping) ==
    [kids |-> (n1 :> a @@ n2 :> b @@ n3 :> c @@ n4 :> <<>>), flawed |-> flawed, mapping |-> mapping,
     json |-> FALSE]

Json(d) == [d EXCEPT !.json = TRUE]

Scalar == Document(<<>>, <<>>, <<>>, {}, TRUE)

Case(h, optional, parent, nm, sz, document, n) ==
    [how |-> h, optional |-> optional, parent |-> parent, name |-> nm, size |-> sz,
     document |-> document, changes |-> n]

Some == {n1, n2, n3}

Yaml ==
    {Document(a, b, c, x, TRUE) :
        a \in Fewer(Some, 3), b \in Fewer(Some, 2), c \in Fewer(Some, 1),
        x \in {{}, {n1}, {n2}}}
Plain ==
    {Document(a, b, c, x, TRUE) :
        a \in Fewer({n2, n3}, 2), b \in Fewer({n3, n4}, 2), c \in Fewer({n4}, 1),
        x \in {{}, {n1}, {n2}, {n4}}}
Trees ==
    {Json(d) : d \in {y \in Plain : IsTree(y)}}
    \cup {Json(Document(<<>>, <<>>, <<>>, {}, FALSE))}

\* Artifactory resolves links first, and the cache that is not there is none.
Reading ==
    {Case(h, o, p, nm, sz, Scalar, MaxChanges) :
        h \in Readers, o \in BOOLEAN, p \in {"dir", "link", "other", None},
        nm \in {None, "link", "other", f1}, sz \in {1, 3}}

MCCases ==
    {c \in Reading :
        /\ c.parent # "dir" => c.name = IF c.how.creates /\ c.parent = None THEN None ELSE f1
        /\ c.name # f1 => c.size = 1
        /\ c.how = ArmOpenSource => "link" \notin {c.parent, c.name}
        /\ c.optional = (c.how \in {PosixOpenRegular, ReadCache, LoadCurrent})}
    \cup {Case(PosixOpenRegular, FALSE, "dir", f1, 1, d, 0) : d \in Yaml \cup Trees}
    \cup {Case(LoadCurrent, TRUE, "dir", f1, 1, d, 0) : d \in Trees}
    \cup {Case(w, FALSE, "dir", nm, 1, Scalar, MaxChanges) :
             w \in Writers, nm \in {None, "link", "other", f1}}
=============================================================================
