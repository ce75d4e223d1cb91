--------------------------- MODULE BoundedDocument ---------------------------
(***************************************************************************)
(* What the bounded readers accept for a document, and what the checkpoint *)
(* of the onboarding accepts for its state.  A document is a graph:        *)
(* its nodes have their children in order, and a node that occurs again is *)
(* written as an alias (YAML; a JSON document is a tree).  It is looked at *)
(* twice, both times with a stack: while it is composed, entry by entry,   *)
(* and once more when it is there.  The text itself, and which scalar is   *)
(* which, are left out.                                                    *)
(***************************************************************************)
EXTENDS Naturals, Sequences, FiniteSets, Functions

CONSTANTS
    Node, Root,      \* the nodes a document may have
    MaxDepth,        \* max_depth
    MaxEntries,      \* max_graph_entries
    MaxAliases,      \* max_aliases
    MaxContainer     \* entries of one list or object of a checkpoint

ASSUME DocumentAssumption ==
    /\ Root \in Node /\ IsFiniteSet(Node)
    /\ MaxDepth \in Nat /\ MaxEntries \in Nat \ {0}
    /\ MaxAliases \in Nat /\ MaxContainer \in Nat

\* kids: the children; flawed: nodes that end with a key that is merged, no
\* string, or there twice; mapping: whether the document is a mapping.
IsDocument(d) ==
    /\ d.kids \in [Node -> Seq(Node)] /\ d.flawed \subseteq Node
    /\ {d.mapping, d.json} \subseteq BOOLEAN

At(node, depth) == [node |-> node, depth |-> depth, leaving |-> FALSE]
Kids(d, x) == [i \in DOMAIN d.kids[x.node] |-> At(d.kids[x.node][i], x.depth + 1)]

-----------------------------------------------------------------------------
(* Composing: todo is what has yet to be composed, "verdict" is "open"     *)
(* until it is known.                                                      *)

ComposeAll ==
    [todo |-> <<At(Root, 0)>>, known |-> {}, active |-> {}, entries |-> 0, aliases |-> 0,
     verdict |-> "open"]

Refused(scan, code) == [scan EXCEPT !.verdict = code]

\* Every entry counts, aliases too.
Exceeds(scan, x) == x.depth > MaxDepth \/ scan.entries + 1 > MaxEntries

\* A key is refused when it is met, after the entries before it.
BadKey(d, x) == IF x.node \in d.flawed THEN <<[x EXCEPT !.leaving = TRUE]>> ELSE <<>>

Enters(d, scan, x) ==
    [scan EXCEPT !.entries = @ + 1, !.known = @ \cup {x.node},
                 !.todo = Kids(d, x) \o BadKey(d, x) \o Tail(@)]

\* YAML: a node that occurs again is an alias, and is not entered again.
ComposeNext(d, scan) ==
    LET x == Head(scan.todo)
        alias == x.node \in scan.known
    IN CASE x.leaving -> Refused(scan, "keys")
         [] ~x.leaving /\ Exceeds(scan, x) -> Refused(scan, "parser")
         [] ~x.leaving /\ ~Exceeds(scan, x) /\ alias ->
               IF scan.aliases = MaxAliases THEN Refused(scan, "parser")
               ELSE [scan EXCEPT !.entries = @ + 1, !.aliases = @ + 1, !.todo = Tail(@)]
         [] OTHER -> Enters(d, scan, x)

\* JSON: no aliases, and values that are met one inside the other.
JsonNext(d, scan) ==
    LET x == Head(scan.todo)
    IN IF x.leaving THEN Refused(scan, "keys")
       ELSE IF Exceeds(scan, x) THEN Refused(scan, "parser")
       ELSE Enters(d, scan, x)

-----------------------------------------------------------------------------
(* A checkpoint is read as JSON in one go and then walked: what was met    *)
(* last is looked at first, and a container is refused for its size and    *)
(* its keys before anything in it is.                                      *)

Stacked(d, x) ==
    LET n == Len(d.kids[x.node])
    IN [i \in 1 .. n |-> Kids(d, x)[n + 1 - i]]

StateNext(d, scan) ==
    LET x == Head(scan.todo)
    IN CASE Exceeds(scan, x) \/ Len(d.kids[x.node]) > MaxContainer -> Refused(scan, "structure")
         [] ~Exceeds(scan, x) /\ x.node \in d.flawed /\ Len(d.kids[x.node]) <= MaxContainer ->
               Refused(scan, "keys")
         [] OTHER -> [scan EXCEPT !.entries = @ + 1, !.todo = Stacked(d, x) \o Tail(@)]

-----------------------------------------------------------------------------
(* The second look, for cycles; known is what has been left again.         *)

ValidateAll ==
    [todo |-> <<At(Root, 0)>>, known |-> {}, active |-> {}, entries |-> 1, aliases |-> 0,
     verdict |-> "open"]

\* A slip: a node that has been seen is not looked at again, left or not.
SeenBefore(scan, x) == x.node \in scan.known \cup scan.active

Completed(scan, x) == x.node \in scan.known

ValidateNext(d, scan) ==
    LET x == Head(scan.todo)
        n == Len(d.kids[x.node])
        rest == [scan EXCEPT !.todo = Tail(@)]
    IN CASE x.leaving ->
               [rest EXCEPT !.active = @ \ {x.node}, !.known = @ \cup {x.node}]
         [] ~x.leaving /\ x.depth > MaxDepth -> Refused(scan, "structure")
         [] ~x.leaving /\ x.depth <= MaxDepth /\ Completed(scan, x) -> rest
         [] OTHER ->
               IF x.node \in scan.active THEN Refused(scan, "cycle")
               ELSE IF (n > 0 /\ x.depth >= MaxDepth) \/ n > MaxEntries - scan.entries
               THEN Refused(scan, "structure")
               ELSE IF x.node \in d.flawed THEN Refused(scan, "keys")
               ELSE [rest EXCEPT !.entries = @ + n,
                                 !.active = @ \cup {x.node},
                                 !.todo = Kids(d, x) \o <<[x EXCEPT !.leaving = TRUE]>> \o @]

-----------------------------------------------------------------------------
(* What the two looks are to find out, without a stack.                    *)

Way(d) ==
    {w \in UNION {[1 .. k -> Node] : k \in 1 .. Cardinality(Node)} :
        /\ w[1] = Root /\ IsInjective(w)
        /\ \A i \in 1 .. Len(w) - 1 : w[i + 1] \in Range(d.kids[w[i]])}

Reached(d) == {w[Len(w)] : w \in Way(d)}

Cyclic(d) == \E w \in Way(d) : Range(w) \cap Range(d.kids[w[Len(w)]]) # {}

\* Where something is written: at the top, or as the i-th child of a node.
Places(d, nodes) == {<<Root, 0>>} \cup UNION {{n} \X DOMAIN d.kids[n] : n \in nodes}
NodeAt(d, p) == IF p[2] = 0 THEN Root ELSE d.kids[p[1]][p[2]]

Occurrences(d) == Cardinality(Places(d, Reached(d)))

\* What JSON can write: no node occurs twice.
IsTree(d) == \A p, q \in Places(d, Reached(d)) : NodeAt(d, p) = NodeAt(d, q) => p = q

\* Deeper than allowed, however it is reached.
TooDeep(d) == \E n \in Reached(d) : \A w \in Way(d) : w[Len(w)] = n => Len(w) - 1 > MaxDepth

\* Deeper than allowed on some way, which is what an alias may hide.
DeepSomewhere(d) ==
    \E w \in Way(d) : IF d.kids[w[Len(w)]] = <<>> THEN Len(w) - 1 > MaxDepth
                                                ELSE Len(w) > MaxDepth

Acceptable(d) ==
    /\ d.mapping /\ ~Cyclic(d) /\ d.flawed \cap Reached(d) = {}
    /\ Occurrences(d) <= MaxEntries /\ ~TooDeep(d)
    /\ Occurrences(d) - Cardinality(Reached(d)) <= MaxAliases

AcceptableState(d) ==
    /\ d.mapping /\ d.flawed \cap Reached(d) = {}
    /\ Cardinality(Reached(d)) <= MaxEntries /\ ~TooDeep(d)
    /\ \A n \in Reached(d) : Len(d.kids[n]) <= MaxContainer
=============================================================================
