--------------------------- MODULE MCRemoteListings ---------------------------
(***************************************************************************)
(* Small holdings for TLC: plain lists, of which only the first matters to *)
(* most operations, and three folders that may hold each other.            *)
(***************************************************************************)
EXTENDS RemoteListings

Plain(n) == [i \in 1 .. n |-> 0]

MCHoldings ==
    {<<Plain(n), <<>>, <<>>>> : n \in 0 .. 7}
    \cup {<<Plain(n), Plain(m), Plain(k)>> : n \in 0 .. 3, m \in 1 .. 2, k \in 0 .. 1}
    \cup {<<a, b, c>> : a \in {<<2>>, <<0, 2>>, <<2, 2>>, <<1, 2, 0>>, <<2, 0, 3>>},
                        b \in {<<>>, <<0>>, <<1, 0>>, <<3, 0>>, <<0, 0, 0>>},
                        c \in {<<>>, <<0>>, <<2>>}}
=============================================================================
