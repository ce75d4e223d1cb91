-------------------------- MODULE MCBoundedClient --------------------------
(***************************************************************************)
(* Two requests of one operation, each a read or a write, on one or two    *)
(* paths.                                                                  *)
(***************************************************************************)
EXTENDS BoundedClient

MCRequest == {"first", "second"}
MCPath == {"p", "q"}
=============================================================================
