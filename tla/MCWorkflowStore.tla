-------------------------- MODULE MCWorkflowStore --------------------------
(***************************************************************************)
(* One start, two next and other commands on one run directory.            *)
(***************************************************************************)
EXTENDS WorkflowStore, TLC

MCStarts == {"start"}
MCNexts == {"next1", "next2"}
MCCommand == MCStarts \cup MCNexts \cup {"record"}

\* Inodes are interchangeable.
Inodes == Permutations(Inode)
=============================================================================
