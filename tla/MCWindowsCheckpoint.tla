------------------------- MODULE MCWindowsCheckpoint -------------------------
(***************************************************************************)
(* Two processes at one checkpoint, beside another program.                *)
(***************************************************************************)
EXTENDS WindowsCheckpoint, TLC

\* Processes, files and journeys are interchangeable.
Interchangeable ==
    Permutations(Process) \cup Permutations(Inode) \cup Permutations(Valid)
=============================================================================
