---------------------------- MODULE MCCheckpoint ----------------------------
(***************************************************************************)
(* Two processes at one checkpoint, with a program that meddles with it.   *)
(***************************************************************************)
EXTENDS Checkpoint, TLC

\* Processes, files, names, seconds and journeys are interchangeable.
Interchangeable ==
    Permutations(Process) \cup Permutations(Inode) \cup Permutations(Recovery)
        \cup Permutations(Valid)
=============================================================================
