---------------------------- MODULE MCInstaller ----------------------------
(***************************************************************************)
(* Small instances of Installer for TLC.                                   *)
(***************************************************************************)
EXTENDS Installer, TLC

CONSTANTS v1, v2, v3

ThreeVersions == {v1, v2, v3}
SomeHealthy == {v1, v2}
Symmetric == Permutations(Healthy) \cup Permutations(Versions \ Healthy)

(* Where the search stops: a process that is about to write over a pointer it has not
   read.  The write would set lost, under which the properties say nothing; and until it
   writes, or is killed, it might as well not have begun. *)
NoStaleWriter ==
    \A p \in Process :
        pc[p] \in {"activate", "revert", "launch", "confirm"} => copy[p] = pointer
=============================================================================
