---------------------------- MODULE MCRepository ----------------------------
(***************************************************************************)
(* Small instances of Repository for TLC.                                  *)
(***************************************************************************)
EXTENDS Repository, TLC

CONSTANTS a1, a2, c1, s1

OneApp == {a1}
TwoApps == {a1, a2}
CeremonyAndSigner == {c1, s1}
OneCeremony == {c1}
=============================================================================
