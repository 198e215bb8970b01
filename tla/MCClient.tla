------------------------------ MODULE MCClient ------------------------------
(***************************************************************************)
(* Small instances of Client for TLC.                                      *)
(***************************************************************************)
EXTENDS Client, TLC

CONSTANTS a1, a2, c1, s1

OneApp == {a1}
TwoApps == {a1, a2}
CeremonyAndSigner == {c1, s1}
OneCeremony == {c1}
AllReleases == Releases
SecondRelease == {2}
=============================================================================
