------------------------------ MODULE MCAdmin ------------------------------
(***************************************************************************)
(* A small instance of Admin for TLC: a login and two requests that follow *)
(* it.                                                                     *)
(***************************************************************************)
EXTENDS Admin, TLC

CONSTANTS admin, other, q1, q2, q3, c1, s1

TwoUsers == {admin, other}
ThreeRequests == {q1, q2, q3}
OneCommand == {c1}
OneSource == {s1}
TwoChannels == {"stable", "beta"}
ThreeSlugs == {"stable", "beta", "nightly"}
OneAsset == {"app.zip"}
Symmetric == Permutations(ThreeRequests)
=============================================================================
