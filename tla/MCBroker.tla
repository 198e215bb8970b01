------------------------------ MODULE MCBroker ------------------------------
(***************************************************************************)
(* Small instances of Broker for TLC.                                      *)
(***************************************************************************)
EXTENDS Broker, TLC

TwoReleases == {1, 2}
SecondRelease == {2}
None == {}
Lifetimes == [timestamp |-> 1, snapshot |-> 2, targets |-> 3, app |-> 3]
=============================================================================
