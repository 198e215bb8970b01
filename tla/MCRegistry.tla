----------------------------- MODULE MCRegistry -----------------------------
(***************************************************************************)
(* Small instances of Registry for TLC.                                    *)
(***************************************************************************)
EXTENDS Registry, TLC

CONSTANTS r1, a1, i1, i2, s1, q1, q2

(* One source. *)
OneRow == {r1}
OneApp == {a1}
OneAppOf == r1 :> a1
GitHub == r1 :> "github"
GitLab == r1 :> "gitlab"

OneIngester == {i1}
(* Not what is deployed: see CurrentNeverRegresses in README.md. *)
TwoIngesters == {i1, i2}
OneSigner == {s1}
OneRequest == {q1}
TwoRequests == {q1, q2}

(* Requests are alike before they are made: they begin in one order.  It leaves the
   fair steps alone, as nobody is bound to make a request. *)
RequestsInTurn ==
    \A q \in Requests : request[q].pc = "new" /\ request'[q].pc # "new" =>
        q = CHOOSE x \in Requests : request[x].pc = "new"

AllGood == Tags
=============================================================================
