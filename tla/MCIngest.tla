------------------------------ MODULE MCIngest ------------------------------
(***************************************************************************)
(* A small instance of Ingest for TLC.                                     *)
(***************************************************************************)
EXTENDS Ingest, TLC

CONSTANTS b1, b2, b3, web, cdn, stray

(* A build of ours, one of the next owner of the name, and one of ours with an archive
   that would unpack outside its directory. *)
ThreeBlobs == {b1, b2, b3}
Sizes == [b \in ThreeBlobs |-> 1]
Archives == (b1 :> "safe") @@ (b2 :> "safe") @@ (b3 :> "unsafe")

TwoRepositories == {"first", "second"}
FromTag == <<[project |-> "other", ref |-> "branch"], [project |-> "ours", ref |-> "tag"]>>
Good(b) == [keyid |-> "pinned", key |-> "pinned",
            certificate |-> [repository |-> "first", runner |-> "hosted"],
            builder |-> "pinned", subjects |-> b, resolved |-> FromTag]
(* By the next owner of the name, who has his own key. *)
Usurped(b) == [Good(b) EXCEPT !.key = "other", !.certificate.repository = "second"]
FewDocuments == {Good({b1, b3}), Usurped({b2})}
Built == [blob : {b1, b3}, by : {"key", "first"}] \cup {[blob |-> b2, by |-> "second"]}

ThreeHosts == {web, cdn, stray}
TwoAllowed == {web, cdn}
TwoHops == <<web, cdn>>
AllGates == Gates
=============================================================================
