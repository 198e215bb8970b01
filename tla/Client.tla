------------------------------- MODULE Client -------------------------------
(***************************************************************************)
(* An application that asks whether there is a newer version of it         *)
(* (dist_client.update.UpdateCheck.run), while the processes of Repository *)
(* publish.  A check is a chain of fetches, one action each, of which each *)
(* names the next; the answers are verified by dist_core's TufVerifier and *)
(* the tuf crate's Database, constructed anew for each check, so that none *)
(* of the comparisons with what was trusted before ever applies.           *)
(*                                                                         *)
(* How the data is abstracted:                                             *)
(*   - The edge serves the directory as it is at the moment of the fetch.  *)
(*   - A zero, or an empty sequence, is what Database has as None.         *)
(*   - Signatures are good, and nothing expires.                           *)
(*   - The pattern of a delegation covers the targets of its application   *)
(*     and no other, so that a target is named by its application.         *)
(*   - The pointer document names a release of its own channel; the body   *)
(*     and the entry in the listing are one thing (Repository, SetCurrent).*)
(***************************************************************************)
EXTENDS Repository

CONSTANT
    Reached     \* releases whose rollout reaches this install

ASSUME ClientAssumption == Reached \subseteq Releases

VARIABLES
    stage,      \* what the check fetches next
    channel,    \* the application that checks
    trusted,    \* the verifier's database
    outcome,    \* how the last check ended
    promised    \* history: what a client could see when the check began

clientVars == <<stage, channel, trusted, outcome, promised>>

Stage == {"idle", "snapshot", "targets", "role", "pointer"}
Database == [snapshotVersion: 0..MaxVersion, meta: [Named -> 0..MaxVersion],
             delegations: Seq(Apps), listing: Listing]
Bootstrapped == [snapshotVersion |-> 0, meta |-> [r \in Named |-> 0],
                 delegations |-> <<>>, listing |-> EmptyListing]
Outcome == [answer: {"none", "offered", "nothing", "failed"}, release: 0..MaxRelease]
Unanswered == [answer |-> "none", release |-> 0]

(* Between two checks nothing is trusted but the root. *)
ClientTypeOK ==
    /\ TypeOK
    /\ stage \in Stage
    /\ channel \in Apps \cup {"none"}
    /\ trusted \in Database
    /\ outcome \in Outcome
    /\ promised \in [served: BOOLEAN, entry: Listing]
    /\ stage = "idle" => trusted = Bootstrapped

ClientInit ==
    /\ Init
    /\ stage = "idle"
    /\ channel = "none"
    /\ trusted = Bootstrapped
    /\ outcome = Unanswered
    /\ promised = [served |-> FALSE, entry |-> EmptyListing]

-----------------------------------------------------------------------------
(* The verifier.  A file of version v of a role is accepted if the role above
   names v, and for app-<a> if the trusted targets delegate to it. *)

(* Mutant: the newest snapshot, as an unversioned alias would have it. *)
NewestSnapshot == Len(snapshotFile)

SnapshotVersion == trusted.snapshotVersion
TargetsVersion(r) == trusted.meta[r]

UpdateTimestamp == [Bootstrapped EXCEPT !.snapshotVersion = timestampFile.snapshot]
UpdateSnapshot(v) == [trusted EXCEPT !.meta = snapshotFile[v]]
UpdateTargets(v) == [trusted EXCEPT !.delegations = targetsFile[v]]
UpdateDelegatedTargets(v) == [trusted EXCEPT !.listing = appFile[channel][v]]
Authorized == channel \in Delegated(trusted.delegations)

-----------------------------------------------------------------------------
(* The fetches, in the order of run *)

(* Mutant: the verifier outlives the check. *)
AnswerKept(a, n) ==
    /\ outcome' = [answer |-> a, release |-> n]
    /\ stage' = "idle"
    /\ UNCHANGED <<trusted, channel, promised, vars>>

Answer(a, n) ==
    /\ outcome' = [answer |-> a, release |-> n]
    /\ stage' = "idle"
    /\ trusted' = Bootstrapped
    /\ UNCHANGED <<channel, promised, vars>>

(* A file that is there and accepted takes the check on; otherwise it raises. *)
Accept(found, next, database) ==
    IF found
    THEN /\ trusted' = database
         /\ stage' = next
         /\ UNCHANGED <<channel, outcome, promised, vars>>
    ELSE Answer("failed", 0)

FetchTimestamp(a) ==
    /\ stage = "idle"
    /\ channel' = a
    /\ promised' = [served |-> Served, entry |-> View(a)]
    /\ IF Served
       THEN /\ stage' = "snapshot"
            /\ trusted' = UpdateTimestamp
            /\ outcome' = Unanswered
       ELSE /\ UNCHANGED <<stage, trusted>>
            /\ outcome' = [answer |-> "failed", release |-> 0]
    /\ UNCHANGED vars

FetchSnapshot ==
    LET v == SnapshotVersion IN
    /\ stage = "snapshot"
    /\ Accept(v \in DOMAIN snapshotFile, "targets", UpdateSnapshot(v))

FetchTargets ==
    LET v == TargetsVersion("targets") IN
    /\ stage = "targets"
    /\ Accept(v \in DOMAIN targetsFile, "role", UpdateTargets(v))

(* The snapshot does not describe the application: nothing is published yet. *)
Undescribed ==
    /\ stage = "role"
    /\ TargetsVersion(channel) = 0
    /\ Answer("nothing", 0)

(* Mutant: a role that the snapshot does not describe is fetched all the same. *)
FetchRoleUndescribed ==
    LET v == TargetsVersion(channel) IN
    /\ stage = "role"
    /\ Accept(v \in DOMAIN appFile[channel] /\ Authorized, "pointer", UpdateDelegatedTargets(v))

FetchRole ==
    LET v == TargetsVersion(channel) IN
    /\ stage = "role"
    /\ v # 0
    /\ Accept(v \in DOMAIN appFile[channel] /\ Authorized, "pointer", UpdateDelegatedTargets(v))

-----------------------------------------------------------------------------
(* What the verifier resolves *)

(* The search ends, with nothing, at a delegation that does not cover the target
   or whose role is not trusted: it does not go on to the next one. *)
EndsSearch(delegation) == delegation # channel
Resolves ==
    \E i \in DOMAIN trusted.delegations :
        /\ trusted.delegations[i] = channel
        /\ \A j \in 1..(i - 1) : ~EndsSearch(trusted.delegations[j])

(* No pointer yet, or none that the verifier resolves. *)
NoPointer ==
    /\ stage = "pointer"
    /\ ~Resolves \/ trusted.listing.pointer = 0
    /\ Answer("nothing", 0)

(* The pointer's release, unless it is not listed, or not for this install. *)
Resolve ==
    LET n == trusted.listing.pointer IN
    /\ stage = "pointer"
    /\ Resolves
    /\ n # 0
    /\ IF n \notin trusted.listing.releases THEN Answer("failed", 0)
       ELSE IF n \in Reached THEN Answer("offered", n)
       ELSE Answer("nothing", 0)

Check ==
    \/ \E a \in Apps : FetchTimestamp(a)
    \/ FetchSnapshot \/ FetchTargets \/ Undescribed \/ FetchRole \/ NoPointer \/ Resolve

Publication == Next /\ UNCHANGED clientVars

ClientNext == Publication \/ Check

ClientSpec == ClientInit /\ [][ClientNext]_<<vars, clientVars>>

-----------------------------------------------------------------------------
(* Properties *)

(* A check that began when a timestamp was served ends with an answer, whatever
   is published, fails or crashes while it follows the chain (update.py:
   "following that chain ... stops a cache from serving one role from one publish
   and another from the next"). *)
ChecksComplete == outcome.answer = "failed" => ~promised.served

(* What a check offers can be downloaded and reaches this install; and it is the
   release that was current when the check fetched the timestamp, though it
   overlaps publications. *)
OffersOnePublication ==
    outcome.answer = "offered" =>
        /\ outcome.release \in Reached
        /\ <<channel, outcome.release>> \in payload
        /\ outcome.release = promised.entry.pointer

(* "None means nothing to offer: either the channel has no pointer yet, or the
   named release is outside this install's rollout slice" (update.py, run). *)
NothingToOffer ==
    outcome.answer = "nothing" => promised.entry.pointer \notin Reached
=============================================================================
