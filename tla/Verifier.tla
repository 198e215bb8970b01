------------------------------ MODULE Verifier ------------------------------
(***************************************************************************)
(* A verifier that its host keeps from one check to the next: dist_core's  *)
(* TufVerifier over the Database of the tuf crate, behind the C ABI        *)
(* (DistVerifier) and its Python binding.  The ABI fixes no order of the   *)
(* calls and no source of the bytes, so the host makes any call with any   *)
(* file that was ever published, as caches of different ages serve them,   *)
(* while the repository publishes and time passes.                         *)
(*                                                                         *)
(* How the data is abstracted:                                             *)
(*   - Files are signed as they should be: a file that is not is refused   *)
(*     and changes nothing.                                                *)
(*   - There is one application, delegated to from the first, and its role *)
(*     lists the release that its channel's pointer names.                 *)
(*   - Version 0 is what the database has as None.                         *)
(***************************************************************************)
EXTENDS Integers, Sequences, SequencesExt

CONSTANTS
    Releases,       \* the releases that may be published
    Overlong,       \* those whose version string exceeds DIST_VERSION_CAPACITY
    Lifetime,       \* of a file of each role, from its signing
    RootExpires,    \* when the root expires that the application ships with
    MaxVersion,     \* bound: publications, the first one included
    MaxTime         \* bound: the clock

Roles == {"timestamp", "snapshot", "targets", "app"}

ASSUME VerifierAssumption ==
    /\ Releases \subseteq Nat \ {0}
    /\ Overlong \subseteq Releases
    /\ Lifetime \in [Roles -> Nat \ {0}]
    /\ RootExpires \in Nat
    /\ MaxVersion \in Nat \ {0}
    /\ MaxTime \in Nat

VARIABLES
    now,        \* the clock
    published,  \* every file published, by role and version
    handle,     \* whether the host holds a verifier
    db,         \* what it trusts of each role
    status,     \* of the last call
    highest     \* history: the newest version of each role trusted since New

vars == <<now, published, handle, db, status, highest>>

Time == 0..(MaxTime + 1)
Version == 0..MaxVersion

(* The contents of a file, by role.  snapshot: the version that a timestamp
   names; targets and app: the versions that a snapshot names. *)
Metadata ==
    [timestamp: [version: Nat, expires: Nat, snapshot: Nat],
     snapshot: [version: Nat, expires: Nat, targets: Nat, app: Nat],
     targets: [version: Nat, expires: Nat],
     app: [version: Nat, expires: Nat, release: {0} \cup Releases]]

Nothing ==
    [timestamp |-> [version |-> 0, expires |-> 0, snapshot |-> 0],
     snapshot |-> [version |-> 0, expires |-> 0, targets |-> 0, app |-> 0],
     targets |-> [version |-> 0, expires |-> 0],
     app |-> [version |-> 0, expires |-> 0, release |-> 0]]

(* Of DistStatus, what metadata and the order of calls decide.  A clock before 1970, a
   path that does not parse, a payload that differs and a panic, after which the handle
   is not used again, do not touch what is trusted. *)
Status == {"ok", "rejected", "unknown", "overflow", "malformed", "null"}

TypeOK ==
    /\ now \in Nat
    /\ published \in [timestamp: Seq([version: Nat, expires: Nat, snapshot: Nat]),
                      snapshot: Seq([version: Nat, expires: Nat, targets: Nat, app: Nat]),
                      targets: Seq([version: Nat, expires: Nat]),
                      app: Seq([version: Nat, expires: Nat, release: {0} \cup Releases])]
    /\ handle \in BOOLEAN
    /\ db \in Metadata
    /\ status \in Status
    /\ highest \in [Roles -> Nat]
    /\ ~handle => db = Nothing /\ highest = [role \in Roles |-> 0]

-----------------------------------------------------------------------------
(* The repository *)

Newest(role) == Last(published[role])
Until(role) == now + Lifetime[role]

(* The files that a publication adds above the role it is of. *)
Signed(targets, app) ==
    LET v == Len(published.snapshot) + 1 IN
    [snapshot |-> [version |-> v, expires |-> Until("snapshot"),
                   targets |-> targets, app |-> app],
     timestamp |-> [version |-> Len(published.timestamp) + 1,
                    expires |-> Until("timestamp"), snapshot |-> v]]

Init ==
    /\ now = 0
    /\ published =
         [timestamp |-> <<[version |-> 1, expires |-> Lifetime["timestamp"], snapshot |-> 1]>>,
          snapshot |-> <<[version |-> 1, expires |-> Lifetime["snapshot"],
                          targets |-> 1, app |-> 0]>>,
          targets |-> <<[version |-> 1, expires |-> Lifetime["targets"]]>>,
          app |-> <<>>]
    /\ handle = FALSE
    /\ db = Nothing
    /\ status = "null"
    /\ highest = [role \in Roles |-> 0]

(* A worker publishes a release, or sets the pointer back to an earlier one. *)
PublishRelease(n) ==
    LET v == Len(published.app) + 1
        above == Signed(Newest("snapshot").targets, v)
    IN
    /\ Len(published.timestamp) < MaxVersion
    /\ published' = [published EXCEPT
           !.app = Append(@, [version |-> v, expires |-> Until("app"), release |-> n]),
           !.snapshot = Append(@, above.snapshot),
           !.timestamp = Append(@, above.timestamp)]
    /\ UNCHANGED <<now, handle, db, status, highest>>

(* A ceremony adds another application: targets are signed again, and what publish signs
   above them.  The role of that application, and its entry in the snapshot, are not
   those that the verifiers here ask for. *)
SignTargets ==
    LET v == Len(published.targets) + 1
        above == Signed(v, Newest("snapshot").app)
    IN
    /\ Len(published.timestamp) < MaxVersion
    /\ published' = [published EXCEPT
           !.targets = Append(@, [version |-> v, expires |-> Until("targets")]),
           !.snapshot = Append(@, above.snapshot),
           !.timestamp = Append(@, above.timestamp)]
    /\ UNCHANGED <<now, handle, db, status, highest>>

Tick ==
    /\ now < MaxTime
    /\ now' = now + 1
    /\ UNCHANGED <<published, handle, db, status, highest>>

-----------------------------------------------------------------------------
(* The database.  Each update is what the call leaves behind, refused or not. *)

Expired(f) == f.expires <= now
Trusted(f) == f.version # 0 /\ ~Expired(f)
RootUnexpired == RootExpires > now

(* Mutant: the trusted version itself is taken for a rollback. *)
AdvancesStrictly(f, trusted) == f.version > trusted.version /\ ~Expired(f)

(* A file of the version that is trusted is accepted and not looked at. *)
Advances(f, trusted) ==
    \/ f.version = trusted.version
    \/ f.version > trusted.version /\ ~Expired(f)


AcceptsTimestamp(d, f) == Advances(f, d.timestamp)

(* Mutant: an older timestamp is accepted, and what it does not name forgotten. *)
UpdateTimestampAnyway(d, f) ==
    IF Expired(f) \/ f.version = d.timestamp.version THEN d
    ELSE [d EXCEPT !.timestamp = f, !.snapshot = Nothing.snapshot]

(* The snapshot is forgotten when a newer timestamp names another, and before
   that timestamp is found to have expired. *)
UpdateTimestamp(d, f) ==
    LET other == d.snapshot.version # f.snapshot
        forgetful == [d EXCEPT !.snapshot = IF other THEN Nothing.snapshot ELSE @]
    IN
    IF f.version <= d.timestamp.version THEN d
    ELSE IF Expired(f) THEN forgetful
    ELSE [forgetful EXCEPT !.timestamp = f]

AcceptsSnapshot(d, f) ==
    /\ RootUnexpired
    /\ Trusted(d.timestamp)
    /\ d.snapshot.version <= d.timestamp.snapshot
    /\ d.timestamp.snapshot \in {d.snapshot.version, f.version}

(* Mutant: targets that the new snapshot does not name stay trusted. *)
PurgeNothing(d, f) == d

(* What a new snapshot f does away with: targets of any other version, and the
   application's role if it is newer than f says. *)
Purge(d, f) ==
    [d EXCEPT !.targets = IF @.version = f.targets THEN @ ELSE Nothing.targets,
              !.app = IF f.app # 0 /\ @.version > f.app THEN Nothing.app ELSE @]

UpdateSnapshot(d, f) ==
    IF ~AcceptsSnapshot(d, f) \/ d.snapshot.version = d.timestamp.snapshot THEN d
    ELSE [Purge(d, f) EXCEPT !.snapshot = f]

AcceptsTargets(d, f) ==
    /\ RootUnexpired
    /\ Trusted(d.snapshot)
    /\ f.version = d.snapshot.targets
    /\ Advances(f, d.targets)

UpdateTargets(d, f) ==
    IF AcceptsTargets(d, f) /\ f.version # d.targets.version
    THEN [d EXCEPT !.targets = f] ELSE d

AcceptsDelegatedTargets(d, f) ==
    /\ RootUnexpired
    /\ Trusted(d.snapshot)
    /\ Trusted(d.targets)
    /\ f.version = d.snapshot.app
    /\ Advances(f, d.app)

UpdateDelegatedTargets(d, f) ==
    IF AcceptsDelegatedTargets(d, f) /\ f.version # d.app.version
    THEN [d EXCEPT !.app = f] ELSE d

(* The timestamp's expiry is not looked at again, nor whether the role is of the
   version that the snapshot names. *)
Resolves(d) ==
    /\ RootUnexpired
    /\ \A role \in {"snapshot", "targets", "app"} : Trusted(d[role])

TargetStatus(d) ==
    IF ~Resolves(d) THEN "unknown"
    ELSE IF d.app.release \in Overlong THEN "overflow" ELSE "ok"

-----------------------------------------------------------------------------
(* The calls *)

New ==
    /\ ~handle
    /\ handle' = TRUE
    /\ status' = "ok"
    /\ UNCHANGED <<now, published, db, highest>>

Free ==
    /\ handle
    /\ handle' = FALSE
    /\ db' = Nothing
    /\ highest' = [role \in Roles |-> 0]
    /\ UNCHANGED <<now, published, status>>

Call(accepted, d) ==
    /\ handle
    /\ db' = d
    /\ highest' = [role \in Roles |->
                     Max({highest[role], d[role].version})]
    /\ status' = IF accepted THEN "ok" ELSE "rejected"
    /\ UNCHANGED <<now, published, handle>>

FeedTimestamp ==
    \E f \in ToSet(published.timestamp) :
        Call(AcceptsTimestamp(db, f), UpdateTimestamp(db, f))
FeedSnapshot ==
    \E f \in ToSet(published.snapshot) :
        Call(AcceptsSnapshot(db, f), UpdateSnapshot(db, f))
FeedTargets ==
    \E f \in ToSet(published.targets) :
        Call(AcceptsTargets(db, f), UpdateTargets(db, f))
FeedDelegatedTargets ==
    \E f \in ToSet(published.app) :
        Call(AcceptsDelegatedTargets(db, f), UpdateDelegatedTargets(db, f))

(* The calls that only read. *)
Ask(answer) ==
    /\ handle
    /\ status' = answer
    /\ UNCHANGED <<now, published, handle, db, highest>>

SnapshotVersion == Ask(IF db.timestamp.version = 0 THEN "malformed" ELSE "ok")
TargetsVersion(role) == Ask(IF db.snapshot[role] = 0 THEN "malformed" ELSE "ok")
Target == Ask(TargetStatus(db))

(* The binding refuses a verifier that was closed. *)
Closed ==
    /\ ~handle
    /\ status' = "null"
    /\ UNCHANGED <<now, published, handle, db, highest>>

Publication == (\E n \in Releases : PublishRelease(n)) \/ SignTargets

VerifierNext ==
    \/ New \/ Free \/ Closed
    \/ FeedTimestamp \/ FeedSnapshot \/ FeedTargets \/ FeedDelegatedTargets
    \/ SnapshotVersion \/ (\E role \in {"targets", "app"} : TargetsVersion(role)) \/ Target

Next == Publication \/ Tick \/ VerifierNext

Spec == Init /\ [][Next]_vars

-----------------------------------------------------------------------------
(* Properties *)

(* While a verifier is kept, no role that it trusts is older than the newest one
   it ever trusted of that role, though it forgets roles on the way and is fed
   files of every age. *)
NeverRollsBack ==
    handle => \A role \in Roles : db[role].version = 0 \/ db[role].version >= highest[role]

(* Targets are trusted only beside the snapshot that names their version, so that
   the delegations and the keys a role is checked with are those of one
   publication; and no role is newer than the snapshot that is trusted. *)
OneSnapshot ==
    db.snapshot.version # 0 =>
        /\ db.targets.version \in {0, db.snapshot.targets}
        /\ db.app.version <= db.snapshot.app

(* A check with the newest files, in the order of the chain, is answered with the
   newest release, whatever files of whatever age the verifier was fed before:
   no sequence of calls, accepted or refused, wedges it. *)
Refreshed ==
    UpdateDelegatedTargets(
        UpdateTargets(
            UpdateSnapshot(
                UpdateTimestamp(db, Newest("timestamp")), Newest("snapshot")),
            Newest("targets")),
        Newest("app"))
Fresh == RootUnexpired /\ published.app # <<>> /\ \A role \in Roles : ~Expired(Newest(role))
RefreshRecovers ==
    Fresh =>
        /\ AcceptsTimestamp(db, Newest("timestamp"))
        /\ Resolves(Refreshed)
        /\ Refreshed.app = Newest("app")
=============================================================================
