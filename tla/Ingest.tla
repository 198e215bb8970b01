------------------------------- MODULE Ingest -------------------------------
(***************************************************************************)
(* How dist-ingest decides about a release: the jobs of one source, run by *)
(* one worker (worker.do_validate and do_poll, with forge.py, sources.py,  *)
(* quarantine.py, provenance.py, attestation.py, gates.py and policy.py),  *)
(* while the project on the forge changes between any two requests.        *)
(* Registry has the queue around it, and sees a poll as one step.          *)
(*                                                                         *)
(* How the data is abstracted:                                             *)
(*   - A blob is the bytes of an artifact and their digest at once.        *)
(*   - A release is named by its tag, of which the greatest is the latest; *)
(*     it has one asset under the configured name, or none.  A draft is    *)
(*     absent: no answer shows it.  Its version is its tag.                *)
(*   - A document is what an attestation says and who vouches for it; the  *)
(*     cryptography of DSSE and Sigstore is taken as sound.                *)
(*   - A URL is the host it lands on.  A step is one request to the forge; *)
(*     the loops over chunks and archive members are within a step.        *)
(***************************************************************************)
EXTENDS Naturals, Sequences, FiniteSets

CONSTANTS
    None,
    MaxTag,         \* releases are tagged 1..MaxTag
    Blobs,
    Size, MaxAssetBytes, MaxArtifactBytes,  \* sources.max_asset_bytes, Quarantine
    Archive,        \* what inspect_archive makes of a blob
    Critical,       \* sources.critical
    Documents,      \* attestations that exist anywhere
    Truth,          \* what was really built from a tag: [blob, by], by whom
    Repositories,   \* numeric identifiers the project's name has belonged to
    FirstOwner,     \* the one it belonged to when the source was validated
    Hosts, AllowedHosts,
    Route,          \* the hosts a download is honestly redirected along
    MaxRedirects,
    Skip,           \* DIST_SKIP_GATES
    MaxSkips,       \* MAX_CONSECUTIVE_SKIPS
    MaxChanges,     \* bound: what happens on the forge
    MaxFaults       \* bound: wrong answers, crashes

Tags == 1..MaxTag
NoTag == 0
Gates == {"malware", "publisher", "sbom"}

Certificate == [repository: Repositories, runner: {"hosted", "self-hosted"}]
Document == [keyid: {"pinned", "other"}, key: {"pinned", "other"}, certificate: Certificate,
             builder: {"pinned", "other"}, subjects: SUBSET Blobs,
             resolved: Seq([project: {"ours", "other"}, ref: {"tag", "branch"}])]

ASSUME IngestAssumption ==
    /\ MaxTag \in Nat /\ MaxSkips \in Nat /\ MaxChanges \in Nat /\ MaxFaults \in Nat
    /\ MaxRedirects \in Nat /\ Critical \in BOOLEAN
    /\ Size \in [Blobs -> Nat] /\ MaxAssetBytes \in Nat /\ MaxArtifactBytes \in Nat
    /\ Archive \in [Blobs -> {"none", "safe", "unsafe", "broken"}]
    /\ None \notin Blobs /\ None \notin Documents /\ None \notin Hosts /\ None \notin Repositories
    /\ FirstOwner \in Repositories
    /\ AllowedHosts \subseteq Hosts
    /\ Route \in Seq(AllowedHosts) /\ Route # <<>> /\ Len(Route) <= MaxRedirects + 1
    /\ Documents \subseteq Document

VARIABLES
    source,     \* the row: its forge, critical, and the pinned repository
    releases,   \* the forge: stage and asset of each tag
    statements, \* the forge: attestations by blob (GitHub) or by tag (GitLab)
    repository, \* the forge: whom the project's name belongs to
    job,        \* the worker's locals
    quarantine, \* the blobs on the volume
    lastPoll,   \* the result of the last poll that was done: tag, skips
    held,       \* history: the blobs each tag ever had as its asset
    identified, \* history: whom a validation ever found the name to belong to
    outcome,    \* what the last poll that was not refused decided
    changes, faults

forgeVars == <<releases, statements, repository, held>>
vars == <<source, forgeVars, job, quarantine, lastPoll, outcome, identified, changes, faults>>

Release == [stage: {"absent", "prerelease", "published"}, asset: Blobs \cup {None}]
Unreleased == [stage |-> "absent", asset |-> None]

Pc == {"idle", "project", "release", "latest", "download", "attest", "envelope", "ingest"}
Job == [pc: Pc, tag: Tags \cup {NoTag}, blob: Blobs \cup {None}, genuine: BOOLEAN,
        from: Tags \cup {NoTag}, envelope: Documents \cup {None},
        host: Hosts \cup {None}, hops: 0..(MaxRedirects + 1), honest: BOOLEAN,
        identity: Repositories \cup {None}]
Idle == [pc |-> "idle", tag |-> NoTag, blob |-> None, genuine |-> TRUE, from |-> NoTag,
         envelope |-> None, host |-> None, hops |-> 0, honest |-> TRUE, identity |-> None]
NoPoll == [tag |-> NoTag, skips |-> 0]
Decision == {"promote", "hold_for_ceremony", "reject", "error"}

TypeOK ==
    /\ source \in [forge: {"github", "gitlab"}, critical: BOOLEAN,
                   repository: Repositories]
    /\ releases \in [Tags -> Release]
    /\ statements \in [Blobs \cup Tags -> Seq(Documents)]
    /\ repository \in Repositories
    /\ job \in Job
    /\ quarantine \subseteq Blobs
    /\ lastPoll \in [tag: Tags \cup {NoTag}, skips: 0..MaxSkips]
    /\ held \in [Tags -> SUBSET Blobs]
    /\ identified \subseteq Repositories
    /\ outcome \in {None} \cup [tag: Tags, blob: Blobs, decision: Decision,
                                repository: Repositories, honest: BOOLEAN]
    /\ changes \in 0..MaxChanges
    /\ faults \in 0..MaxFaults

Exists(t) == releases[t].stage # "absent"

(* GitHub files an attestation under the digests it is about, GitLab as an asset of a
   release that is there. *)
Attestable(key, d) ==
    key \in IF source.forge = "github" THEN d.subjects ELSE {t \in Tags : Exists(t)}

(* A source that was validated: it has its pins, and the project a release. *)
Init ==
    /\ repository = FirstOwner
    /\ source \in [forge: {"github", "gitlab"}, critical: {Critical}, repository: {repository}]
    /\ \E blob \in Blobs :
        /\ releases = [t \in Tags |->
              IF t = 1 THEN [stage |-> "published", asset |-> blob] ELSE Unreleased]
        /\ held = [t \in Tags |-> IF t = 1 THEN {blob} ELSE {}]
    /\ \E key \in Blobs \cup Tags, d \in Documents :
        /\ Attestable(key, d)
        /\ statements \in {[k \in Blobs \cup Tags |-> IF k = key THEN <<d>> ELSE <<>>],
                           [k \in Blobs \cup Tags |-> <<>>]}
    /\ job = Idle
    /\ quarantine = {}
    /\ lastPoll = NoPoll
    /\ outcome = None
    /\ identified = {FirstOwner}
    /\ changes = 0
    /\ faults = 0

-----------------------------------------------------------------------------
(* What the forge answers *)

Newest(stages) ==
    LET listed == {t \in Tags : releases[t].stage \in stages} IN
    IF listed = {} THEN NoTag ELSE CHOOSE t \in listed : \A u \in listed : u <= t

(* Both forges have an answer of their own for the latest release; a draft, a
   prerelease or an upcoming release is not one. *)
LatestRelease == Newest({"published"})

(* releases.atom; it lists prereleases too.  GitLab has no opinion, and an answer
   for another repository than the pinned one is an error. *)
NewestTagHint ==
    IF source.forge = "github" /\ source.repository = repository
    THEN Newest({"published", "prerelease"}) ELSE NoTag

(* The first of the answer. *)
Attestation(key) == IF statements[key] = <<>> THEN None ELSE Head(statements[key])

-----------------------------------------------------------------------------
(* policy.ingest *)

(* sources.provenance_policy: a certificate identity for GitHub, a key for GitLab. *)
Certified(d) == d.certificate = [repository |-> source.repository, runner |-> "hosted"]
SignedByBuilder(d) == d.keyid = "pinned" /\ d.key = "pinned"
Authentic(d) == IF source.forge = "github" THEN Certified(d) ELSE SignedByBuilder(d)

(* check_statement; the first dependency on our project decides. *)
OursIn(d) == SelectSeq(d.resolved, LAMBDA dependency : dependency.project = "ours")
SourceOk(d) == OursIn(d) # <<>> /\ Head(OursIn(d)).ref = "tag"

(* Mutant: any genuine statement of a good build will do. *)
CheckStatementAnyBytes(d, blob) == d.builder = "pinned" /\ SourceOk(d)

CheckStatement(d, blob) == d.builder = "pinned" /\ blob \in d.subjects /\ SourceOk(d)
Verify(d, blob) == Authentic(d) /\ CheckStatement(d, blob)

(* No scanner, publisher check or SBOM is ever wired in: a gate is skipped by
   name, or refuses. *)
RunContentGates == Gates \subseteq Skip

(* Mutant: an archive that was vouched for is not looked into. *)
InspectArchiveNever(blob) == TRUE

InspectArchive(blob) == Archive[blob] # "unsafe"

Decide(d, blob) ==
    CASE Size[blob] > MaxArtifactBytes -> "reject"
      [] d = None -> "reject"
      [] d # None /\ ~Verify(d, blob) -> "reject"
      [] Archive[blob] = "broken" -> "error"
      [] ~InspectArchive(blob) \/ ~RunContentGates -> "reject"
      [] OTHER -> IF source.critical THEN "hold_for_ceremony" ELSE "promote"

-----------------------------------------------------------------------------
(* The jobs *)

Goto(pc) == job' = [job EXCEPT !.pc = pc]
Fault == faults < MaxFaults /\ faults' = faults + 1

(* run_job records a failure, and last_poll never sees it. *)
Fail == job' = Idle /\ UNCHANGED <<lastPoll, outcome>>

(* do_validate *)
StartValidate ==
    /\ job.pc = "idle"
    /\ changes < MaxChanges
    /\ changes' = changes + 1
    /\ Goto("project")
    /\ UNCHANGED <<source, forgeVars, quarantine, lastPoll, outcome, identified, faults>>

ProjectIdentity ==
    /\ job.pc = "project"
    /\ job' = [job EXCEPT !.pc = "release", !.identity = repository]
    /\ identified' = identified \cup {repository}
    /\ UNCHANGED <<source, forgeVars, quarantine, lastPoll, outcome, changes, faults>>

(* record_identity writes what was read over the pin there was; a validation that
   finds no asset fails before it. *)
Validated ==
    /\ job.pc = "release"
    /\ job' = Idle
    /\ source' = IF LatestRelease # NoTag /\ releases[LatestRelease].asset # None
                 THEN [source EXCEPT !.repository = job.identity] ELSE source
    /\ UNCHANGED <<forgeVars, quarantine, lastPoll, outcome, identified, changes, faults>>

(* Mutant: as many skips as the feed likes. *)
UnchangedUnbounded(hint) == lastPoll.tag # NoTag /\ hint = lastPoll.tag

(* _unchanged_since_last_poll *)
Unchanged(hint) ==
    /\ lastPoll.tag # NoTag
    /\ lastPoll.skips < MaxSkips
    /\ hint = lastPoll.tag

(* Mutant: the count starts anew when it is full, before it is acted upon. *)
SkipsAnew == (lastPoll.skips + 1) % MaxSkips

SkipsNow == lastPoll.skips + 1

(* tick, for a source with an active status, which has its pins.  A feed may have
   stopped reflecting reality, and one that fails gives no hint.  The policy cannot
   be built with a gate nobody knows. *)
Hints == {NewestTagHint, lastPoll.tag, NoTag}
Tick(hint) ==
    /\ job.pc = "idle"
    /\ IF source.forge = "github" /\ Unchanged(hint)
       THEN /\ lastPoll' = [lastPoll EXCEPT !.skips = SkipsNow]
            /\ UNCHANGED job
       ELSE /\ Skip \subseteq Gates
            /\ Goto("latest")
            /\ UNCHANGED lastPoll
    /\ UNCHANGED <<source, forgeVars, quarantine, outcome, identified, changes, faults>>

(* The locals of _stream when it begins, at the URL that an answer gave, and when it
   is done. *)
StreamFrom(host, honest, state) == [state EXCEPT !.host = host, !.hops = 0, !.honest = honest]
Streamed(state) == StreamFrom(None, TRUE, state)

ReadLatestRelease ==
    /\ job.pc = "latest"
    /\ CASE LatestRelease = NoTag ->
                /\ job' = Idle
                /\ lastPoll' = NoPoll
                /\ UNCHANGED outcome
         [] LatestRelease # NoTag /\ releases[LatestRelease].asset = None -> Fail
         [] OTHER ->
                /\ job' = StreamFrom(Route[1], TRUE,
                              [job EXCEPT !.pc = "download", !.tag = LatestRelease])
                /\ UNCHANGED <<lastPoll, outcome>>
    /\ UNCHANGED <<source, forgeVars, quarantine, identified, changes, faults>>

(* do_poll goes on with an attestation, or with none: a ForgeError here is an
   attestation that is missing. *)
Received(d) ==
    /\ job' = Streamed([job EXCEPT !.pc = "ingest", !.from = NoTag, !.envelope = d])
    /\ UNCHANGED <<lastPoll, outcome>>

(* _stream, which fetches the asset of a release and GitLab's attestation: one hop.
   Every host is checked before it is asked. *)
Streaming == job.pc \in {"download", "envelope"}
Followable == job.hops <= MaxRedirects /\ job.host \in AllowedHosts

StreamStep == UNCHANGED <<source, forgeVars, quarantine, identified, changes>>

RefuseHop ==
    /\ Streaming
    /\ ~Followable
    /\ IF job.pc = "download" THEN Fail ELSE Received(None)
    /\ StreamStep
    /\ UNCHANGED faults

(* Mutant: the hops are not counted. *)
RedirectForEver(host, honest) ==
    /\ Streaming
    /\ Followable
    /\ job' = [job EXCEPT !.host = host, !.honest = honest]
    /\ UNCHANGED <<lastPoll, outcome>>
    /\ StreamStep

Redirect(host, honest) ==
    /\ Streaming
    /\ Followable
    /\ job' = [job EXCEPT !.host = host, !.hops = @ + 1, !.honest = honest]
    /\ UNCHANGED <<lastPoll, outcome>>
    /\ StreamStep

HonestRedirect ==
    /\ job.honest /\ job.hops + 1 < Len(Route)
    /\ Redirect(Route[job.hops + 2], TRUE)
    /\ UNCHANGED faults

StrayRedirect(host) ==
    /\ Redirect(host, FALSE)
    /\ IF job.honest THEN Fault ELSE UNCHANGED faults

(* The bytes of an artifact; one too many is an error. *)
Serve(blob, honest) ==
    /\ job.pc = "download"
    /\ Followable
    /\ IF blob = None THEN Fail
       ELSE IF Size[blob] > MaxAssetBytes THEN Fail
       ELSE /\ job' = Streamed([job EXCEPT !.pc = "attest", !.blob = blob, !.genuine = honest])
            /\ UNCHANGED <<lastPoll, outcome>>
    /\ StreamStep

(* The bytes of GitLab's attestation, or an answer that is an error. *)
ServeEnvelope(d) ==
    /\ job.pc = "envelope"
    /\ Followable
    /\ Received(d)
    /\ StreamStep

(* At the end of the honest way there is what the release has at this moment. *)
ServeHonestly ==
    /\ job.honest /\ job.hops + 1 = Len(Route)
    /\ \/ job.pc = "download" /\ Serve(releases[job.tag].asset, TRUE)
       \/ job.pc = "envelope" /\ ServeEnvelope(Attestation(job.from))
    /\ UNCHANGED faults

ServeOther ==
    /\ \/ \E blob \in Blobs : Serve(blob, FALSE)
       \/ \E d \in {None} \cup Documents : ServeEnvelope(d)
    /\ IF job.honest THEN Fault ELSE UNCHANGED faults

(* GitHub is asked by the digest of the bytes on disk. *)
AttestationOnGitHub ==
    /\ job.pc = "attest" /\ source.forge = "github"
    /\ Received(Attestation(job.blob))
    /\ StreamStep
    /\ UNCHANGED faults

(* GitLab is asked for the latest release, whatever that is by now, and then for the
   asset of it that has the attestation's name, over a redirect chain of its own. *)
AttestationOnGitLab ==
    /\ job.pc = "attest" /\ source.forge = "gitlab"
    /\ IF LatestRelease = NoTag THEN Received(None)
       ELSE IF statements[LatestRelease] = <<>> THEN Received(None)
       ELSE /\ job' = StreamFrom(Route[1], TRUE,
                          [job EXCEPT !.pc = "envelope", !.from = LatestRelease])
            /\ UNCHANGED <<lastPoll, outcome>>
    /\ StreamStep
    /\ UNCHANGED faults

(* The same requests with an error or a wrong answer; GitLab's is a URL. *)
WrongAttestation ==
    /\ job.pc = "attest"
    /\ Fault
    /\ \/ \E d \in {None} \cup Documents :
             /\ source.forge = "gitlab" => d = None
             /\ Received(d)
       \/ \E host \in Hosts :
             /\ source.forge = "gitlab"
             /\ job' = StreamFrom(host, FALSE, [job EXCEPT !.pc = "envelope"])
             /\ UNCHANGED <<lastPoll, outcome>>
    /\ StreamStep

(* Mutant: the record names what is the latest release when it is written. *)
RecordOfLatest(decision) ==
    /\ lastPoll' = [tag |-> LatestRelease, skips |-> 0]
    /\ outcome' = IF decision = "reject" THEN outcome
                  ELSE [tag |-> LatestRelease, blob |-> job.blob, decision |-> decision,
                        repository |-> source.repository, honest |-> job.genuine]

(* _outcome_record *)
OutcomeRecord(decision) ==
    /\ lastPoll' = [tag |-> job.tag, skips |-> 0]
    /\ outcome' = IF decision = "reject" THEN outcome
                  ELSE [tag |-> job.tag, blob |-> job.blob, decision |-> decision,
                        repository |-> source.repository, honest |-> job.genuine]

(* Quarantine.admit, which has a cap of its own. *)
Admitted == IF Size[job.blob] > MaxArtifactBytes THEN {} ELSE {job.blob}

(* policy.ingest: admitted first, then decided.  An exception fails the job with
   the blob admitted all the same. *)
IngestBlob ==
    LET decision == Decide(job.envelope, job.blob) IN
    /\ job.pc = "ingest"
    /\ job' = Idle
    /\ quarantine' = quarantine \cup Admitted
    /\ IF decision = "error" THEN UNCHANGED <<lastPoll, outcome>> ELSE OutcomeRecord(decision)
    /\ UNCHANGED <<source, forgeVars, identified, changes, faults>>

(* A request that is not answered, or a worker that is killed: the job fails or is
   requeued.  There is no record of it, but a blob that was admitted stays. *)
Interrupted ==
    /\ job.pc # "idle"
    /\ Fault
    /\ Fail
    /\ quarantine' \in {quarantine} \cup
          (IF job.pc = "ingest" THEN {quarantine \cup Admitted} ELSE {})
    /\ UNCHANGED <<source, forgeVars, identified, changes>>

-----------------------------------------------------------------------------
(* The project on the forge *)

Change ==
    /\ changes < MaxChanges
    /\ changes' = changes + 1
    /\ UNCHANGED <<source, job, quarantine, lastPoll, outcome, identified, faults>>

PublishRelease(t, stage, blob) ==
    /\ ~Exists(t)
    /\ \A u \in 1..(t - 1) : held[u] # {} \/ Exists(u)
    /\ releases' = [releases EXCEPT ![t] = [stage |-> stage, asset |-> blob]]
    /\ held' = [held EXCEPT ![t] = @ \cup ({blob} \ {None})]
    /\ Change
    /\ UNCHANGED <<statements, repository>>

(* A draft is published, a release is withdrawn. *)
Restage(t, stage) ==
    /\ Exists(t)
    /\ releases[t].stage # stage
    /\ releases' = [releases EXCEPT ![t].stage = stage]
    /\ Change
    /\ UNCHANGED <<statements, repository, held>>

ReplaceAsset(t, blob) ==
    /\ Exists(t)
    /\ releases[t].asset # blob
    /\ releases' = [releases EXCEPT ![t].asset = blob]
    /\ held' = [held EXCEPT ![t] = @ \cup ({blob} \ {None})]
    /\ Change
    /\ UNCHANGED <<statements, repository>>

(* An attestation is attached after the release, if at all; the answer lists the
   newest first. *)
Attest(key, d) ==
    /\ Attestable(key, d)
    /\ statements' = [statements EXCEPT ![key] = <<d>>]
    /\ Change
    /\ UNCHANGED <<releases, repository, held>>

(* The name is given up and registered by somebody else. *)
Reregister(r) ==
    /\ r # repository
    /\ repository' = r
    /\ Change
    /\ UNCHANGED <<releases, statements, held>>

-----------------------------------------------------------------------------
Poll ==
    \/ \E hint \in Hints : Tick(hint)
    \/ ReadLatestRelease
    \/ HonestRedirect
    \/ \E host \in Hosts : StrayRedirect(host)
    \/ RefuseHop
    \/ ServeHonestly
    \/ ServeOther
    \/ AttestationOnGitHub
    \/ AttestationOnGitLab
    \/ WrongAttestation
    \/ IngestBlob

Validate == ProjectIdentity \/ Validated

Project ==
    \/ \E t \in Tags, stage \in {"prerelease", "published"}, blob \in Blobs \cup {None} :
        PublishRelease(t, stage, blob)
    \/ \E t \in Tags, stage \in {"absent", "prerelease", "published"} : Restage(t, stage)
    \/ \E t \in Tags, blob \in Blobs \cup {None} : ReplaceAsset(t, blob)
    \/ \E key \in Blobs \cup Tags, d \in Documents : Attest(key, d)
    \/ \E r \in Repositories : Reregister(r)

Next == StartValidate \/ Validate \/ Poll \/ Interrupted \/ Project

Spec == Init /\ [][Next]_vars

(* The worker's loop never rests, and a request is answered or fails. *)
FairSpec == Spec /\ WF_vars(Poll) /\ WF_vars(Validate)

-----------------------------------------------------------------------------
(* Documents of our builder, in our repository or with our key, tell the truth. *)
ASSUME TruthAssumption ==
    \A d \in Documents : d.builder = "pinned" /\ SourceOk(d) => \A b \in d.subjects :
        /\ SignedByBuilder(d) => [blob |-> b, by |-> "key"] \in Truth
        /\ d.certificate.runner = "hosted" => [blob |-> b, by |-> d.certificate.repository] \in Truth

(* What leaves ingestion was built from a tag by whom the source was pinned to when
   the poll ran, in whatever order the release, its asset, its attestation and the
   pins changed between the requests of the poll; and on GitHub a source is never
   pinned to anybody whom a validation did not find in possession of the name
   (worker.do_poll, policy.ingest).  It says nothing of who that is: any later
   validation rewrites the pin (store.record_identity, SubstitutionIsRejected). *)
PromotedWasBuilt ==
    outcome # None =>
        /\ [blob |-> outcome.blob,
            by |-> IF source.forge = "github" THEN outcome.repository ELSE "key"] \in Truth
        /\ outcome.repository \in identified

(* The claim of store.py:13 and forge.py:531: the pin is written once, so that a name
   which was registered again is a rejected attestation rather than a silent
   substitution.  It does not hold: validating the source once more takes the next
   owner for the pinned one. *)
SubstitutionIsRejected ==
    outcome # None /\ source.forge = "github" =>
        [blob |-> outcome.blob, by |-> FirstOwner] \in Truth

(* The tag and the bytes of a record belong together: with an honest download, the
   blob was at some time the asset of the release that the record names, although
   another release became the latest meanwhile (worker._outcome_record). *)
RecordIsOfOneRelease ==
    outcome # None => (outcome.honest => outcome.blob \in held[outcome.tag])

(* What the record hands to the signer is in quarantine, complete and under the
   volume's cap, although admission comes before every other decision and a job may
   fail after it (quarantine.admit). *)
PromotedIsQuarantined ==
    outcome # None =>
        /\ outcome.blob \in quarantine
        /\ Archive[outcome.blob] \in {"none", "safe"}

(* A job ends: wherever the hosts of the two redirect chains of a poll send it, and
   whichever request fails or is answered wrongly, the worker comes back to its loop
   without being killed (forge._stream, worker.do_poll). *)
JobsEnd == job.pc # "idle" ~> job.pc = "idle"

(* A release that stays the latest, whose asset is sound and whose first statement
   verifies under the pins, gets through in the end: neither a poll that was refused
   before the attestation came, nor a feed that keeps naming the tag that was
   refused, nor failed downloads stop it (worker._unchanged_since_last_poll). *)
Promotable(t) ==
    LET asset == releases[t].asset IN
    /\ LatestRelease = t
    /\ asset # None
    /\ Size[asset] <= MaxAssetBytes
    /\ Decide(Attestation(IF source.forge = "github" THEN asset ELSE t), asset) \in {"promote", "hold_for_ceremony"}

GoodReleaseGetsThrough ==
    \A t \in Tags : <>[]Promotable(t) => <>(outcome # None /\ outcome.tag = t)
=============================================================================
