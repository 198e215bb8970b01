# A TLA+ model of the distribution platform

Modules that model how the platform registers sources, decides about releases and signs them,
publishes a TUF repository, and how a client verifies, resolves and installs versions; TLC configurations that check them on small
instances; and theorems with proofs that TLAPS checks. `PROJECT.json` lists the runs, the source
lines each definition stands for, the hazards the properties are aimed at, and one mutant per
checked property that shows the property can fail.

    tlc -workers 2 -config Registry_queue.cfg MCRegistry
    tlapm RegistryProofs.tla

## 1. The system

| Component | Source | State it keeps | Operations | Talks to |
|---|---|---|---|---|
| Source registry and job queue | `dist_registry/store.py`, `schema.sql`, `models.py` | tables `sources`, `jobs`, `audit_log` | add, update, delete, set_status, record_identity, mark_delegated, enqueue, claim_job, finish_job, reset_stale_jobs | called by the three processes below; every function commits |
| Admin handlers | `dist_admin/app.py`, `forms.py` | one row and one form for the length of a request | create, edit, validate, poll, pause, delete | several commits of the store per request |
| Operator accounts, audit trail | `dist_admin/auth.py`, `operators.py`, `app.py` | tables `operators`, `sessions`, `audit_log`; cookies | bootstrap, add, passwd, login, logout | the store; a commit for the change and one for its audit |
| Ingest worker | `dist_ingest/worker.py` | locals of one tick | reset, schedule, claim, validate, poll, hand-off | the store, a forge, the quarantine |
| Forge clients | `forge.py`, `sources.py` | none | identity, latest release, feed, download, attestation | GitHub, GitLab and whatever host they redirect to |
| Ingest policy and gates | `provenance.py`, `attestation.py`, `gates.py`, `policy.py`, `quarantine.py` | blobs on the quarantine volume | verify, inspect, decide, admit | the ingest worker |
| Signing worker | `dist_sign/worker.py` | one `FileSystemRepository`, with its caches, for the life of the process | reset, claim, publish | the store, the quarantine, the repository |
| Delegation command | `dist_registry/delegate.py` | none | mark a source delegated | published targets, the store |
| TUF repository | `dist_core/repository.py`, `roles.py` | metadata and target files; `_versions` and `_app_roles` in each process | initialize, add_app, add_release, set_current, publish | python-tuf's `do_snapshot` and `do_timestamp` call back into open, close, targets_infos, snapshot_info |
| Ceremony | `scripts/ceremony.py` | offline keys | initialize | the repository |
| Edge | `deploy/compose/nginx/edge.conf` | none; caches numbered files for a year | serves files | clients |
| Client verifier | `dist-core-rs/src/verifier.rs`, vendored `tuf` | trusted root, timestamp, snapshot, targets, delegations | update_*, target, verify_payload | metadata as fetched by the bindings |
| A/B installer | `dist-core-rs/src/install.rs` | slots, staging, `current.json` | stage, commit_slot, activate, begin_launch, confirm_healthy, rollback, prune, clean_staging | updater, launcher, application |
| FFI and bindings | `dist-core-ffi/src/lib.rs`, `bindings/python` | the handle of a verifier | create, free, update_*, versions, target | applications, which choose order and bytes |
| Privileged broker | `dist-core-rs/src/broker.rs` | installed, offered, last_error | set_installed, status, check, install | verifier, fetcher, guards |
| Names, metadata, rollouts | `naming.py`; `lib.rs`, `verifier.rs`, `rollout.rs` | none | the same rules twice, in Python and in Rust | what one renders the other reads |

What is hard here:

* **Commits that belong together and are apart.** A request or a job is several transactions: job
  and status, poll and hand-off, result and status. Everything else can run in between, and any
  process can die in between.
* **Work that is taken back.** `reset_stale_jobs` decides by age, `finish_job` goes by id alone.
* **Reads used late.** A job runs on the source row it read at its start; the signer on the
  delegations and versions it read when it was started; the cheap change detector on the last
  poll.
* **A forge that moves.** A poll is five requests and more; between any two the project publishes,
  replaces, withdraws or changes hands, and a download is redirected to wherever an answer says.
* **A verifier that is kept.** It forgets roles when it accepts new ones, and its host feeds it
  files of any age.
* **Several files per publication**, with clients reading at any moment.
* **Kills in the middle of an installation**, which must never leave nothing to run.

Most concurrency is between processes, which share a database or a directory. Within one process
there are only the requests of the admin plane: its plain handlers run in threads and its coroutines
on one event loop, with nothing in common but the database.

What makes each correct (the properties are in section 4): the registry never lets anything be
signed that was not approved and delegated, never does the same work twice at once, and wedges
no source; the repository never shows a client a reference it cannot follow, rewrites no
published file, and publishes atomically; ingestion hands on only what was
built by the repository that the source is pinned to at that moment; a verifier that is kept trusts no
older file of a role than it has trusted of it, and the newest files always lead out of where it is; the
broker records as installed what it verified and what it had reported; the audit log agrees with the
tables; the two languages agree about names; the installer leaves a version that can run, as long as its
calls do not write over each other's pointers and no slot that is in use is taken away. That these are
not unconditional is the code's doing: sections 4 and 6 say where it falls short of its own documentation.
`PROJECT.json` lists, under "hazards", where the code could fail to be so, line by line.

## 2. Modules

| Module | Models | Kind |
|---|---|---|
| `Registry` | registry, admin handlers, ingest and signing workers, delegation command, one database commit per action | state machine |
| `MCRegistry` | its instances | model checking |
| `RegistryProofs` | theorems about `Registry` | proofs |
| `Ingest` | the jobs of one source in `dist-ingest`, one request to the forge per action, while the project on the forge changes | state machine |
| `MCIngest` | its instance | model checking |
| `IngestProofs` | theorems about `Ingest` | proofs |
| `Admin` | accounts, sessions, forms and the audit log, one database commit per action | state machine |
| `MCAdmin` | its instance | model checking |
| `AdminProofs` | theorems about `Admin` | proofs |
| `Catalogue` | what the published repository promises clients: a catalogue that changes atomically and withdraws nothing | abstract specification |
| `Repository` | `FileSystemRepository` and the processes that hold one, one file write per action; implements `Catalogue` | state machine, refinement |
| `MCRepository` | its instances | model checking |
| `RepositoryProofs` | theorems about `Repository`, its refinement of `Catalogue`, and the checks of `Client` | proofs |
| `Installer` | `install.rs` and the processes that use it, split where a call touches the file system | state machine |
| `MCInstaller` | its instances | model checking |
| `InstallerProofs` | theorems about `Installer` | proofs |
| `Client` | an update check, one fetch per action, and the verifier it uses, over the steps of `Repository` | composition |
| `MCClient` | its instances | model checking |
| `Verifier` | a verifier that is kept, behind the C ABI, fed files of any age | state machine |
| `VerifierProofs` | its inductive invariant, as lemmas | proofs |
| `Broker` | `broker.rs` over `Verifier`, one action per port that it calls | composition |
| `MCBroker` | its instance | model checking |
| `BrokerProofs` | theorems about `Broker` and the verifier in it | proofs |
| `Naming` | target names, release metadata and rollouts, on both sides, as operators | definitions |
| `NamingProofs` | theorems about `Naming` | proofs |

### Registry

`status`, `identified` and `critical` are columns of `sources`; `open[r]` is the one queued or
running job that the partial unique index lets a source have; `lastPoll`, `recent` and `aged` are
the only facts about closed or old jobs that a query reads; `worker[w]` is the program counter and
the locals of a worker's tick, `request[q]` of an HTTP request. A value of `pc` names the commit
that comes next, so that an action is exactly one transaction of the code with the decisions that
lead to it. A job has no id: `holders` of an open job (and of `lastPoll`) are the workers that
claimed it and have not let go, which is all that `finish_job` by id can tell apart. Wall-clock
time is `JobAges` (STALE_AFTER has passed) and `IntervalElapses` (POLL_INTERVAL has), which may
happen whenever they are possible.

The forge is external: a number of releases that only grows, of which those in `Good` pass
provenance, gates and policy (module `Ingest` has what is behind that). Its release feed is only a hint, and may say anything. A poll may
find a release whose attestation is not there yet.
`Publish` is one step here. `Repository` takes it apart.

A source row that was deleted is not used again: registering the application anew is another row.

### Ingest

`job` is the worker's locals: `pc` is the request that it makes next, `tag`, `blob`, `envelope` and
`identity` what it has read so far. The artifact and, on GitLab, the attestation are
streams (`StreamFrom`, `Streamed`, `Received`), one action per hop, with the allowlist asked before each.
`releases`, `statements` and `repository` are the forge: the
stage and the asset of each tag, what is attested under each digest (GitHub) or tag (GitLab), and
whom the project's name belongs to. `Project` is everything that can happen there between two
requests, bounded by `MaxChanges`; a misdirected or failed answer, a wrong attestation and a crash
are faults. `Validate` may run at any time between polls, and `Validated` writes the pin (`pinned`)
again each time, as `record_identity` does. A job that an exception or a crash ends after the admission
leaves the blob on the volume (`Interrupted`). `IngestBlob` is the part of `do_poll` after the last request: admission, the checks of
`provenance.py` in their order, the archive, the gates, the decision, the record. `Decide` is the
verdict, and `Authentic`, `CheckStatement` and `SourceOk` are what it consists of. `Documents` are all
the attestations that exist; `Truth` says what was really built from a tag, and by whom, which the
code cannot see. `held` and `identified` (whom a validation ever found in possession of the name) are
history variables.

### Admin

A handler is one action per call of the store that commits: `Login`, `LoginBegins` (the session),
`LoginAnswers` (its audit); `Begin` reads the session and the row, `EditSource` and the others change
the tables, `AuditRequest` writes the log. `create_source` and `edit_source` are coroutines that
await the form: `loop` is the one that has the event loop after that, so that two edits overlap at the
await and nowhere else. `BootstrapOperator` and the commands of `operators.py` look first and write
in a later commit, and may overlap as they like; `known`, a history variable, has the operators there
were when each looked. `Restart` is a crash of the server at any point. `unaudited` is a history
variable: a crash between a change and its audit loses the entry, which no code could recover.

### Repository

`<version>.<role>.json` is the entry at that index of a sequence (`targetsFile`, `appFile[a]`,
`snapshotFile`); `timestampFile` is the one file that is replaced. A process has `known[w]`
(`_versions`) and `appRoles[w]` (`_app_roles`), filled by `Start` and kept by `close`. `pc[w]` is
the write it makes next; an operation is a chain of writes that can end by an exception (`Raise`,
`RefuseRole`, `RefuseRollback`), after which the process goes on with the memory it has, or by a
crash, after which it has none. `do_snapshot` and `do_timestamp` are python-tuf's and are modelled
from what they are given and call back.

`Lock` is how the callers serialise, which `repository.py` leaves to them: for the life of a
process ("process": the ceremony is run while the signer is down, or the other way round), for one
operation ("operation": what a Postgres advisory lock around a publication, as in PLAN.md, would
give) or not at all.

`Catalogue` is refined by `listed` and `View`: what is reached from `timestamp.json`. A
publication takes effect at the write of the timestamp, and all other writes are stutters.

### Installer

A directory is absent, partial or complete: `is_dir` is true of the last two. A library call that
reads the pointer and replaces it later is two actions. The library has no caller in the
repository but its tests, so the three processes are external, in the order its documentation and
tests use it. They are not
kept apart: calls overlap freely. `lost`, a history variable, becomes true when a call writes over a pointer
that is not the one it read; `torn` has the versions that the pointer names although their directory is
not whole, because `commit_slot` began to remove the slot of a version that is installed again, or because
`activate`, which tests `is_dir` alone, was given a directory that a killed `prune` had left half removed.
`tries` is a history variable too.

### Client

`UpdateCheck.run` in `update.py` is a chain of fetches: timestamp, snapshot, targets, the
application's role, then the pointer. `stage` is the one that comes next and `trusted` the
`Database` of the verifier, constructed anew for each check as the bindings do. Each action is a
fetch and the verifier's call on what it returned (`UpdateTimestamp`, ..., `Authorized`). A step of
`Repository` (`Publication`) may fall between any two. `Resolves` is the search of the vendored
`tuf` crate for a target along the delegations, with its early returns. `promised` records what
was current when the check began.

### Verifier and Broker

`db` is what the `Database` of the vendored `tuf` crate trusts of each role, `published` every file
there ever was. `FeedTimestamp`, ..., `FeedDelegatedTargets` are the calls of the C ABI with one of
these files, whichever: the ABI fixes neither the order nor the source of the bytes. `Advances`,
`AcceptsTimestamp` and the like are the comparisons with what is trusted, in the order the crate
makes them, and `Purge` what it forgets on the way, before it looks at the expiry. `status` is what
the call returns; a call on a closed handle is refused. `highest` is a history variable.

`Broker` adds the service. `Request` is a request that it answers at once, `Installation` one port
per action (`Fetch`, `Verify`, `CheckPublisher`, `VerifyAgain`, `Record`): rule 4 of `broker.rs` verifies the staged
file again, and `Permit` and `Replace` may open the staging directory and write to it between any two.
`SetInstalled` is the host's set_installed. The ports are traits with no implementation in the
repository. `reported` and `replaced` (the staged file was written to after the last verification) are
history variables. Of DistStatus, `Status` has what metadata and the order of calls decide; a clock
before 1970, a path that does not parse and a panic leave what is trusted alone.

### Naming

Strings are sequences of characters, and `Joined` is the string of a path's segments; `Covers` is startswith,
character by character. The server's renderers (`Path`, `Prefix`, `PointerPath`, `AppPathPattern`, `ToCustom`, `InRollout`)
and the client's readers (`Parses`, `ReadCustom`, `InRolloutClient`), with one module for both, so
that a theorem can speak of both. It has no state, and no run: a run over the few short names that
TLC can enumerate would show less than the theorems, which are about names of every length.

## 3. Bounds

| Run | Instance | Why it is enough |
|---|---|---|
| `registry_queue` | 1 source, 1 ingest and 1 signing worker, 2 requests, 2 releases that pass unless their attestation is late, 1 skip, 1 fault | two requests interleave with each other and with both workers; a publish job for the older release is open, requeued or in hand while the newer is decided; a late attestation rejects one of them and leaves it in quarantine beside the other; a fault in any commit, then recovery with nothing but the fair steps |
| `repository_shared` | 2 applications (1 online), ceremony and signer both up, 2 releases, 3 versions per role, 1 fault | each process gets ahead of the other, and is killed or fails while it is |
| `ingest_poll` | 2 tags, 3 artifacts (two of ours, one of them with an unsafe archive, and one of the next owner of the name), 2 documents, 3 hosts of which 2 are allowed, 1 redirect, 2 skips, 2 changes of the project, 1 fault; both forges | a release and its replacement, or a release and a change of hands, or an asset and its late attestation, between any two requests of a poll or validation that follows a failed one |
| `admin_audit` | 2 operators, 3 requests, 1 command, 1 source, 2 channels of the table and 1 more slug, 1 restart | a login and two edits that overlap at the await, one of which the table refuses; a restart with the bootstrap variable still set, before, during and after a command |
| `broker_handle` | 2 releases, 3 versions of each role, 3 moments, lifetimes of 1, 2 and 3, a root that expires at the last moment, 2 changes of the staging directory | a file of each role is older, newer and equal to the one that is trusted, and expires at another time than the file above it; the directory is opened and written between two ports |
| `installer_slots` | 3 versions (2 that start), 3 attempts, 2 kills | active, previous and next exist together; MAX_LAUNCH_ATTEMPTS has its real value; a kill during recovery from a kill; two calls that overlap at any point. The search stops before a write that would set `lost` |
| `client_check` | 1 application, ceremony and signer in turn, 2 releases of which one reaches the client, 6 versions per role, 1 fault | initialise, delegate, two releases, pointer forward and back, with a check at any point of it and a crash or failure anywhere and a restart after it |
| violations | the smallest of these instances in which it happens; `client_second` has 2 applications | |

The bounds are constants: `MaxTag`, `MaxRelease`, `MaxVersion` and `MaxTime` bound counters that the
code leaves unbounded, `MaxChanges`, `MaxLapses` and `MaxRestarts` what the surroundings do,
`MaxFaults` the faults, and `MaxSkips` is MAX_CONSECUTIVE_SKIPS made small. `RequestsInTurn`, an ACTION_CONSTRAINT of `registry_queue`,
lets requests, which are alike until they are made, begin in one order; nobody is bound to make one, so
that fairness is not touched. `NoStaleWriter`, a CONSTRAINT of `installer_slots`, stops the search at a
process that is about to write over a pointer it has not read: the properties say nothing after such a
write, and a process that has not written yet might as well not have begun. Two
sources that share the workers are beyond the instances of `Registry`; the theorems of section 5
hold for any number.

## 4. Runs

**`registry_queue`** (pass). `ActiveWasDelegated`: a source is active only if the published targets delegate
it. `PublishedWasApproved`: clients are pointed only at what the policy approved for that
application. `OneWorkerPerSource` and `ExecutorHoldsOpenJob`: with one worker of
each kind, no job is run twice at once, and `finish_job` never closes a job that is not the
finisher's. `CurrentNeverRegresses`: redelivered and late publish jobs never move a pointer back.

One worker of each kind is what compose deploys, and the last property needs it. With
`Ingesters <- TwoIngesters` TLC finds it violated without any fault: one worker is slower than
STALE_AFTER, its job is given to the other, which decides on a newer release and hands it off; the slow
one then finishes and hands off the older, and `set_current` moves the pointer back. `store.claim_job`
says that more workers are "a scaling decision rather than a correctness problem"; that holds of
claiming, not of the hand-off.

Liveness, in the same run. `JobsFinish`: no source is wedged. `ReleaseReachesClients`: if a source
stays active, online-signed and known to the signer, its newest good release is what clients are
pointed at in the end, though hand-offs are dropped, publications fail and the feed is stuck.
Fairness is weak: of each worker's steps (its loop never ends and compose restarts it), of each
request that has begun, and of the two clocks. Nothing is assumed of operators, forges, restarts
of the signer or faults.

**`registry_validating`** (violated, finding). A validation can finish before `create_source` stores
VALIDATING; nothing ever ends that state.

**`ingest_poll`** (pass). `PromotedWasBuilt`: what is promoted or held was built, from a tag, by whom
the source was pinned to when the poll decided, and he is somebody whom a validation found in possession
of the name, though the name changes hands, assets are replaced and
attestations of others are served between the requests of a poll. `RecordIsOfOneRelease`: the tag and
the bytes of a record belong together. `PromotedIsQuarantined`: they are on the volume and were looked
into. `JobsEnd`: every job comes to its end, wherever the answers redirect it. `GoodReleaseGetsThrough`: a release
that stays the latest and satisfies the policy gets through, though an earlier poll of it was refused
and the feed never says that anything changed. Fairness is weak, of the worker's steps: its loop
never ends, and a request is answered or fails by its timeout.

**`ingest_repinned`** (violated, finding). `SubstitutionIsRejected`: what is promoted was built by whom the
source was first pinned to, as `store.py:13` ("written once") and `forge.py:533` have it. A validation that
runs after the name was registered by somebody else takes him for the pinned one.

**`admin_audit`** (pass). `Replays`: the last value that the log has for a column is the value of
the column, once no edit is between its commits. `ActsAfterLogin`: no change is logged before the
login of who made it. `PasswordsAreKept`: no startup and no `add` resets
a password that was there when it looked, however they overlap. A password that is put between the look and the
reset can be lost: an `add admin` during a first start is overwritten by the bootstrap password. Deadlock is not checked: the requests are finitely many.

**`broker_handle`** (pass). `NeverRollsBack`: a verifier that is fed any files trusts none of a role that is
older than one it has trusted of it. `OneSnapshot`: the targets it trusts are those that its snapshot names. An
application's role that is older than its snapshot names stays trusted (`database.rs:611`). `RefreshRecovers`: the
newest files can always be taken, and lead to the newest release. `InstallsWhatWasSigned`: what is staged when a
release is recorded as installed are its own bytes, unless they were replaced after the last verification;
`ConsentIsToWhatWasReported`: the release is the one that the caller was told of. The root expires at
the last moment of the run.

**`repository_shared`** (pass). With both processes up, serialised only one operation at a time,
`ReferencesResolve` and `PointerIsServed` hold at every single write: a process that is behind
either refuses, or overwrites files consistently. It is not harmless, as the next run shows.

**`repository_cached`** (violated, finding). With both processes up, even one operation at a time,
a numbered file is written again, although the edge has it cached as immutable.

**`installer_slots`** (pass). `UsableInstall` and `RollbackReady`: the version that the pointer names, and the
predecessor of one on probation, are complete slots, torn versions apart; `TriesBounded`: a version that is
never confirmed is started MAX_LAUNCH_ATTEMPTS times at the most. All three until an update of the pointer is
lost: after that they do not hold (section 6).

**`installer_interrupted`** (violated, finding). `InterruptedIsUsable` is the claim of `install.rs:17` as it
stands, with every call returned or killed. Installing the active version again removes its
slot first, and a kill there leaves nothing to run.

**`client_check`** (pass). One process at a time has the repository open, from its start to its end.
Of the repository:
`FilesAreImmutable` and `TimestampAdvances` at every write; `ReportedIsPublished`: an operation
that returns has taken effect for clients; `PublishesAtomically`: the refinement of `Catalogue`.
Of a client that fetches meanwhile, `ChecksComplete`: a check that started from a timestamp never
fails, whatever is published, fails or crashes while it runs; `OffersOnePublication`: what it
offers can be downloaded and was current when the check began.

**`client_second`** (violated, finding). When two applications are delegated, a check of the second
reports that there is nothing to offer: the search for its targets returns at the delegation of
the first instead of going on.

Deadlock is checked in every other run.

## 5. Proofs

`RegistryProofs` proves, for every set of sources, applications, workers and requests and every
value of the bounds, from `RegistryAssumption` alone:

* `TypeCorrect`: `[]TypeOK`. Inductive with two facts more (`TypeInv`): only a running job ages,
  and a worker or request past its first step has a source.
* `ActiveIsDelegated`: `[]ActiveWasDelegated`, on its own given types, because no delegation is
  withdrawn.
* `PublishedIsApproved`: `[]PublishedWasApproved`. The strengthening `Approved` follows an approval
  along its way: every open publish job, every worker at work on one and every poll about to hand
  off carries an artifact that was approved. It needs no assumption on the number of workers, so
  it covers double execution by several workers.
* `WorkIsExclusive` and `FinishesTheOpenJob`: `[]OneWorkerPerSource` and `[]ExecutorHoldsOpenJob`,
  with at most one ingest and one signing worker (`SingleWorker`). The strengthening `Owned` says
  that the holders of an open job are busy with it (`HoldersBusy`), that only sources that exist
  have open jobs (`OpenExists`), and that a worker has only the kinds of job it claims
  (`KindsClaimed`). Without `HoldersBusy` a requeued job could have an absent holder.
* `PointerNeverRegresses`: `CurrentNeverRegresses`, with `SingleWorker`. The strengthening `InOrder`
  compares tags along the way of a release: what clients have is no newer than what a signer has in
  hand, that no newer than the open publish job (`HandedOffInOrder`, `SignedInOrder`), that no newer
  than what a poll has decided and not yet handed off (`DecidedInOrder`), and all of them no newer
  than the forge (`PointerInOrder`). A requeued job keeps its place in that order, and `Owned` sees to
  it that nobody else is in it. Without `SingleWorker` it is false (section 4, `registry_queue`). It speaks of
  applications with one source, since the tags of two projects do not compare.

`InstallerProofs` proves, for every set of versions, every subset of them that starts, and every
MAX_LAUNCH_ATTEMPTS and number of kills, from `InstallerAssumption`:

* `TypeCorrect`: `[]TypeOK`.
* `AlwaysUsable` and `AlwaysRevertible`: `[]UsableInstall` and `[]RollbackReady`, with calls that overlap as
  they like. The inductive invariant `Slots` says where each process can be (`Roles`), that as long as no
  update of the pointer was lost both slots it names are whole or torn (`Sound`), that the updater has a directory to activate
  (`Ready`), and that `prune` keeps what the pointer names even if others wrote it since (`KeepsNamed`). A
  writer that sets `lost` owes nothing; any other has read the pointer it writes over, so that what it
  writes is as sound as what is there.
* `TriesAreBounded`: `[]TriesBounded`. `Counts` ties the launches that happened to the attempts the
  pointer has recorded, at every point between reading and writing it.

`IngestProofs` proves, for every set of artifacts, documents, repositories and hosts, every route and
every bound, from `IngestAssumption`:

* `TypeCorrect`: `[]TypeOK`, inductive with what a job has when it is somewhere (`Placed`).
* `PromotedBuilt`: `[]PromotedWasBuilt`. It is relative to the pin of the moment, which a later validation
  may rewrite, and to documents that tell the truth. The one step that decides compares everything it reads with
  the pins of that moment; `TruthAssumption` says that documents which our builder signed are true.
  Nothing needs to be known of how a document came to be there.
* `PromotedKept`: `[]PromotedIsQuarantined`.
* `RecordTrue`: `[]RecordIsOfOneRelease`. The strengthening (`RecordInv`) says that a job past its
  download has what was once the asset of its tag, and that what a tag has now is among what it had.

`BrokerProofs` proves of `BrokerSpec`, for every set of releases, all lifetimes and bounds, from
`VerifierAssumption` and `BrokerAssumption`:

* `TrustNeverGoesBack`, `TrustIsOfOnePublication`, `EveryVerifierRecovers`: the three properties of the
  verifier. `VerifierProofs` has their inductive invariant: the published files form a chain whose
  versions only grow (`Chain`); what is trusted is a published file or nothing (`FilesTrusted`); and what
  the newest snapshot ever trusted names is a ceiling for targets and for the application's role
  (`Trust`). The last is what survives a purge: without it, a verifier that has dropped its snapshot
  could be thought to accept an older one.
* `BrokerTypeCorrect`, `InstalledIsSigned` and `InstalledWasReported`: the second by the invariant that what was
  verified last is still staged when the release is recorded, or was replaced; the last with the invariant that what
  is offered was reported (`Reported`).

`RepositoryProofs` proves, for every set of ceremonies, signers, applications and releases, every
number of versions, crashes and failed writes, from `RepositoryAssumption`, and with what each needs of
the way the callers serialise:

| Theorem | States | Needs | Inductive invariant |
|---|---|---|---|
| `RepositoryTypeCorrect` | `[]TypeOK` | nothing | `BaseInv`: files have numbers within the bounds and an operation has room for what it has yet to write (`Room`); where an operation is tells what it has written (`Jobs`); a file names only files that exist (`FilesExist`) |
| `ReferencesAlwaysResolve` | `[]ReferencesResolve` | at most one ceremony up (`OneCeremonyUp`) | `DelegationInv`: only a ceremony writes targets, so that its memory of them is the directory's (`TargetsKnown`), delegations only grow, and a snapshot names only roles that its targets delegate |
| `PointersAlwaysServed` | `[]PointerIsServed` | no two operations overlap (`Lock # "none"`) | `ListingInv`: what is about to be listed is stored, and what is about to be pointed at is listed |
| `NumberedFilesAreImmutable`, `TimestampAlwaysAdvances` | `FilesAreImmutable`, `TimestampAdvances` | one process up (`Lock = "process"`) | `SerialInv`: the memory of a process is the directory (`InStep`), later files go on from earlier ones, and what an operation has written and not yet served is in the newest files (`ResultsWait`) |
| `ReportsAreServed` | `ReportedIsPublished` | one process up | the same: a `timestamp.json` that is not due has nothing to add |
| `RepositoryPublishesAtomically` | `PublishesAtomically` | one process up | the same: the write of the timestamp is `Publish` of `Catalogue`, each other step a stutter |
| `ClientTypeCorrect` | `[]ClientTypeOK` | nothing | `CheckInv` |
| `ChecksDisturbNothing` | `ClientSpec => Spec` | nothing | |
| `ChecksAlwaysComplete` | `[]ChecksComplete` | no overlap, one ceremony | `ChainInv`: at each stage of a check the file it fetches next is there and is delegated (`NextIsThere`) |
| `OffersAreOfOnePublication` | `[]OffersOnePublication` | one process up | `OfferInv`: what is still to be fetched leads to what was current when the check began (`LeadsToPromise`), and immutability keeps it so |

The hypotheses are the ones in the table and no stronger than the runs': `repository_shared` has
one ceremony and a signer serialised by operation, `client_check` one process at a time. That
immutability needs more than operations that do not overlap is what `repository_cached` shows.

`AdminProofs` proves, for any number of operators, requests, commands and sources, from
`AdminAssumption`:

* `TypeCorrect`: `[]TypeOK`.
* `LogTellsOfLogins`: `[]ActsAfterLogin`, by the invariant that whoever has a cookie or a request in
  flight has a login in the log (`Known`).
* `ChosenPasswordsStay`: `PasswordsAreKept`, with any overlap of startups and commands, by the invariant
  that a startup about to put the first operator found none, and an `add` did not find its own (`FoundOut`).
* `LogReplays`: `[]Replays`. The strengthening `ReplayInv` says what is true between the commit of an
  edit and that of its audit: the one request there has the event loop (`EditIsAlone`), so that no
  other edit of the row gets between the two; and the log, with what it has yet to be told, agrees
  with the row (`RowsAgree`). A source that is registered is one the log has never spoken of
  (`TellsOfKnown`, `CreatesAnew`). `LastIsThere` says that the entries about a column have a last one,
  as an invariant, because the log is grown by `Append` and induction over its length is out of reach.

`NamingProofs` proves, for names of every length over any alphabet (`CharactersDiffer`): the client
parses every path the server renders; a delegation covers its application and no other; no release
has the string of a pointer; the string that a pointer holds, whatever it is, passes startswith exactly
if its first segments are the channel's, and only the application's own role can have signed it
(a string is split at its slashes in one way, `SplitIsUnique`); metadata is read as it
was written; both sides put every install in the same bucket, and raising the percentage takes
nothing back; `is_newer` is a strict order.

Only model-checked: the liveness properties `JobsFinish`, `ReleaseReachesClients`,
`JobsEnd` and `GoodReleaseGetsThrough`, since fairness and ENABLED are out of the prover's reach. Every invariant and
every action property of a passing run is stated by a theorem.

## 6. Not modelled

HTTP and HTML, the pages, the CSRF check (taken to succeed), the patterns of form fields (one bit:
usable or not), hashing of passwords and tokens. Of the forges, the parsing of JSON and of feeds; of
attestations, the cryptography of DSSE and Sigstore and the parsing of envelopes; of archives, the walk
over members. Key formats, thresholds, keystores and secrets, which are cryptography and I/O.
`promote` and `discard` of the quarantine, which nothing calls. The JSON of a pointer
(`CurrentRelease`), the conformance command line (a test driver), and the files of `deploy/`, but for
the caching rule. Temporary files of the quarantine.

Of the verifier, root rotation: no entry point of the client offers it. Metadata is signed again only
by a publication; who re-signs it before it expires is not in the repository.

Of the installer, what follows once a call has written over a pointer it has not read: nothing is claimed then,
and `UsableInstall` is false, since the pointer may name a slot that was pruned. Nothing
in the repository says who may call the library when. A slot that is half removed by a killed `prune` is a
directory, and `activate` and `resolve` take it for an installed version (`install.rs:297`, `393`), against
`install.rs:150`, which speaks of a slot that is absent or incomplete; the model does as the code does and
counts the version as torn. `prune` removing the directory of a version that
still runs depends on the operating system.

## 7. Plan

1. `Registry` and `Ingest` meet in `Good`: a refinement that replaces the one step of `Registry` that
   decides by the job of `Ingest` would let `PublishedWasApproved` and `PromotedWasBuilt` be one theorem.
2. The safety half of what the liveness runs rest on, as theorems: the counter of skips is carried
   from record to record and stays within its bound.
3. The delegation half of `OneSnapshot`: when an application's role that is older than the snapshot names
   may decide about a target.
