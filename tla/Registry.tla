------------------------------ MODULE Registry ------------------------------
(***************************************************************************)
(* The source registry and the job pipeline of the distribution platform:  *)
(* the Postgres tables of dist_registry, the HTTP requests of dist_admin,  *)
(* the ingest workers, the signing workers and the delegation command,     *)
(* interleaved one database commit at a time.                              *)
(*                                                                         *)
(* How the data is abstracted:                                             *)
(*   - A release tag is its position in the forge's history, 1, 2, ...;    *)
(*     NoTag is "no release".  An artifact is named by its tag.            *)
(*   - The partial unique index lets a source have at most one job that is *)
(*     queued or running, so the open job is a field of its source.  A     *)
(*     closed job is kept only as lastPoll, the one query over closed jobs *)
(*     a decision reads.  Instead of a job id, a job has the set of        *)
(*     workers that claimed it and have not let go of it yet.              *)
(*   - requested_at matters only for the order in which jobs are claimed:  *)
(*     older holds the pairs of sources whose open jobs are so ordered.    *)
(*   - started_at and finished_at matter only against STALE_AFTER and      *)
(*     POLL_INTERVAL: aged and recent say which side of them a row is on.  *)
(*   - audit_log is written and never read by a decision: it is left out.  *)
(*   - A publication is one step here (module Repository takes it apart).  *)
(***************************************************************************)
EXTENDS Naturals, FiniteSets

CONSTANTS
    Rows,       \* rows of the sources table: one per registration, never reused
    Apps,       \* application ids
    AppOf,      \* AppOf[r] is the app_id column of row r
    Forge,      \* Forge[r] is "github" or "gitlab"
    Ingesters,  \* ingest worker processes
    Signers,    \* signing worker processes
    Requests,   \* HTTP requests of the admin UI; each one is made once
    MaxTag,     \* bound: releases the forge ever publishes per source
    Good,       \* tags whose artifact passes provenance and the content gates
    MaxSkips,   \* MAX_CONSECUTIVE_SKIPS
    MaxFaults   \* bound: crashes, raised exceptions and forge errors

Workers == Ingesters \cup Signers
Tags == 1..MaxTag
NoTag == 0

ASSUME RegistryAssumption ==
    /\ AppOf \in [Rows -> Apps]
    /\ Forge \in [Rows -> {"github", "gitlab"}]
    /\ Ingesters \cap Signers = {}
    /\ MaxTag \in Nat
    /\ Good \subseteq Tags
    /\ MaxSkips \in Nat
    /\ MaxFaults \in Nat

VARIABLES
    status,      \* status[r]: the status column, or whether row r exists at all
    identified,  \* rows with repository_id and repository_owner_id filled in
    critical,    \* rows with the critical column set
    open,        \* open[r]: the queued or running job of r, or NoJob
    older,       \* <<r, s>>: the open job of r was requested before that of s
    aged,        \* rows whose running job started more than STALE_AFTER ago
    lastPoll,    \* lastPoll[r]: the most recently finished poll with state done
    recent,      \* rows with a poll that finished within POLL_INTERVAL
    worker,      \* worker[w]: where the tick of process w is, and its locals
    due,         \* due[w]: rows left in the scheduling loop of w's tick
    request,     \* request[q]: where HTTP request q is
    forge,       \* forge[r]: newest release tag of r's project
    quarantined, \* <<r, t>>: artifacts in quarantine
    approved,    \* <<r, t>>: artifacts some poll decided PROMOTE on
    delegated,   \* apps whose app-<id> role the published targets delegate
    roles,       \* roles[w]: repo.app_roles as signer w loaded it at startup
    current,     \* current[a]: the version the app's pointer target names
    faults       \* how much of MaxFaults is used

jobVars == <<open, older, aged, lastPoll, recent>>
sourceVars == <<status, identified, critical>>
repoVars == <<delegated, roles, current>>
artifactVars == <<forge, quarantined, approved>>
vars == <<sourceVars, jobVars, worker, due, request, artifactVars, repoVars, faults>>

-----------------------------------------------------------------------------
(* Types *)

Live == {"draft", "validating", "invalid", "pending_delegation", "active", "paused"}
Status == Live \cup {"absent", "deleted"}
JobKind == {"validate", "poll", "publish"}
Job == [kind: JobKind, state: {"queued", "running"},
        tag: 0..MaxTag, holders: SUBSET Workers]
NoJob == [kind |-> "none", state |-> "none", tag |-> NoTag, holders |-> {}]
PollRecord == [tag: 0..MaxTag, skips: 0..MaxSkips, holders: SUBSET Workers]
NoPoll == [tag |-> NoTag, skips |-> 0, holders |-> {}]

(* The program counter of a worker names the commit it makes next. *)
Pc == {"tick", "schedule", "file", "claim", "run", "work", "identity",
       "finish", "handoff", "fail", "invalid"}
NoWork(pc) == [pc |-> pc, row |-> "none", kind |-> "none", tag |-> NoTag,
               skips |-> 0, promote |-> FALSE]
Idle == NoWork("tick")
WorkerState == [pc: Pc, row: Rows \cup {"none"}, kind: JobKind \cup {"none"},
                tag: 0..MaxTag, skips: 0..MaxSkips, promote: BOOLEAN]
Act == {"create", "validate", "poll", "pause", "offline", "online", "delete"}
RequestState == [pc: {"new", "enqueue", "status", "update", "delete", "done"},
                 act: Act \cup {"none"}, row: Rows \cup {"none"}]
Done == [pc |-> "done", act |-> "none", row |-> "none"]

TypeOK ==
    /\ status \in [Rows -> Status]
    /\ identified \in SUBSET Rows
    /\ critical \in SUBSET Rows
    /\ open \in [Rows -> Job \cup {NoJob}]
    /\ older \in SUBSET (Rows \X Rows)
    /\ aged \in SUBSET Rows
    /\ lastPoll \in [Rows -> PollRecord]
    /\ recent \in SUBSET Rows
    /\ worker \in [Workers -> WorkerState]
    /\ due \in [Ingesters -> SUBSET Rows]
    /\ request \in [Requests -> RequestState]
    /\ forge \in [Rows -> 0..MaxTag]
    /\ quarantined \in SUBSET (Rows \X Tags)
    /\ approved \in SUBSET (Rows \X Tags)
    /\ delegated \in SUBSET Apps
    /\ roles \in [Signers -> SUBSET Apps]
    /\ current \in [Apps -> 0..MaxTag]
    /\ faults \in 0..MaxFaults

-----------------------------------------------------------------------------
(* The store: what each statement of store.py does to the tables *)

Exists(r) == status[r] \in Live
HasOpen(r) == open[r] # NoJob

Init ==
    /\ status = [r \in Rows |-> "absent"]
    /\ identified = {}
    /\ critical = {}
    /\ open = [r \in Rows |-> NoJob]
    /\ older = {}
    /\ aged = {}
    /\ lastPoll = [r \in Rows |-> NoPoll]
    /\ recent = {}
    /\ worker = [w \in Workers |-> Idle]
    /\ due = [w \in Ingesters |-> {}]
    /\ request = [q \in Requests |-> [pc |-> "new", act |-> "none", row |-> "none"]]
    /\ forge = [r \in Rows |-> NoTag]
    /\ quarantined = {}
    /\ approved = {}
    /\ delegated = {}
    /\ roles = [w \in Signers |-> {}]
    /\ current = [a \in Apps |-> NoTag]
    /\ faults = 0

(* Mutant: no index, so a second job is opened beside (here: over) the first. *)
EnqueueAnyway(r, kind, tag, holders) ==
    /\ Exists(r)
    /\ open' = [open EXCEPT ![r] = [kind |-> kind, state |-> "queued",
                                   tag |-> tag, holders |-> holders]]
    /\ UNCHANGED <<older, aged>>

(* INSERT ... ON CONFLICT DO NOTHING: the index keeps one open job per source.
   The row must exist, or the foreign key refuses the insert. *)
Enqueue(r, kind, tag, holders) ==
    /\ Exists(r)
    /\ IF HasOpen(r)
       THEN UNCHANGED <<open, older>>
       ELSE /\ open' = [open EXCEPT ![r] = [kind |-> kind, state |-> "queued",
                                            tag |-> tag, holders |-> holders]]
            /\ older' = older \cup ({s \in Rows : HasOpen(s)} \X {r})
    /\ UNCHANGED aged

Close(r) ==
    /\ open' = [open EXCEPT ![r] = NoJob]
    /\ older' = {p \in older : p[1] # r /\ p[2] # r}
    /\ aged' = aged \ {r}

(* UPDATE jobs SET state = ... WHERE id = ...: by id alone, whatever state the
   job is in and whoever runs it.  w's job is the open one of its source while
   w is among its holders; otherwise the statement rewrites a job that is
   closed already, or finds no row because the source was deleted. *)
CloseOwnJob(w) ==
    LET r == worker[w].row
    IN  IF w \in open[r].holders THEN Close(r) ELSE UNCHANGED <<open, older, aged>>

FinishDone(w, keep) ==
    LET r == worker[w].row
        holders == CASE w \in open[r].holders -> open[r].holders
                     [] w \in lastPoll[r].holders -> lastPoll[r].holders
                     [] OTHER -> {w}
    IN  /\ CloseOwnJob(w)
        /\ IF worker[w].kind = "poll" /\ Exists(r)
           THEN /\ recent' = recent \cup {r}
                /\ lastPoll' = [lastPoll EXCEPT ![r] =
                     [tag |-> worker[w].tag, skips |-> worker[w].skips,
                      holders |-> IF keep THEN holders ELSE holders \ {w}]]
           ELSE UNCHANGED <<recent, lastPoll>>

(* When a poll that was done becomes failed, the poll before it is the last one
   that finished.  The tables keep it and this model does not, so it may be any. *)
FinishFailed(w) ==
    LET r == worker[w].row
    IN  /\ CloseOwnJob(w)
        /\ IF worker[w].kind = "poll" /\ Exists(r)
           THEN /\ recent' = recent \cup {r}
                /\ IF w \in lastPoll[r].holders
                   THEN \E t \in 0..MaxTag, k \in 0..MaxSkips :
                          lastPoll' = [lastPoll EXCEPT ![r] =
                                         [tag |-> t, skips |-> k, holders |-> {}]]
                   ELSE UNCHANGED lastPoll
           ELSE UNCHANGED <<recent, lastPoll>>

(* UPDATE sources SET status = ... WHERE id = ...: no condition on the status
   the row is in, and no effect on a row that is gone. *)
SetStatus(r, new) ==
    status' = IF Exists(r) THEN [status EXCEPT ![r] = new] ELSE status

-----------------------------------------------------------------------------
(* dist_admin: one HTTP request, one commit per action *)

Goto(q, pc) == request' = [request EXCEPT ![q].pc = pc]
Answer(q) == request' = [request EXCEPT ![q] = Done]

AddSource(q, r) ==
    /\ request[q].pc = "new"
    /\ status[r] = "absent"
    /\ \A s \in Rows : Exists(s) => AppOf[s] # AppOf[r]
    /\ status' = [status EXCEPT ![r] = "draft"]
    /\ \E c \in BOOLEAN : critical' = IF c THEN critical \cup {r} ELSE critical
    /\ request' = [request EXCEPT ![q] = [pc |-> "enqueue", act |-> "create", row |-> r]]
    /\ UNCHANGED <<identified, jobVars, worker, due, artifactVars, repoVars, faults>>

(* get_source at the top of the handler.  "poll" decides on this copy; so does
   an edit: what is written back is what differs from it, and critical is the
   one column an edit may touch that a decision reads. *)
ReadSource(q, r, act) ==
    /\ request[q].pc = "new"
    /\ Exists(r)
    /\ act = "poll" => status[r] = "active"
    /\ act = "offline" => r \notin critical
    /\ act = "online" => r \in critical
    /\ LET next == CASE act \in {"validate", "poll"} -> "enqueue"
                     [] act = "pause" -> "status"
                     [] act \in {"offline", "online"} -> "update"
                     [] act = "delete" -> "delete"
       IN  request' = [request EXCEPT ![q] = [pc |-> next, act |-> act, row |-> r]]
    /\ UNCHANGED <<sourceVars, jobVars, worker, due, artifactVars, repoVars, faults>>

RequestEnqueue(q) ==
    LET r == request[q].row
        kind == IF request[q].act = "poll" THEN "poll" ELSE "validate"
    IN  /\ request[q].pc = "enqueue"
        /\ IF Exists(r) THEN Enqueue(r, kind, NoTag, {})
                        ELSE UNCHANGED <<open, older, aged>>
        /\ IF Exists(r) /\ kind = "validate" THEN Goto(q, "status") ELSE Answer(q)
        /\ UNCHANGED <<sourceVars, lastPoll, recent, worker, due, artifactVars, repoVars, faults>>

RequestSetStatus(q) ==
    /\ request[q].pc = "status"
    /\ SetStatus(request[q].row,
                 IF request[q].act = "pause" THEN "paused" ELSE "validating")
    /\ Answer(q)
    /\ UNCHANGED <<identified, critical, jobVars, worker, due, artifactVars, repoVars, faults>>

UpdateSource(q) ==
    LET r == request[q].row IN
    /\ request[q].pc = "update"
    /\ critical' = IF request[q].act = "offline" /\ Exists(r)
                   THEN critical \cup {r}
                   ELSE critical \ {r}
    /\ Answer(q)
    /\ UNCHANGED <<status, identified, jobVars, worker, due, artifactVars, repoVars, faults>>

(* The jobs of the source go with it (ON DELETE CASCADE). *)
DeleteSource(q) ==
    LET r == request[q].row IN
    /\ request[q].pc = "delete"
    /\ SetStatus(r, "deleted")
    /\ identified' = identified \ {r}
    /\ critical' = critical \ {r}
    /\ Close(r)
    /\ lastPoll' = [lastPoll EXCEPT ![r] = NoPoll]
    /\ recent' = recent \ {r}
    /\ Answer(q)
    /\ UNCHANGED <<worker, due, artifactVars, repoVars, faults>>

(* The process dies, or the database drops the connection, between two commits. *)
Abort(q) ==
    /\ request[q].pc \notin {"new", "done"}
    /\ faults < MaxFaults
    /\ faults' = faults + 1
    /\ Answer(q)
    /\ UNCHANGED <<sourceVars, jobVars, worker, due, artifactVars, repoVars>>

-----------------------------------------------------------------------------
(* The ceremony and the delegation command *)

(* Repository.add_app: an operator with the offline keys publishes a targets
   file that delegates app-<a>. *)
AddApp(a) ==
    /\ a \notin delegated
    /\ delegated' = delegated \cup {a}
    /\ UNCHANGED <<sourceVars, jobVars, worker, due, request,
                   artifactVars, roles, current, faults>>

(* Mutant: delegate.py does not look at the published targets. *)
MarkDelegatedBlindly(r) ==
    /\ status[r] \in {"pending_delegation", "paused"}
    /\ Forge[r] = "github" => r \in identified
    /\ status' = [status EXCEPT ![r] = "active"]
    /\ UNCHANGED <<identified, critical, jobVars, worker, due, request,
                   artifactVars, repoVars, faults>>

(* delegate.py: read the published targets, then mark_delegated.  A delegation
   is never withdrawn, so nothing can come between the two. *)
MarkDelegated(r) ==
    /\ AppOf[r] \in delegated
    /\ status[r] \in {"pending_delegation", "paused"}
    /\ Forge[r] = "github" => r \in identified    \* CHECK on the sources table
    /\ status' = [status EXCEPT ![r] = "active"]
    /\ UNCHANGED <<identified, critical, jobVars, worker, due, request,
                   artifactVars, repoVars, faults>>

-----------------------------------------------------------------------------
(* Both workers: a tick, one commit per action *)

Step(w, pc) == worker' = [worker EXCEPT ![w].pc = pc]
Rest(w) == worker' = [worker EXCEPT ![w] = Idle]

(* Mutant: claim_job takes every kind of job unless told otherwise. *)
ClaimsAll(w) == JobKind
Claims(w) == IF w \in Ingesters THEN {"validate", "poll"} ELSE {"publish"}

DueForPoll == {r \in Rows : status[r] = "active" /\ ~HasOpen(r) /\ r \notin recent}

(* Mutant: nothing resets a job whose worker died. *)
TickWithoutReset(w) ==
    /\ worker[w].pc = "tick"
    /\ IF w \in Ingesters
       THEN due' = [due EXCEPT ![w] = DueForPoll] /\ Step(w, "schedule")
       ELSE Step(w, "claim") /\ UNCHANGED due
    /\ UNCHANGED <<sourceVars, jobVars, request, artifactVars, repoVars, faults>>

(* reset_stale_jobs, whatever the kind of the job, then (ingest) the query for
   the sources due for a poll. *)
Tick(w) ==
    /\ worker[w].pc = "tick"
    /\ open' = [r \in Rows |-> IF r \in aged THEN [open[r] EXCEPT !.state = "queued"]
                                             ELSE open[r]]
    /\ aged' = {}
    /\ IF w \in Ingesters
       THEN /\ due' = [due EXCEPT ![w] = DueForPoll]
            /\ Step(w, "schedule")
       ELSE /\ Step(w, "claim")
            /\ UNCHANGED due
    /\ UNCHANGED <<sourceVars, older, lastPoll, recent, request,
                   artifactVars, repoVars, faults>>

(* The scheduling loop, for one source.  The release feed is only a hint and may
   say anything: that nothing is newer than the last finished poll (then a
   finished poll is filed), or not, or fail (then a poll is queued). *)
ScheduleFull(w, r) ==
    /\ worker[w].pc = "schedule" /\ r \in due[w] /\ Exists(r)
    /\ due' = [due EXCEPT ![w] = @ \ {r}]
    /\ Enqueue(r, "poll", NoTag, {})
    /\ UNCHANGED <<sourceVars, lastPoll, recent, worker, request,
                   artifactVars, repoVars, faults>>

(* Mutants: the skips in a row are counted and not bounded, or not counted. *)
Skip(w, r, skips) ==
    /\ worker[w].pc = "schedule" /\ r \in due[w] /\ Exists(r)
    /\ lastPoll[r].tag # NoTag
    /\ due' = [due EXCEPT ![w] = @ \ {r}]
    /\ Enqueue(r, "poll", NoTag, {w})
    /\ worker' = IF HasOpen(r) THEN worker
                 ELSE [worker EXCEPT ![w] =
                         [pc |-> "file", row |-> r, kind |-> "poll",
                          tag |-> lastPoll[r].tag, skips |-> skips, promote |-> FALSE]]
    /\ UNCHANGED <<sourceVars, lastPoll, recent, request, artifactVars, repoVars, faults>>
ScheduleUnchangedUnbounded(w, r) == Skip(w, r, lastPoll[r].skips + 1)
ScheduleUnchangedUncounted(w, r) == Skip(w, r, 0)

ScheduleUnchanged(w, r) ==
    /\ worker[w].pc = "schedule" /\ r \in due[w] /\ Exists(r)
    /\ lastPoll[r].tag # NoTag
    /\ lastPoll[r].skips < MaxSkips
    /\ due' = [due EXCEPT ![w] = @ \ {r}]
    /\ Enqueue(r, "poll", NoTag, {w})
    /\ worker' = IF HasOpen(r) THEN worker
                 ELSE [worker EXCEPT ![w] =
                         [pc |-> "file", row |-> r, kind |-> "poll",
                          tag |-> lastPoll[r].tag, skips |-> lastPoll[r].skips + 1,
                          promote |-> FALSE]]
    /\ UNCHANGED <<sourceVars, lastPoll, recent, request,
                   artifactVars, repoVars, faults>>

(* The source was deleted since the query: the foreign key ends the tick. *)
ScheduleGone(w, r) ==
    /\ worker[w].pc = "schedule" /\ r \in due[w] /\ ~Exists(r)
    /\ due' = [due EXCEPT ![w] = {}]
    /\ Rest(w)
    /\ UNCHANGED <<sourceVars, jobVars, request, artifactVars, repoVars, faults>>

FileUnchanged(w) ==
    /\ worker[w].pc = "file"
    /\ FinishDone(w, FALSE)
    /\ worker' = [worker EXCEPT ![w] = NoWork("schedule")]
    /\ UNCHANGED <<sourceVars, due, request, artifactVars, repoVars, faults>>

ReadyToClaim(w) ==
    \/ w \in Ingesters /\ worker[w].pc = "schedule" /\ due[w] = {}
    \/ w \in Signers /\ worker[w].pc = "claim"

Claimable(w) == {r \in Rows : open[r].state = "queued" /\ open[r].kind \in Claims(w)}

ClaimJob(w, r) ==
    /\ ReadyToClaim(w)
    /\ r \in Claimable(w)
    /\ \A s \in Claimable(w) : <<s, r>> \notin older
    /\ open' = [open EXCEPT ![r].state = "running", ![r].holders = @ \cup {w}]
    /\ worker' = [worker EXCEPT ![w] = [pc |-> "run", row |-> r, kind |-> open[r].kind,
                                        tag |-> open[r].tag, skips |-> 0,
                                        promote |-> FALSE]]
    /\ UNCHANGED <<sourceVars, older, aged, lastPoll, recent, due, request,
                   artifactVars, repoVars, faults>>

ClaimNothing(w) ==
    /\ ReadyToClaim(w)
    /\ Claimable(w) = {}
    /\ Rest(w)
    /\ UNCHANGED <<sourceVars, jobVars, due, request, artifactVars, repoVars, faults>>

(* run_job finds that the source is gone.  So is the job: finish_job does nothing. *)
RunGone(w) ==
    /\ worker[w].pc = "run" /\ ~Exists(worker[w].row)
    /\ Rest(w)
    /\ UNCHANGED <<sourceVars, jobVars, due, request, artifactVars, repoVars, faults>>

(* The status is the one read when the job starts. *)
RunPollRefused(w) ==
    /\ worker[w].pc = "run" /\ Exists(worker[w].row)
    /\ worker[w].kind = "poll" /\ status[worker[w].row] # "active"
    /\ Step(w, "fail")
    /\ UNCHANGED <<sourceVars, jobVars, due, request, artifactVars, repoVars, faults>>

(* So is the custody, which the whole poll then goes by: PROMOTE or HOLD. *)
StartJob(w) ==
    LET r == worker[w].row IN
    /\ worker[w].pc = "run" /\ Exists(r)
    /\ worker[w].kind = "poll" => status[r] = "active"
    /\ worker' = [worker EXCEPT ![w].pc = "work",
                               ![w].promote = worker[w].kind = "poll" /\ r \notin critical]
    /\ UNCHANGED <<sourceVars, jobVars, due, request, artifactVars, repoVars, faults>>

Working(w, kind) == worker[w].pc = "work" /\ worker[w].kind = kind

-----------------------------------------------------------------------------
(* The ingest worker's jobs *)

(* do_validate: the forge knows the project and it has a release. *)
RunValidate(w) ==
    /\ Working(w, "validate")
    /\ Step(w, IF forge[worker[w].row] # NoTag THEN "identity" ELSE "fail")
    /\ UNCHANGED <<sourceVars, jobVars, due, request, artifactVars, repoVars, faults>>

(* do_poll: fetch the newest release into quarantine and decide.  A release
   without its attestation (yet) is rejected like a bad one; an offline keystore
   holds the release for a ceremony. *)
RunPoll(w, attested) ==
    LET r == worker[w].row
        t == forge[r]
        promote == t \in Good /\ attested /\ worker[w].promote
    IN  /\ Working(w, "poll")
        /\ attested \/ (t # NoTag /\ faults < MaxFaults)
        /\ faults' = IF attested THEN faults ELSE faults + 1
        /\ worker' = [worker EXCEPT ![w] = [pc |-> "finish", row |-> r, kind |-> "poll",
                                            tag |-> t, skips |-> 0, promote |-> promote]]
        /\ quarantined' = IF t = NoTag THEN quarantined ELSE quarantined \cup {<<r, t>>}
        /\ approved' = IF promote THEN approved \cup {<<r, t>>} ELSE approved
        /\ UNCHANGED <<sourceVars, jobVars, due, request, forge, repoVars>>

RecordIdentity(w) ==
    LET r == worker[w].row IN
    /\ worker[w].pc = "identity"
    /\ SetStatus(r, "pending_delegation")
    /\ identified' = IF Exists(r) THEN identified \cup {r} ELSE identified
    /\ Step(w, "finish")
    /\ UNCHANGED <<critical, jobVars, due, request, artifactVars, repoVars, faults>>

(* The audit row of the job, written just before, is read by no decision. *)
Finish(w) ==
    /\ worker[w].pc = "finish"
    /\ FinishDone(w, TRUE)
    /\ IF worker[w].kind = "poll" THEN Step(w, "handoff") ELSE Rest(w)
    /\ UNCHANGED <<sourceVars, due, request, artifactVars, repoVars, faults>>

Forget(w, r) == lastPoll' = [lastPoll EXCEPT ![r].holders = @ \ {w}]

(* Nothing to hand off, or a publish job for the artifact just approved: which
   enqueue drops without a word when another job opened since finish_job. *)
HandOffToSigner(w) ==
    LET r == worker[w].row IN
    /\ worker[w].pc = "handoff"
    /\ IF worker[w].promote
       THEN Enqueue(r, "publish", worker[w].tag, {})
       ELSE UNCHANGED <<open, older, aged>>
    /\ Rest(w)
    /\ Forget(w, r)
    /\ UNCHANGED <<sourceVars, recent, due, request, artifactVars, repoVars, faults>>

(* The source was deleted since: the foreign key refuses the publish job. *)
HandOffGone(w) ==
    /\ worker[w].pc = "handoff" /\ worker[w].promote /\ ~Exists(worker[w].row)
    /\ Step(w, "fail")
    /\ UNCHANGED <<sourceVars, jobVars, due, request, artifactVars, repoVars, faults>>

Fail(w) ==
    /\ worker[w].pc = "fail"
    /\ FinishFailed(w)
    /\ IF worker[w].kind = "validate" THEN Step(w, "invalid") ELSE Rest(w)
    /\ UNCHANGED <<sourceVars, due, request, artifactVars, repoVars, faults>>

SetInvalid(w) ==
    /\ worker[w].pc = "invalid"
    /\ SetStatus(worker[w].row, "invalid")
    /\ Rest(w)
    /\ UNCHANGED <<identified, critical, jobVars, due, request,
                   artifactVars, repoVars, faults>>

-----------------------------------------------------------------------------
(* The signing worker's job *)

(* do_publish: the artifact the payload names, under the role as cached at
   startup.  The status and custody of the source are not consulted. *)
Signable(w) ==
    LET r == worker[w].row
    IN  <<r, worker[w].tag>> \in quarantined /\ AppOf[r] \in roles[w]

(* Mutant: the signer takes what it finds in quarantine, not what the job names. *)
PublishFromQuarantine(w) ==
    LET r == worker[w].row IN
    /\ Working(w, "publish")
    /\ Signable(w)
    /\ \E t \in Tags : /\ <<r, t>> \in quarantined
                      /\ current' = [current EXCEPT ![AppOf[r]] = t]
    /\ Step(w, "finish")
    /\ UNCHANGED <<sourceVars, jobVars, due, request, artifactVars, delegated, roles, faults>>

Publish(w) ==
    /\ Working(w, "publish")
    /\ Signable(w)
    /\ current' = [current EXCEPT ![AppOf[worker[w].row]] = worker[w].tag]
    /\ Step(w, "finish")
    /\ UNCHANGED <<sourceVars, jobVars, due, request, artifactVars,
                   delegated, roles, faults>>

PublishRefused(w) ==
    /\ Working(w, "publish")
    /\ ~Signable(w)
    /\ Step(w, "fail")
    /\ UNCHANGED <<sourceVars, jobVars, due, request, artifactVars, repoVars, faults>>

-----------------------------------------------------------------------------
(* What can go wrong, and what happens outside *)

(* Any exception inside run_job's try: the forge, the keystore, a commit. *)
Raise(w) ==
    /\ worker[w].pc \in {"work", "identity", "finish", "handoff"}
    /\ faults < MaxFaults
    /\ faults' = faults + 1
    /\ Step(w, "fail")
    /\ UNCHANGED <<sourceVars, jobVars, due, request, artifactVars, repoVars>>

(* The process is killed and comes back, or an exception escapes the tick: the
   job in hand stays as it is.  A signer loads the delegated roles anew. *)
Crash(w) ==
    /\ worker[w].pc # "tick"
    /\ faults < MaxFaults
    /\ faults' = faults + 1
    /\ Rest(w)
    /\ open' = [r \in Rows |-> IF w \in open[r].holders
                              THEN [open[r] EXCEPT !.holders = @ \ {w}]
                              ELSE open[r]]
    /\ lastPoll' = [r \in Rows |-> [lastPoll[r] EXCEPT !.holders = @ \ {w}]]
    /\ due' = IF w \in Ingesters THEN [due EXCEPT ![w] = {}] ELSE due
    /\ \/ w \in Signers /\ roles' = [roles EXCEPT ![w] = delegated]
       \/ UNCHANGED roles
    /\ UNCHANGED <<sourceVars, older, aged, recent, request,
                   artifactVars, delegated, current>>

(* An operator restarts an idle signer, as after a ceremony. *)
RestartSigner(w) ==
    /\ worker[w].pc = "tick"
    /\ roles[w] # delegated
    /\ roles' = [roles EXCEPT ![w] = delegated]
    /\ UNCHANGED <<sourceVars, jobVars, worker, due, request,
                   artifactVars, delegated, current, faults>>

NewRelease(r) ==
    /\ forge[r] < MaxTag
    /\ forge' = [forge EXCEPT ![r] = @ + 1]
    /\ UNCHANGED <<sourceVars, jobVars, worker, due, request,
                   quarantined, approved, repoVars, faults>>

(* Thirty minutes have passed since the job was started. *)
JobAges(r) ==
    /\ open[r].state = "running"
    /\ r \notin aged
    /\ aged' = aged \cup {r}
    /\ UNCHANGED <<sourceVars, open, older, lastPoll, recent, worker, due, request,
                   artifactVars, repoVars, faults>>

(* Fifteen minutes have passed since the last poll of the source finished. *)
IntervalElapses(r) ==
    /\ r \in recent
    /\ recent' = recent \ {r}
    /\ UNCHANGED <<sourceVars, open, older, aged, lastPoll, worker, due, request,
                   artifactVars, repoVars, faults>>

-----------------------------------------------------------------------------
(* The specification *)

IngestStep(w) ==
    \/ Tick(w) \/ FileUnchanged(w) \/ ClaimNothing(w) \/ RunGone(w)
    \/ RunPollRefused(w) \/ StartJob(w) \/ RunValidate(w) \/ RunPoll(w, TRUE)
    \/ RecordIdentity(w) \/ Finish(w) \/ HandOffToSigner(w) \/ HandOffGone(w)
    \/ Fail(w) \/ SetInvalid(w)
    \/ \E r \in Rows : \/ ScheduleFull(w, r) \/ ScheduleUnchanged(w, r)
                       \/ ScheduleGone(w, r) \/ ClaimJob(w, r)

SignStep(w) ==
    \/ Tick(w) \/ ClaimNothing(w) \/ RunGone(w) \/ StartJob(w) \/ Publish(w) \/ PublishRefused(w)
    \/ Finish(w) \/ Fail(w)
    \/ \E r \in Rows : ClaimJob(w, r)

RequestStep(q) ==
    RequestEnqueue(q) \/ RequestSetStatus(q) \/ UpdateSource(q) \/ DeleteSource(q)

Operator ==
    \/ \E q \in Requests, r \in Rows :
          AddSource(q, r) \/ \E act \in Act \ {"create"} : ReadSource(q, r, act)
    \/ \E a \in Apps : AddApp(a)
    \/ \E r \in Rows : MarkDelegated(r)
    \/ \E w \in Signers : RestartSigner(w)

Faults ==
    \/ \E w \in Workers : Raise(w) \/ Crash(w)
    \/ \E w \in Ingesters : RunPoll(w, FALSE)
    \/ \E q \in Requests : Abort(q)

Time(r) == JobAges(r) \/ IntervalElapses(r)

Next ==
    \/ \E w \in Ingesters : IngestStep(w)
    \/ \E w \in Signers : SignStep(w)
    \/ \E q \in Requests : RequestStep(q)
    \/ \E r \in Rows : Time(r) \/ NewRelease(r)
    \/ Operator
    \/ Faults

Spec == Init /\ [][Next]_vars

(* The workers loop forever, a request that was begun goes on, and time passes.
   Nothing obliges an operator, a forge or a fault. *)
Fairness ==
    /\ \A w \in Ingesters : WF_vars(IngestStep(w))
    /\ \A w \in Signers : WF_vars(SignStep(w))
    /\ \A q \in Requests : WF_vars(RequestStep(q))
    /\ \A r \in Rows : WF_vars(JobAges(r)) /\ WF_vars(IntervalElapses(r))

FairSpec == Spec /\ Fairness

-----------------------------------------------------------------------------
(* Properties *)

Executing(w, r) == worker[w].row = r /\ worker[w].pc \in {"run", "work", "identity", "finish"}

(* A source is active only if the published targets delegate its application:
   no request, worker, reset or late write reaches active another way
   (store.set_status, store.mark_delegated, delegate.main). *)
ActiveWasDelegated == \A r \in Rows : status[r] = "active" => AppOf[r] \in delegated

(* Two workers never carry out the same source's work at once: a job requeued by
   reset_stale_jobs while its worker is merely slow is not run a second time, and
   no job is signed while another one of that source is fetched or validated. *)
OneWorkerPerSource ==
    \A r \in Rows, v, w \in Workers : Executing(v, r) /\ Executing(w, r) => v = w

(* finish_job, which goes by id alone, never closes a job that somebody else
   closed before: the job a worker carries out is still the open one of its
   source, unless the source was deleted. *)
ExecutorHoldsOpenJob ==
    \A r \in Rows, w \in Workers :
        Executing(w, r) /\ Exists(r) => w \in open[r].holders /\ open[r].kind = worker[w].kind

(* What the clients are pointed at was approved by the ingest policy, for a
   source of that application: quarantine also holds rejected artifacts, and
   the signer must never reach one of those (dist_sign.worker, "Decide what to
   sign"). *)
PublishedWasApproved ==
    \A a \in Apps : current[a] # NoTag =>
        \E r \in Rows : AppOf[r] = a /\ <<r, current[a]>> \in approved

(* The pointer of an application never goes back to an older release, whatever
   was requeued, retried or handed off late (one source per application: the
   tags of two projects do not compare). *)
CurrentNeverRegresses ==
    [][(\A r, s \in Rows : AppOf[r] = AppOf[s] => r = s)
         => \A a \in Apps : current'[a] >= current[a]]_vars

(* No source is wedged: an open job is closed in the end, whatever worker died
   with it (store.reset_stale_jobs: "permanently unpollable"). *)
JobsFinish == \A r \in Rows : HasOpen(r) ~> ~HasOpen(r)

(* A release that would be approved is what clients are pointed at in the end,
   if the source stays active and online-signed and the signer knows its role:
   even if its attestation was late, its hand-off was dropped, its publication
   failed or the release feed is stuck (MAX_CONSECUTIVE_SKIPS). *)
Servable(r) ==
    /\ status[r] = "active"
    /\ forge[r] \in Good
    /\ r \notin critical
    /\ \A w \in Signers : AppOf[r] \in roles[w]
ReleaseReachesClients ==
    \A r \in Rows : <>[]Servable(r) => <>[](current[AppOf[r]] = forge[r])

-----------------------------------------------------------------------------
(* What the repository says, and the code does not do *)

(* models.py, SourceStatus.VALIDATING: "A validation job is queued or running",
   so that a source does not stay in that state with nothing under way. *)
ValidatingEnds == \A r \in Rows : status[r] = "validating" ~> status[r] # "validating"
=============================================================================
