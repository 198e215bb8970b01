--------------------------- MODULE RegistryProofs ---------------------------
(***************************************************************************)
(* Theorems about Registry, for every set of sources, applications,        *)
(* workers and requests and every bound.                                   *)
(***************************************************************************)
EXTENDS Registry, TLAPS

USE DEF Workers, NoTag, sourceVars, jobVars, artifactVars, repoVars

-----------------------------------------------------------------------------
(* Types.  TypeOK becomes inductive with two facts: only a running job ages,
   and a process that is past choosing its source has one. *)

JobTypes == /\ open \in [Rows -> Job \cup {NoJob}]
            /\ older \in SUBSET (Rows \X Rows)
            /\ aged \in SUBSET Rows
            /\ \A r \in aged : open[r].state = "running"
PollTypes == /\ lastPoll \in [Rows -> PollRecord]
             /\ recent \in SUBSET Rows
Between == {"tick", "schedule", "claim"}
WorkerTypes == /\ worker \in [Workers -> WorkerState]
               /\ \A w \in Workers : worker[w].pc \notin Between =>
                     worker[w].row \in Rows /\ worker[w].kind \in JobKind
RequestTypes == /\ request \in [Requests -> RequestState]
                /\ \A q \in Requests : request[q].pc \notin {"new", "done"} =>
                                           request[q].row \in Rows
RestTypes == /\ status \in [Rows -> Status]
             /\ identified \in SUBSET Rows
             /\ critical \in SUBSET Rows
             /\ due \in [Ingesters -> SUBSET Rows]
             /\ forge \in [Rows -> 0..MaxTag]
             /\ quarantined \in SUBSET (Rows \X Tags)
             /\ approved \in SUBSET (Rows \X Tags)
             /\ delegated \in SUBSET Apps
             /\ roles \in [Signers -> SUBSET Apps]
             /\ current \in [Apps -> 0..MaxTag]
             /\ faults \in 0..MaxFaults

TypeInv == JobTypes /\ PollTypes /\ WorkerTypes /\ RequestTypes /\ RestTypes

LEMMA TypeInit == Init => TypeInv
<1> SUFFICES ASSUME Init PROVE TypeInv
  OBVIOUS
<1>1. JobTypes /\ PollTypes
  BY RegistryAssumption DEF Init, JobTypes, PollTypes, NoPoll, PollRecord, NoJob
<1>2. WorkerTypes /\ RequestTypes
  BY RegistryAssumption
  DEF Init, WorkerTypes, WorkerState, Pc, Between, Idle, NoWork, RequestTypes, RequestState
<1>3. RestTypes
  BY RegistryAssumption DEF Init, RestTypes, Status
<1> QED BY <1>1, <1>2, <1>3 DEF TypeInv

LEMMA TypeInvGivesTypeOK == TypeInv => TypeOK
  BY DEF TypeInv, TypeOK, JobTypes, PollTypes, WorkerTypes, RequestTypes, RestTypes

(* What an action leaves alone stays typed. *)
LEMMA Same ==
    /\ JobTypes /\ UNCHANGED <<open, older, aged>> => JobTypes'
    /\ PollTypes /\ UNCHANGED <<lastPoll, recent>> => PollTypes'
    /\ WorkerTypes /\ UNCHANGED worker => WorkerTypes'
    /\ RequestTypes /\ UNCHANGED request => RequestTypes'
    /\ RestTypes /\ UNCHANGED <<sourceVars, due, artifactVars, repoVars, faults>> => RestTypes'
<1>1. JobTypes /\ UNCHANGED <<open, older, aged>> => JobTypes'
  BY DEF JobTypes
<1>2. PollTypes /\ UNCHANGED <<lastPoll, recent>> => PollTypes'
  BY DEF PollTypes
<1>3. WorkerTypes /\ UNCHANGED worker => WorkerTypes'
  BY DEF WorkerTypes
<1>4. RequestTypes /\ UNCHANGED request => RequestTypes'
  BY DEF RequestTypes
<1>5. RestTypes /\ UNCHANGED <<sourceVars, due, artifactVars, repoVars, faults>> => RestTypes'
  BY DEF RestTypes
<1> QED BY <1>1, <1>2, <1>3, <1>4, <1>5

(* The statements of the store. *)
LEMMA EnqueueTypes ==
    ASSUME JobTypes, NEW r \in Rows, NEW kind \in JobKind, NEW tag \in 0..MaxTag,
           NEW holders \in SUBSET Workers, Enqueue(r, kind, tag, holders)
    PROVE  JobTypes'
  BY DEF JobTypes, Enqueue, HasOpen, Job, NoJob

LEMMA CloseTypes ==
    ASSUME JobTypes, NEW r \in Rows, Close(r)
    PROVE  JobTypes'
  BY DEF JobTypes, Close, Job, NoJob

LEMMA SetStatusTypes ==
    ASSUME status \in [Rows -> Status], NEW r \in Rows, NEW new \in Status,
           SetStatus(r, new)
    PROVE  status' \in [Rows -> Status]
  BY DEF SetStatus, Status

(* The steps of the programs. *)
LEMMA StepTypes ==
    ASSUME WorkerTypes, NEW w \in Workers, NEW pc \in Pc,
           pc \in Between \/ worker[w].pc \notin Between, Step(w, pc)
    PROVE  WorkerTypes'
  BY DEF WorkerTypes, WorkerState, Step, Between

LEMMA DecideTypes ==
    ASSUME WorkerTypes, NEW w \in Workers, worker[w].pc \notin Between,
           NEW t \in 0..MaxTag, NEW promote \in BOOLEAN,
           worker' = [worker EXCEPT ![w] = [pc |-> "finish", row |-> worker[w].row,
                        kind |-> "poll", tag |-> t, skips |-> 0, promote |-> promote]]
    PROVE  WorkerTypes'
  BY RegistryAssumption DEF WorkerTypes, WorkerState, Pc, JobKind

LEMMA RestingTypes ==
    ASSUME WorkerTypes, NEW w \in Workers, Rest(w)
    PROVE  WorkerTypes'
  BY RegistryAssumption DEF WorkerTypes, WorkerState, Rest, Idle, NoWork, Between, Pc

LEMMA AnswerTypes ==
    ASSUME RequestTypes, NEW q \in Requests, Answer(q)
    PROVE  RequestTypes'
  BY DEF RequestTypes, RequestState, Answer, Done

(* A worker that lets go of its job. *)
LEMMA FinishTypes ==
    ASSUME JobTypes, PollTypes, WorkerTypes,
           NEW w \in Workers, worker[w].pc \notin Between,
           \/ \E keep \in BOOLEAN : FinishDone(w, keep)
           \/ FinishFailed(w)
    PROVE  JobTypes' /\ PollTypes'
<1> DEFINE r == worker[w].row
<1>1. r \in Rows /\ worker[w] \in WorkerState
  BY DEF WorkerTypes
<1>2. CloseOwnJob(w)
  BY DEF FinishDone, FinishFailed
<1>3. JobTypes'
  <2>1. CASE w \in open[r].holders
    BY <1>1, <1>2, <2>1, CloseTypes DEF CloseOwnJob
  <2>2. CASE w \notin open[r].holders
    BY <1>1, <1>2, <2>2 DEF CloseOwnJob, JobTypes
  <2> QED BY <2>1, <2>2
<1>4. open[r].holders \in SUBSET Workers /\ lastPoll[r].holders \in SUBSET Workers
  BY <1>1 DEF JobTypes, Job, NoJob, PollTypes, PollRecord
<1>5. ASSUME NEW keep \in BOOLEAN, FinishDone(w, keep)
      PROVE  PollTypes'
  <2> DEFINE holders == CASE w \in open[r].holders -> open[r].holders
                          [] w \in lastPoll[r].holders -> lastPoll[r].holders
                          [] OTHER -> {w}
             kept == IF keep THEN holders ELSE holders \ {w}
             record == [tag |-> worker[w].tag, skips |-> worker[w].skips, holders |-> kept]
  <2>1. holders \in SUBSET Workers
    BY <1>4
  <2>2. record \in PollRecord
    BY <1>1, <2>1 DEF PollRecord, WorkerState
  <2>3. \/ lastPoll' = [lastPoll EXCEPT ![r] = record] /\ recent' = recent \cup {r}
        \/ UNCHANGED <<recent, lastPoll>>
    BY <1>5 DEF FinishDone
  <2> QED BY <1>1, <2>2, <2>3 DEF PollTypes
<1>6. ASSUME FinishFailed(w)
      PROVE  PollTypes'
  <2>1. \/ /\ recent' = recent \cup {r}
           /\ \E t \in 0..MaxTag, k \in 0..MaxSkips :
                 lastPoll' = [lastPoll EXCEPT ![r] = [tag |-> t, skips |-> k, holders |-> {}]]
        \/ recent' = recent \cup {r} /\ UNCHANGED lastPoll
        \/ UNCHANGED <<recent, lastPoll>>
    BY <1>6 DEF FinishFailed
  <2>2. ASSUME NEW t \in 0..MaxTag, NEW k \in 0..MaxSkips
        PROVE  [tag |-> t, skips |-> k, holders |-> {}] \in PollRecord
    BY DEF PollRecord
  <2>3. \/ \E record \in PollRecord : /\ recent' = recent \cup {r}
                                       /\ lastPoll' = [lastPoll EXCEPT ![r] = record]
        \/ recent' \in {recent, recent \cup {r}} /\ UNCHANGED lastPoll
    BY <2>1, <2>2
  <2> QED BY <1>1, <2>3 DEF PollTypes
<1> QED BY <1>3, <1>5, <1>6

LEMMA RequestStepTypes ==
    ASSUME TypeInv, NEW q \in Requests, RequestStep(q) \/ Abort(q)
    PROVE  TypeInv'
<1>1. CASE RequestEnqueue(q)
  <2>1. JobTypes'
    BY <1>1, RegistryAssumption
    DEF TypeInv, RequestEnqueue, JobTypes, RequestTypes, JobKind, Job, NoJob,
        Enqueue, HasOpen
  <2>2. RequestTypes'
    BY <1>1, AnswerTypes DEF TypeInv, RequestEnqueue, RequestTypes, Goto, RequestState
  <2> QED
    BY <1>1, <2>1, <2>2, Same DEF TypeInv, RequestEnqueue
<1>2. CASE RequestSetStatus(q)
  <2>1. RequestTypes'
    BY <1>2, AnswerTypes DEF TypeInv, RequestSetStatus, RequestTypes
  <2>2. status' \in [Rows -> Status]
    BY <1>2, SetStatusTypes
    DEF TypeInv, RequestSetStatus, RequestTypes, RestTypes, Status, Live
  <2>3. RestTypes'
    BY <1>2, <2>2 DEF TypeInv, RequestSetStatus, RestTypes
  <2> QED
    BY <1>2, <2>1, <2>2, <2>3, Same DEF TypeInv, RequestSetStatus
<1>3. CASE UpdateSource(q)
  <2>1. RequestTypes'
    BY <1>3, AnswerTypes DEF TypeInv, UpdateSource, RequestTypes
  <2>2. RestTypes'
    BY <1>3 DEF TypeInv, UpdateSource, RestTypes, RequestTypes
  <2> QED
    BY <1>3, <2>1, <2>2, Same DEF TypeInv, UpdateSource
<1>4. CASE DeleteSource(q)
  <2>1. RequestTypes'
    BY <1>4, AnswerTypes DEF TypeInv, DeleteSource, RequestTypes
  <2>2. JobTypes'
    BY <1>4, CloseTypes DEF TypeInv, DeleteSource, JobTypes, RequestTypes
  <2>3. NoPoll \in PollRecord
    BY <1>4, RegistryAssumption DEF TypeInv, DeleteSource, NoPoll, PollRecord
  <2>4. PollTypes'
    BY <1>4, <2>3 DEF TypeInv, DeleteSource, PollTypes
  <2>5. status' \in [Rows -> Status]
    BY <1>4, SetStatusTypes
    DEF TypeInv, DeleteSource, RequestTypes, RestTypes, Status, Live
  <2>6. RestTypes'
    BY <1>4, <2>5 DEF TypeInv, DeleteSource, RestTypes
  <2> QED
    BY <1>4, <2>1, <2>2, <2>3, <2>4, <2>5, <2>6, Same DEF TypeInv, DeleteSource
<1>5. CASE Abort(q)
  <2>1. RequestTypes'
    BY <1>5, AnswerTypes DEF TypeInv, Abort, RequestTypes
  <2>2. RestTypes'
    BY <1>5, RegistryAssumption DEF TypeInv, Abort, RestTypes
  <2> QED
    BY <1>5, <2>1, <2>2, Same DEF TypeInv, Abort
<1> QED BY <1>1, <1>2, <1>3, <1>4, <1>5 DEF RequestStep

LEMMA OperatorTypes ==
    ASSUME TypeInv, Operator
    PROVE  TypeInv'
<1>1. CASE \E q \in Requests, r \in Rows : AddSource(q, r)
  <2> SUFFICES ASSUME NEW q \in Requests, NEW r \in Rows, AddSource(q, r) PROVE TypeInv'
    BY <1>1
  <2>1. RequestTypes'
    BY DEF TypeInv, AddSource, RequestTypes, RequestState, Act
  <2>2. RestTypes'
    BY DEF TypeInv, AddSource, RestTypes, Status, Live
  <2> QED
    BY <2>1, <2>2, Same DEF TypeInv, AddSource
<1>2. CASE \E q \in Requests, r \in Rows, act \in Act \ {"create"} : ReadSource(q, r, act)
  <2> SUFFICES ASSUME NEW q \in Requests, NEW r \in Rows, NEW act \in Act \
      {"create"}, ReadSource(q, r, act) PROVE TypeInv'
    BY <1>2
  <2>1. RequestTypes'
    BY DEF TypeInv, ReadSource, RequestTypes, RequestState, Act
  <2> QED
    BY <2>1, Same DEF TypeInv, ReadSource
<1>3. CASE \E a \in Apps : AddApp(a)
  <2> SUFFICES ASSUME NEW a \in Apps, AddApp(a) PROVE TypeInv'
    BY <1>3
  <2>1. RestTypes'
    BY DEF TypeInv, AddApp, RestTypes
  <2> QED
    BY <2>1, Same DEF TypeInv, AddApp
<1>4. CASE \E r \in Rows : MarkDelegated(r)
  <2> SUFFICES ASSUME NEW r \in Rows, MarkDelegated(r) PROVE TypeInv'
    BY <1>4
  <2>1. RestTypes'
    BY DEF TypeInv, MarkDelegated, RestTypes, Status, Live
  <2> QED
    BY <2>1, Same DEF TypeInv, MarkDelegated
<1>5. CASE \E w \in Signers : RestartSigner(w)
  <2> SUFFICES ASSUME NEW w \in Signers, RestartSigner(w) PROVE TypeInv'
    BY <1>5
  <2>1. RestTypes'
    BY DEF TypeInv, RestartSigner, RestTypes
  <2> QED
    BY <2>1, Same DEF TypeInv, RestartSigner
<1> QED BY <1>1, <1>2, <1>3, <1>4, <1>5 DEF Operator

LEMMA OutsideTypes ==
    ASSUME TypeInv, NEW r \in Rows, Time(r) \/ NewRelease(r)
    PROVE  TypeInv'
<1>1. CASE JobAges(r)
  <2>1. JobTypes'
    BY <1>1 DEF TypeInv, JobAges, JobTypes
  <2> QED
    BY <1>1, <2>1, Same DEF TypeInv, JobAges
<1>2. CASE IntervalElapses(r)
  <2>1. PollTypes'
    BY <1>2 DEF TypeInv, IntervalElapses, PollTypes
  <2> QED
    BY <1>2, <2>1, Same DEF TypeInv, IntervalElapses
<1>3. CASE NewRelease(r)
  <2>1. RestTypes'
    BY <1>3, RegistryAssumption DEF TypeInv, NewRelease, RestTypes
  <2> QED
    BY <1>3, <2>1, Same DEF TypeInv, NewRelease
<1> QED BY <1>1, <1>2, <1>3 DEF Time

(* The steps both kinds of worker take, and those of one kind alone. *)
Common(w) == \/ Tick(w) \/ ClaimNothing(w) \/ RunGone(w) \/ StartJob(w)
             \/ Finish(w) \/ Fail(w) \/ Raise(w) \/ Crash(w)
             \/ \E r \in Rows : ClaimJob(w, r)
IngestOnly(w) == \/ FileUnchanged(w) \/ RunPollRefused(w) \/ RunValidate(w)
                 \/ RecordIdentity(w) \/ HandOffToSigner(w) \/ HandOffGone(w) \/ SetInvalid(w)
                 \/ \E attested \in BOOLEAN : RunPoll(w, attested)
                 \/ \E r \in Rows : \/ ScheduleFull(w, r) \/ ScheduleUnchanged(w, r)
                                    \/ ScheduleGone(w, r)
SignOnly(w) == Publish(w) \/ PublishRefused(w)

LEMMA CommonTypes ==
    ASSUME TypeInv, NEW w \in Workers, Common(w)
    PROVE  TypeInv'
<1>1. CASE Tick(w)
  <2>1. JobTypes'
    BY <1>1 DEF TypeInv, Tick, JobTypes, Job, NoJob
  <2>2. WorkerTypes'
    BY <1>1, StepTypes DEF TypeInv, Tick, Between, Pc
  <2>3. RestTypes'
    BY <1>1 DEF TypeInv, Tick, RestTypes, DueForPoll
  <2> QED
    BY <1>1, <2>1, <2>2, <2>3, Same DEF TypeInv, Tick
<1>2. CASE \E r \in Rows : ClaimJob(w, r)
  <2> SUFFICES ASSUME NEW r \in Rows, ClaimJob(w, r) PROVE TypeInv'
    BY <1>2
  <2>1. open[r] \in Job /\ open[r].state = "queued"
    BY DEF TypeInv, ClaimJob, JobTypes, Claimable, Claims, NoJob
  <2>2. JobTypes'
    BY <2>1 DEF TypeInv, ClaimJob, JobTypes, Job
  <2>3. WorkerTypes'
    BY RegistryAssumption, <2>1
    DEF TypeInv, ClaimJob, WorkerTypes, WorkerState, Between, Pc, Job
  <2> QED
    BY <2>1, <2>2, <2>3, Same DEF TypeInv, ClaimJob
<1>3. CASE ClaimNothing(w)
  <2>1. WorkerTypes'
    BY <1>3, RestingTypes DEF TypeInv, ClaimNothing
  <2> QED
    BY <1>3, <2>1, Same DEF TypeInv, ClaimNothing
<1>4. CASE RunGone(w)
  <2>1. WorkerTypes'
    BY <1>4, RestingTypes DEF TypeInv, RunGone
  <2> QED
    BY <1>4, <2>1, Same DEF TypeInv, RunGone
<1>5. CASE StartJob(w)
  <2>1. WorkerTypes'
    BY <1>5 DEF TypeInv, StartJob, WorkerTypes, WorkerState, Between, Pc
  <2> QED
    BY <1>5, <2>1, Same DEF TypeInv, StartJob
<1>6. CASE Finish(w)
  <2>1. JobTypes' /\ PollTypes'
    BY <1>6, FinishTypes DEF TypeInv, Finish, Between
  <2>2. WorkerTypes'
    BY <1>6, StepTypes, RestingTypes DEF TypeInv, Finish, Between, Pc
  <2> QED
    BY <1>6, <2>1, <2>2, Same DEF TypeInv, Finish
<1>7. CASE Fail(w)
  <2>1. JobTypes' /\ PollTypes'
    BY <1>7, FinishTypes DEF TypeInv, Fail, Between
  <2>2. WorkerTypes'
    BY <1>7, StepTypes, RestingTypes DEF TypeInv, Fail, Between, Pc
  <2> QED
    BY <1>7, <2>1, <2>2, Same DEF TypeInv, Fail
<1>8. CASE Raise(w)
  <2>1. WorkerTypes'
    BY <1>8, StepTypes DEF TypeInv, Raise, Between, Pc
  <2>2. RestTypes'
    BY <1>8, RegistryAssumption DEF TypeInv, Raise, RestTypes
  <2> QED
    BY <1>8, <2>1, <2>2, Same DEF TypeInv, Raise
<1>9. CASE Crash(w)
  <2>1. JobTypes'
    BY <1>9 DEF TypeInv, Crash, JobTypes, Job, NoJob
  <2>2. PollTypes'
    BY <1>9 DEF TypeInv, Crash, PollTypes, PollRecord
  <2>3. WorkerTypes'
    BY <1>9, RestingTypes DEF TypeInv, Crash
  <2>4. RestTypes'
    BY <1>9, RegistryAssumption DEF TypeInv, Crash, RestTypes
  <2> QED
    BY <1>9, <2>1, <2>2, <2>3, <2>4, Same DEF TypeInv, Crash
<1> QED BY <1>1, <1>2, <1>3, <1>4, <1>5, <1>6, <1>7, <1>8, <1>9 DEF Common

LEMMA IngestTypes ==
    ASSUME TypeInv, NEW w \in Ingesters, IngestOnly(w)
    PROVE  TypeInv'
<1>1. CASE \E r \in Rows : ScheduleFull(w, r)
  <2> SUFFICES ASSUME NEW r \in Rows, ScheduleFull(w, r) PROVE TypeInv'
    BY <1>1
  <2>1. JobTypes'
    BY RegistryAssumption
    DEF TypeInv, ScheduleFull, JobTypes, Job, NoJob, Enqueue, HasOpen, JobKind
  <2>2. RestTypes'
    BY DEF TypeInv, ScheduleFull, RestTypes
  <2> QED
    BY <2>1, <2>2, Same DEF TypeInv, ScheduleFull
<1>2. CASE \E r \in Rows : ScheduleUnchanged(w, r)
  <2> SUFFICES ASSUME NEW r \in Rows, ScheduleUnchanged(w, r) PROVE TypeInv'
    BY <1>2
  <2>1. JobTypes'
    BY RegistryAssumption
    DEF TypeInv, ScheduleUnchanged, JobTypes, Job, NoJob, Enqueue, HasOpen, JobKind
  <2>2. [pc |-> "file", row |-> r, kind |-> "poll", tag |-> lastPoll[r].tag, skips
      |-> lastPoll[r].skips + 1, promote |-> FALSE] \in WorkerState
    BY RegistryAssumption
    DEF TypeInv, ScheduleUnchanged, PollTypes, PollRecord, WorkerState, Pc, JobKind
  <2>3. WorkerTypes'
    BY <2>2 DEF TypeInv, ScheduleUnchanged, WorkerTypes, Between, JobKind
  <2>4. RestTypes'
    BY DEF TypeInv, ScheduleUnchanged, RestTypes
  <2> QED
    BY <2>1, <2>2, <2>3, <2>4, Same DEF TypeInv, ScheduleUnchanged
<1>3. CASE \E r \in Rows : ScheduleGone(w, r)
  <2> SUFFICES ASSUME NEW r \in Rows, ScheduleGone(w, r) PROVE TypeInv'
    BY <1>3
  <2>1. WorkerTypes'
    BY RestingTypes DEF TypeInv, ScheduleGone
  <2>2. RestTypes'
    BY DEF TypeInv, ScheduleGone, RestTypes
  <2> QED
    BY <2>1, <2>2, Same DEF TypeInv, ScheduleGone
<1>4. CASE FileUnchanged(w)
  <2>1. JobTypes' /\ PollTypes'
    BY <1>4, FinishTypes DEF TypeInv, FileUnchanged, Between
  <2>2. WorkerTypes'
    BY <1>4, RegistryAssumption
    DEF TypeInv, FileUnchanged, WorkerTypes, WorkerState, Between, Pc, NoWork
  <2> QED
    BY <1>4, <2>1, <2>2, Same DEF TypeInv, FileUnchanged
<1>5. CASE RunPollRefused(w)
  <2>1. WorkerTypes'
    BY <1>5, StepTypes DEF TypeInv, RunPollRefused, Between, Pc
  <2> QED
    BY <1>5, <2>1, Same DEF TypeInv, RunPollRefused
<1>6. CASE RunValidate(w)
  <2>1. WorkerTypes'
    BY <1>6, StepTypes DEF TypeInv, RunValidate, Between, Pc, Working
  <2> QED
    BY <1>6, <2>1, Same DEF TypeInv, RunValidate
<1>7. CASE \E attested \in BOOLEAN : RunPoll(w, attested)
  <2> SUFFICES ASSUME NEW attested \in BOOLEAN, RunPoll(w, attested) PROVE TypeInv'
    BY <1>7
  <2>1. worker[w].row \in Rows
    BY DEF TypeInv, RunPoll, WorkerTypes, Working, Between
  <2>2. forge[worker[w].row] \in 0..MaxTag
    BY <2>1 DEF TypeInv, RunPoll, RestTypes
  <2>3. (forge[worker[w].row] \in Good /\ attested /\ worker[w].promote) \in BOOLEAN
    BY DEF TypeInv, RunPoll
  <2>4. worker[w].pc = "work" /\ \E t \in 0..MaxTag, promote \in BOOLEAN : worker' =
      [worker EXCEPT ![w] = [pc |-> "finish", row |-> worker[w].row, kind |->
      "poll", tag |-> t, skips |-> 0, promote |-> promote]]
    BY <2>2, <2>3 DEF TypeInv, RunPoll, Working
  <2>5. WorkerTypes'
    BY <2>4, DecideTypes DEF TypeInv, Between
  <2>6. quarantined' \in SUBSET (Rows \X Tags) /\ approved' \in SUBSET (Rows \X Tags)
    BY RegistryAssumption, <2>1, <2>2 DEF TypeInv, RunPoll, RestTypes, Tags
  <2>7. RestTypes'
    BY RegistryAssumption, <2>6 DEF TypeInv, RunPoll, RestTypes
  <2> QED
    BY <2>1, <2>2, <2>3, <2>4, <2>5, <2>6, <2>7, Same DEF TypeInv, RunPoll
<1>8. CASE RecordIdentity(w)
  <2>1. WorkerTypes'
    BY <1>8, StepTypes DEF TypeInv, RecordIdentity, Between, Pc
  <2>2. status' \in [Rows -> Status]
    BY <1>8, SetStatusTypes
    DEF TypeInv, RecordIdentity, WorkerTypes, Between, RestTypes, Status, Live
  <2>3. RestTypes'
    BY <1>8, <2>2 DEF TypeInv, RecordIdentity, RestTypes, WorkerTypes, Between
  <2> QED
    BY <1>8, <2>1, <2>2, <2>3, Same DEF TypeInv, RecordIdentity
<1>9. CASE HandOffToSigner(w)
  <2>1. worker[w].row \in Rows /\ worker[w].tag \in 0..MaxTag
    BY <1>9 DEF TypeInv, HandOffToSigner, WorkerTypes, WorkerState, Between
  <2>2. JobTypes'
    BY <1>9, <2>1
    DEF TypeInv, HandOffToSigner, JobTypes, Job, NoJob, Enqueue, HasOpen, JobKind
  <2>3. PollTypes'
    BY <1>9, <2>1 DEF TypeInv, HandOffToSigner, PollTypes, Forget, PollRecord
  <2>4. WorkerTypes'
    BY <1>9, RestingTypes DEF TypeInv, HandOffToSigner
  <2> QED
    BY <1>9, <2>1, <2>2, <2>3, <2>4, Same DEF TypeInv, HandOffToSigner
<1>10. CASE HandOffGone(w)
  <2>1. WorkerTypes'
    BY <1>10, StepTypes DEF TypeInv, HandOffGone, Between, Pc
  <2> QED
    BY <1>10, <2>1, Same DEF TypeInv, HandOffGone
<1>11. CASE SetInvalid(w)
  <2>1. WorkerTypes'
    BY <1>11, RestingTypes DEF TypeInv, SetInvalid
  <2>2. status' \in [Rows -> Status]
    BY <1>11, SetStatusTypes
    DEF TypeInv, SetInvalid, WorkerTypes, Between, RestTypes, Status, Live
  <2>3. RestTypes'
    BY <1>11, <2>2 DEF TypeInv, SetInvalid, RestTypes
  <2> QED
    BY <1>11, <2>1, <2>2, <2>3, Same DEF TypeInv, SetInvalid
<1> QED BY <1>1, <1>2, <1>3, <1>4, <1>5, <1>6, <1>7, <1>8, <1>9, <1>10, <1>11 DEF IngestOnly

LEMMA SignTypes ==
    ASSUME TypeInv, NEW w \in Signers, SignOnly(w)
    PROVE  TypeInv'
<1>1. CASE Publish(w)
  <2>1. WorkerTypes'
    BY <1>1, StepTypes DEF TypeInv, Publish, Between, Pc, Working
  <2>2. RestTypes'
    BY <1>1 DEF TypeInv, Publish, RestTypes, WorkerTypes, WorkerState
  <2> QED
    BY <1>1, <2>1, <2>2, Same DEF TypeInv, Publish
<1>2. CASE PublishRefused(w)
  <2>1. WorkerTypes'
    BY <1>2, StepTypes DEF TypeInv, PublishRefused, Between, Pc, Working
  <2> QED
    BY <1>2, <2>1, Same DEF TypeInv, PublishRefused
<1> QED BY <1>1, <1>2 DEF SignOnly

LEMMA NextCases ==
    ASSUME [Next]_vars
    PROVE  \/ UNCHANGED vars
           \/ Operator
           \/ \E q \in Requests : RequestStep(q) \/ Abort(q)
           \/ \E r \in Rows : Time(r) \/ NewRelease(r)
           \/ \E w \in Workers : Common(w)
           \/ \E w \in Ingesters : IngestOnly(w)
           \/ \E w \in Signers : SignOnly(w)
  BY DEF Next, IngestStep, SignStep, Faults, Common, IngestOnly, SignOnly

LEMMA TypeStep == TypeInv /\ [Next]_vars => TypeInv'
<1> SUFFICES ASSUME TypeInv, [Next]_vars PROVE TypeInv'
  OBVIOUS
<1>1. CASE UNCHANGED vars
  BY <1>1, Same DEF vars, TypeInv
<1> QED
  BY <1>1, NextCases, OperatorTypes, RequestStepTypes, OutsideTypes, CommonTypes,
     IngestTypes, SignTypes

(* Every state of the registry and of its processes has its type: in particular
   the skips in a row never exceed MAX_CONSECUTIVE_SKIPS. *)
THEOREM TypeCorrect == Spec => []TypeOK
<1>1. Spec => []TypeInv
  BY TypeInit, TypeStep, PTL DEF Spec
<1> QED BY <1>1, TypeInvGivesTypeOK, PTL

-----------------------------------------------------------------------------
(* A source that is active has its delegation *)

LEMMA DelegatedStep ==
    ASSUME TypeInv, ActiveWasDelegated, [Next]_vars
    PROVE  ActiveWasDelegated'
<1> DEFINE Kept == /\ delegated \subseteq delegated'
                   /\ \A r \in Rows : status'[r] = "active" =>
                         status[r] = "active" \/ AppOf[r] \in delegated'
<1>1. CASE UNCHANGED vars
  BY <1>1 DEF vars, ActiveWasDelegated
<1>2. ASSUME Operator
      PROVE  Kept
  BY <1>2 DEF Operator, AddSource, ReadSource, AddApp, MarkDelegated, RestartSigner,
     TypeInv, RestTypes
<1>3. ASSUME NEW q \in Requests, RequestStep(q) \/ Abort(q)
      PROVE  Kept
  BY <1>3 DEF RequestStep, RequestEnqueue, RequestSetStatus, UpdateSource, DeleteSource,
     Abort, SetStatus, TypeInv, RestTypes
<1>4. ASSUME NEW r \in Rows, Time(r) \/ NewRelease(r)
      PROVE  Kept
  BY <1>4 DEF Time, JobAges, IntervalElapses, NewRelease
<1>5. ASSUME NEW w \in Workers, Common(w)
      PROVE  Kept
  BY <1>5 DEF Common, Tick, ClaimNothing, RunGone, StartJob, Finish, Fail, Raise, Crash,
     ClaimJob
<1>6. ASSUME NEW w \in Ingesters, IngestOnly(w)
      PROVE  Kept
  BY <1>6 DEF IngestOnly, FileUnchanged, RunPollRefused, RunValidate, RecordIdentity,
     HandOffToSigner, HandOffGone, SetInvalid, RunPoll, ScheduleFull, ScheduleUnchanged,
     ScheduleGone, SetStatus, TypeInv, RestTypes
<1>7. ASSUME NEW w \in Signers, SignOnly(w)
      PROVE  Kept
  BY <1>7 DEF SignOnly, Publish, PublishRefused
<1>8. Kept \/ UNCHANGED vars
  BY <1>2, <1>3, <1>4, <1>5, <1>6, <1>7, NextCases
<1> QED BY <1>1, <1>8 DEF ActiveWasDelegated, vars

(* No interleaving of requests, validations, resets and late writes makes a
   source active whose application the published targets do not delegate. *)
THEOREM ActiveIsDelegated == Spec => []ActiveWasDelegated
<1>1. Init => ActiveWasDelegated
  BY DEF Init, ActiveWasDelegated
<1>2. Spec => []TypeInv
  BY TypeInit, TypeStep, PTL DEF Spec
<1>3. TypeInv /\ ActiveWasDelegated /\ [Next]_vars => ActiveWasDelegated'
  BY DelegatedStep
<1> QED BY <1>1, <1>2, <1>3, PTL DEF Spec

-----------------------------------------------------------------------------
(* What is published was approved.  The tag travels from the decision to the
   hand-off, from there to the open job of the source, and from the job to the
   signer: at each place it is the tag of an approved artifact. *)

OpenApproved ==
    \A r \in Rows : open[r].kind = "publish" => <<r, open[r].tag>> \in approved
WorkApproved ==
    \A w \in Workers :
        /\ worker[w].promote => worker[w].kind = "poll"
        /\ \/ worker[w].kind = "publish"
           \/ worker[w].promote /\ worker[w].pc \in {"identity", "finish", "handoff"}
           => <<worker[w].row, worker[w].tag>> \in approved

Approved == OpenApproved /\ WorkApproved /\ PublishedWasApproved

LEMMA SameApproved ==
    /\ OpenApproved /\ UNCHANGED <<open, approved>> => OpenApproved'
    /\ WorkApproved /\ UNCHANGED <<worker, approved>> => WorkApproved'
    /\ PublishedWasApproved /\ UNCHANGED <<current, approved>> => PublishedWasApproved'
  BY DEF OpenApproved, WorkApproved, PublishedWasApproved

LEMMA StepApproved ==
    ASSUME WorkerTypes, WorkApproved, NEW w \in Workers, NEW pc \in Pc, Step(w, pc),
           UNCHANGED approved,
           \/ pc \notin {"identity", "finish", "handoff"}
           \/ worker[w].pc \in {"identity", "finish", "handoff"}
           \/ worker[w].kind # "poll"
    PROVE  WorkApproved'
  BY DEF WorkerTypes, WorkerState, WorkApproved, Step

LEMMA RestingApproved ==
    ASSUME WorkerTypes, WorkApproved, NEW w \in Workers, Rest(w), UNCHANGED approved
    PROVE  WorkApproved'
  BY DEF WorkerTypes, WorkApproved, Rest, Idle, NoWork

LEMMA EnqueueApproved ==
    ASSUME JobTypes, OpenApproved, NEW r \in Rows, NEW kind \in JobKind, NEW tag, NEW holders,
           kind = "publish" => <<r, tag>> \in approved,
           Enqueue(r, kind, tag, holders), UNCHANGED approved
    PROVE  OpenApproved'
  BY DEF JobTypes, OpenApproved, Enqueue, HasOpen

LEMMA CloseApproved ==
    ASSUME JobTypes, OpenApproved, NEW r \in Rows,
           Close(r) \/ UNCHANGED open, UNCHANGED approved
    PROVE  OpenApproved'
  BY DEF JobTypes, OpenApproved, Close, NoJob

LEMMA RequestsApproved ==
    ASSUME TypeInv, Approved, NEW q \in Requests, RequestStep(q) \/ Abort(q)
    PROVE  Approved'
<1>1. CASE RequestEnqueue(q)
  <2>1. OpenApproved'
    BY <1>1, EnqueueApproved, SameApproved
    DEF Approved, RequestEnqueue, TypeInv, RequestTypes, JobKind
  <2> QED
    BY <1>1, <2>1, SameApproved DEF Approved, RequestEnqueue
<1>2. CASE RequestSetStatus(q)
  <2> QED
    BY <1>2, SameApproved DEF Approved, RequestSetStatus
<1>3. CASE UpdateSource(q)
  <2> QED
    BY <1>3, SameApproved DEF Approved, UpdateSource
<1>4. CASE DeleteSource(q)
  <2>1. OpenApproved'
    BY <1>4, CloseApproved DEF Approved, DeleteSource, TypeInv, RequestTypes
  <2> QED
    BY <1>4, <2>1, SameApproved DEF Approved, DeleteSource
<1>5. CASE Abort(q)
  <2> QED
    BY <1>5, SameApproved DEF Approved, Abort
<1> QED BY <1>1, <1>2, <1>3, <1>4, <1>5 DEF RequestStep

LEMMA OthersApproved ==
    ASSUME Approved, \/ Operator \/ \E r \in Rows : Time(r) \/ NewRelease(r)
    PROVE  Approved'
  BY SameApproved
  DEF Approved, Operator, AddSource, ReadSource, AddApp, MarkDelegated, RestartSigner,
      Time, JobAges, IntervalElapses, NewRelease

LEMMA CommonApproved ==
    ASSUME TypeInv, Approved, NEW w \in Workers, Common(w)
    PROVE  Approved'
<1>1. CASE Tick(w)
  <2>1. OpenApproved'
    BY <1>1 DEF Approved, Tick, OpenApproved, TypeInv, JobTypes
  <2>2. WorkApproved'
    BY <1>1, StepApproved DEF Approved, Tick, TypeInv, Pc
  <2> QED
    BY <1>1, <2>1, <2>2, SameApproved DEF Approved, Tick
<1>2. CASE \E r \in Rows : ClaimJob(w, r)
  <2> SUFFICES ASSUME NEW r \in Rows, ClaimJob(w, r) PROVE Approved'
    BY <1>2
  <2>1. OpenApproved'
    BY DEF Approved, ClaimJob, OpenApproved, TypeInv, JobTypes
  <2>2. WorkApproved'
    BY DEF Approved, ClaimJob, OpenApproved, WorkApproved, TypeInv, WorkerTypes
  <2> QED
    BY <2>1, <2>2, SameApproved DEF Approved, ClaimJob
<1>3. CASE ClaimNothing(w)
  <2>1. WorkApproved'
    BY <1>3, RestingApproved DEF Approved, ClaimNothing, TypeInv
  <2> QED
    BY <1>3, <2>1, SameApproved DEF Approved, ClaimNothing
<1>4. CASE RunGone(w)
  <2>1. WorkApproved'
    BY <1>4, RestingApproved DEF Approved, RunGone, TypeInv
  <2> QED
    BY <1>4, <2>1, SameApproved DEF Approved, RunGone
<1>5. CASE StartJob(w)
  <2>1. WorkApproved'
    BY <1>5 DEF Approved, StartJob, WorkApproved, TypeInv, WorkerTypes, WorkerState
  <2> QED
    BY <1>5, <2>1, SameApproved DEF Approved, StartJob
<1>6. CASE Finish(w)
  <2>1. OpenApproved'
    BY <1>6, CloseApproved
    DEF Approved, Finish, TypeInv, WorkerTypes, Between, FinishDone, FinishFailed,
        CloseOwnJob
  <2>2. WorkApproved'
    BY <1>6, StepApproved, RestingApproved DEF Approved, Finish, TypeInv, Pc
  <2> QED
    BY <1>6, <2>1, <2>2, SameApproved DEF Approved, Finish
<1>7. CASE Fail(w)
  <2>1. OpenApproved'
    BY <1>7, CloseApproved
    DEF Approved, Fail, TypeInv, WorkerTypes, Between, FinishDone, FinishFailed,
        CloseOwnJob
  <2>2. WorkApproved'
    BY <1>7, StepApproved, RestingApproved DEF Approved, Fail, TypeInv, Pc
  <2> QED
    BY <1>7, <2>1, <2>2, SameApproved DEF Approved, Fail
<1>8. CASE Raise(w)
  <2>1. WorkApproved'
    BY <1>8, StepApproved DEF Approved, Raise, TypeInv, Pc
  <2> QED
    BY <1>8, <2>1, SameApproved DEF Approved, Raise
<1>9. CASE Crash(w)
  <2>1. OpenApproved'
    BY <1>9 DEF Approved, Crash, OpenApproved, TypeInv, JobTypes, Job, NoJob
  <2>2. WorkApproved'
    BY <1>9, RestingApproved DEF Approved, Crash, TypeInv
  <2> QED
    BY <1>9, <2>1, <2>2, SameApproved DEF Approved, Crash
<1> QED BY <1>1, <1>2, <1>3, <1>4, <1>5, <1>6, <1>7, <1>8, <1>9 DEF Common

LEMMA IngestApproved ==
    ASSUME TypeInv, Approved, NEW w \in Ingesters, IngestOnly(w)
    PROVE  Approved'
<1>1. CASE \E r \in Rows : ScheduleFull(w, r)
  <2> SUFFICES ASSUME NEW r \in Rows, ScheduleFull(w, r) PROVE Approved'
    BY <1>1
  <2>1. OpenApproved'
    BY EnqueueApproved DEF Approved, ScheduleFull, TypeInv, JobKind
  <2> QED
    BY <2>1, SameApproved DEF Approved, ScheduleFull
<1>2. CASE \E r \in Rows : ScheduleUnchanged(w, r)
  <2> SUFFICES ASSUME NEW r \in Rows, ScheduleUnchanged(w, r) PROVE Approved'
    BY <1>2
  <2>1. OpenApproved'
    BY EnqueueApproved DEF Approved, ScheduleUnchanged, TypeInv, JobKind
  <2>2. WorkApproved'
    BY DEF Approved, ScheduleUnchanged, WorkApproved, TypeInv, WorkerTypes
  <2> QED
    BY <2>1, <2>2, SameApproved DEF Approved, ScheduleUnchanged
<1>3. CASE \E r \in Rows : ScheduleGone(w, r)
  <2> SUFFICES ASSUME NEW r \in Rows, ScheduleGone(w, r) PROVE Approved'
    BY <1>3
  <2>1. WorkApproved'
    BY RestingApproved DEF Approved, ScheduleGone, TypeInv
  <2> QED
    BY <2>1, SameApproved DEF Approved, ScheduleGone
<1>4. CASE FileUnchanged(w)
  <2>1. OpenApproved'
    BY <1>4, CloseApproved
    DEF Approved, FileUnchanged, TypeInv, WorkerTypes, Between, FinishDone,
        FinishFailed, CloseOwnJob
  <2>2. WorkApproved'
    BY <1>4 DEF Approved, FileUnchanged, WorkApproved, TypeInv, WorkerTypes, NoWork
  <2> QED
    BY <1>4, <2>1, <2>2, SameApproved DEF Approved, FileUnchanged
<1>5. CASE RunPollRefused(w)
  <2>1. WorkApproved'
    BY <1>5, StepApproved DEF Approved, RunPollRefused, TypeInv, Pc
  <2> QED
    BY <1>5, <2>1, SameApproved DEF Approved, RunPollRefused
<1>6. CASE RunValidate(w)
  <2>1. WorkApproved'
    BY <1>6, StepApproved DEF Approved, RunValidate, TypeInv, Pc, Working
  <2> QED
    BY <1>6, <2>1, SameApproved DEF Approved, RunValidate
<1>7. CASE \E attested \in BOOLEAN : RunPoll(w, attested)
  <2> SUFFICES ASSUME NEW attested \in BOOLEAN, RunPoll(w, attested) PROVE Approved'
    BY <1>7
  <2>1. approved \subseteq approved'
    BY DEF Approved, RunPoll
  <2>2. OpenApproved' /\ PublishedWasApproved'
    BY <2>1 DEF Approved, RunPoll, OpenApproved, PublishedWasApproved
  <2>3. WorkApproved'
    BY <2>1 DEF Approved, RunPoll, WorkApproved, TypeInv, WorkerTypes
  <2> QED
    BY <2>1, <2>2, <2>3, SameApproved DEF Approved, RunPoll
<1>8. CASE RecordIdentity(w)
  <2>1. WorkApproved'
    BY <1>8, StepApproved DEF Approved, RecordIdentity, TypeInv, Pc
  <2> QED
    BY <1>8, <2>1, SameApproved DEF Approved, RecordIdentity
<1>9. CASE HandOffToSigner(w)
  <2>1. worker[w].row \in Rows
    BY <1>9 DEF Approved, HandOffToSigner, TypeInv, WorkerTypes, Between
  <2>2. worker[w].promote => <<worker[w].row, worker[w].tag>> \in approved
    BY <1>9 DEF Approved, HandOffToSigner, WorkApproved
  <2>3. OpenApproved'
    BY <1>9, <2>1, <2>2, EnqueueApproved, SameApproved
    DEF Approved, HandOffToSigner, TypeInv, JobKind
  <2>4. WorkApproved'
    BY <1>9, RestingApproved DEF Approved, HandOffToSigner, TypeInv
  <2> QED
    BY <1>9, <2>1, <2>2, <2>3, <2>4, SameApproved DEF Approved, HandOffToSigner
<1>10. CASE HandOffGone(w)
  <2>1. WorkApproved'
    BY <1>10, StepApproved DEF Approved, HandOffGone, TypeInv, Pc
  <2> QED
    BY <1>10, <2>1, SameApproved DEF Approved, HandOffGone
<1>11. CASE SetInvalid(w)
  <2>1. WorkApproved'
    BY <1>11, RestingApproved DEF Approved, SetInvalid, TypeInv
  <2> QED
    BY <1>11, <2>1, SameApproved DEF Approved, SetInvalid
<1> QED BY <1>1, <1>2, <1>3, <1>4, <1>5, <1>6, <1>7, <1>8, <1>9, <1>10, <1>11 DEF IngestOnly

LEMMA SignApproved ==
    ASSUME TypeInv, Approved, NEW w \in Signers, SignOnly(w)
    PROVE  Approved'
<1>1. CASE Publish(w)
  <2>1. WorkApproved'
    BY <1>1, StepApproved DEF Approved, Publish, TypeInv, Pc, Working
  <2>2. <<worker[w].row, worker[w].tag>> \in approved /\ worker[w].row \in Rows
    BY <1>1 DEF Approved, Publish, WorkApproved, TypeInv, WorkerTypes, Working, Between
  <2>3. PublishedWasApproved'
    BY <1>1, <2>2 DEF Approved, Publish, PublishedWasApproved, TypeInv, RestTypes
  <2> QED
    BY <1>1, <2>1, <2>2, <2>3, SameApproved DEF Approved, Publish
<1>2. CASE PublishRefused(w)
  <2>1. WorkApproved'
    BY <1>2, StepApproved DEF Approved, PublishRefused, TypeInv, Pc
  <2> QED
    BY <1>2, <2>1, SameApproved DEF Approved, PublishRefused
<1> QED BY <1>1, <1>2 DEF SignOnly

LEMMA ApprovedStep == TypeInv /\ Approved /\ [Next]_vars => Approved'
<1> SUFFICES ASSUME TypeInv, Approved, [Next]_vars PROVE Approved'
  OBVIOUS
<1>1. CASE UNCHANGED vars
  BY <1>1, SameApproved DEF vars, Approved
<1> QED
  BY <1>1, NextCases, OthersApproved, RequestsApproved, CommonApproved, IngestApproved,
     SignApproved

(* Whatever is fetched, held, rejected, requeued, retried or deleted meanwhile,
   clients are only ever pointed at an artifact the ingest policy approved for a
   source of that application. *)
THEOREM PublishedIsApproved == Spec => []PublishedWasApproved
<1>1. Init => Approved
  BY DEF Init, Approved, OpenApproved, WorkApproved, PublishedWasApproved, NoJob, Idle, NoWork
<1>2. Spec => []TypeInv
  BY TypeInit, TypeStep, PTL DEF Spec
<1>3. Spec => []Approved
  BY <1>1, <1>2, ApprovedStep, PTL DEF Spec
<1>4. Approved => PublishedWasApproved
  BY DEF Approved
<1> QED BY <1>3, <1>4, PTL

-----------------------------------------------------------------------------
(* One worker per source, when one ingest worker and one signing worker run.
   What a worker carries out is the open job of its source, because (a) a job is
   only let go of by the worker that is busy with it, (b) only a source that
   exists has an open job, and (c) a requeued job can only be claimed by a worker
   of the kind that holds it, which is the same worker, and that one is busy. *)

SingleWorker == /\ \A v, w \in Ingesters : v = w
                /\ \A v, w \in Signers : v = w

Holding == {"file", "run", "work", "identity", "finish", "fail"}
HoldersBusy == \A r \in Rows : \A w \in open[r].holders :
                  /\ worker[w].row = r /\ worker[w].pc \in Holding
                  /\ open[r].kind \in Claims(w)
OpenExists == \A r \in Rows : HasOpen(r) => Exists(r)
KindsClaimed == \A w \in Workers : worker[w].pc \notin Between =>
                   worker[w].kind \in Claims(w) /\ status[worker[w].row] # "absent"

Owned == HoldersBusy /\ OpenExists /\ KindsClaimed
         /\ ExecutorHoldsOpenJob /\ OneWorkerPerSource

LEMMA SameOwned ==
    /\ HoldersBusy /\ UNCHANGED <<open, worker>> => HoldersBusy'
    /\ OpenExists /\ UNCHANGED <<open, status>> => OpenExists'
    /\ KindsClaimed /\ UNCHANGED <<worker, status>> => KindsClaimed'
    /\ ExecutorHoldsOpenJob /\ UNCHANGED <<open, worker, status>> => ExecutorHoldsOpenJob'
    /\ OneWorkerPerSource /\ UNCHANGED worker => OneWorkerPerSource'
  BY DEF HoldersBusy, OpenExists, KindsClaimed, ExecutorHoldsOpenJob, OneWorkerPerSource,
     Executing, Exists, HasOpen, Claims

(* Two workers that claim the same kind of job are the same. *)
LEMMA SameClaims ==
    ASSUME SingleWorker, NEW v \in Workers, NEW w \in Workers,
           NEW kind, kind \in Claims(v), kind \in Claims(w)
    PROVE  v = w
  BY RegistryAssumption DEF SingleWorker, Claims

LEMMA HoldersAreWorkers ==
    ASSUME TypeInv, NEW r \in Rows
    PROVE  open[r].holders \subseteq Workers
  BY DEF TypeInv, JobTypes, Job, NoJob

(* A worker is done with its job: it closes it if it still holds it. *)
LEMMA LetGoOwned ==
    ASSUME TypeInv, Owned, SingleWorker, NEW w \in Workers, worker[w].pc \notin Between,
           CloseOwnJob(w), UNCHANGED status, WorkerTypes',
           \A v \in Workers : v # w => worker'[v] = worker[v],
           worker'[w].pc \notin Holding,
           worker'[w].pc \notin Between =>
               worker'[w].row = worker[w].row /\ worker'[w].kind = worker[w].kind
    PROVE  Owned'
<1> DEFINE r == worker[w].row
<1>1. r \in Rows
  BY DEF TypeInv, WorkerTypes
<1>2. \A s \in Rows : w \in open[s].holders => s = r
  BY DEF Owned, HoldersBusy
<1>3. /\ \A s \in Rows : s # r => open'[s] = open[s]
      /\ \/ w \in open[r].holders /\ open'[r] = NoJob
         \/ w \notin open[r].holders /\ open'[r] = open[r]
  BY <1>1 DEF CloseOwnJob, Close, TypeInv, JobTypes
<1>4. HoldersBusy'
  <2> SUFFICES ASSUME NEW s \in Rows, NEW v \in open'[s].holders
               PROVE  worker'[v].row = s /\ worker'[v].pc \in Holding /\ open'[s].kind \in Claims(v)
    BY DEF HoldersBusy, Claims
  <2>1. open'[s] = open[s] /\ v # w
    BY <1>2, <1>3 DEF NoJob
  <2> QED BY <2>1, HoldersAreWorkers DEF Owned, HoldersBusy
<1>5. OpenExists'
  BY <1>3 DEF Owned, OpenExists, HasOpen, Exists
<1>6. KindsClaimed'
  BY DEF Owned, KindsClaimed, Claims
<1>7. ExecutorHoldsOpenJob'
  <2> SUFFICES ASSUME NEW s \in Rows, NEW v \in Workers, Executing(v, s)', Exists(s)'
               PROVE  v \in open'[s].holders /\ open'[s].kind = worker'[v].kind
    BY DEF ExecutorHoldsOpenJob
  <2>1. v # w /\ Executing(v, s) /\ Exists(s)
    BY DEF Executing, Holding, Exists
  <2>2. v \in open[s].holders /\ open[s].kind = worker[v].kind
    BY <2>1 DEF Owned, ExecutorHoldsOpenJob
  <2>3. s = r => w \notin open[r].holders
    BY <2>1, <2>2, SameClaims DEF Owned, HoldersBusy
  <2> QED BY <1>3, <2>1, <2>2, <2>3
<1>8. OneWorkerPerSource'
  BY DEF Owned, OneWorkerPerSource, Executing, Holding
<1> QED BY <1>4, <1>5, <1>6, <1>7, <1>8 DEF Owned

LEMMA RequestsOwned ==
    ASSUME TypeInv, Owned, SingleWorker, NEW q \in Requests, RequestStep(q) \/ Abort(q)
    PROVE  Owned'
<1>1. CASE RequestEnqueue(q)
  <2>1. HoldersBusy'
    BY <1>1
    DEF Owned, RequestEnqueue, HoldersBusy, Holding, Claims, Between, TypeInv,
        JobTypes, WorkerTypes, RequestTypes, Enqueue, HasOpen, NoJob
  <2>2. OpenExists'
    BY <1>1
    DEF Owned, RequestEnqueue, OpenExists, HasOpen, Exists, RestTypes, TypeInv,
        JobTypes, WorkerTypes, RequestTypes, Enqueue, HasOpen, NoJob
  <2>3. ExecutorHoldsOpenJob'
    BY <1>1
    DEF Owned, RequestEnqueue, ExecutorHoldsOpenJob, Executing, Exists, RestTypes,
        TypeInv, JobTypes, WorkerTypes, RequestTypes, Enqueue, HasOpen, NoJob,
        HoldersBusy
  <2> QED
    BY <1>1, <2>1, <2>2, <2>3, SameOwned DEF Owned, RequestEnqueue
<1>2. CASE RequestSetStatus(q)
  <2>1. OpenExists'
    BY <1>2
    DEF Owned, RequestSetStatus, OpenExists, HasOpen, Exists, RestTypes, TypeInv,
        JobTypes, WorkerTypes, RequestTypes, SetStatus, Live
  <2>2. KindsClaimed'
    BY <1>2
    DEF Owned, RequestSetStatus, KindsClaimed, Claims, Between, RestTypes, TypeInv,
        JobTypes, WorkerTypes, RequestTypes, SetStatus, Live
  <2>3. ExecutorHoldsOpenJob'
    BY <1>2
    DEF Owned, RequestSetStatus, ExecutorHoldsOpenJob, Executing, Exists, RestTypes,
        TypeInv, JobTypes, WorkerTypes, RequestTypes, SetStatus, Live
  <2> QED
    BY <1>2, <2>1, <2>2, <2>3, SameOwned DEF Owned, RequestSetStatus
<1>3. CASE UpdateSource(q)
  <2> QED
    BY <1>3, SameOwned DEF Owned, UpdateSource
<1>4. CASE DeleteSource(q)
  <2>1. HoldersBusy'
    BY <1>4
    DEF Owned, DeleteSource, HoldersBusy, Holding, Claims, Between, TypeInv,
        JobTypes, WorkerTypes, RequestTypes, Close, NoJob
  <2>2. OpenExists'
    BY <1>4
    DEF Owned, DeleteSource, OpenExists, HasOpen, Exists, RestTypes, TypeInv,
        JobTypes, WorkerTypes, RequestTypes, SetStatus, Live, Close, NoJob
  <2>3. KindsClaimed'
    BY <1>4
    DEF Owned, DeleteSource, KindsClaimed, Claims, Between, RestTypes, TypeInv,
        JobTypes, WorkerTypes, RequestTypes, SetStatus, Live
  <2>4. ExecutorHoldsOpenJob'
    BY <1>4
    DEF Owned, DeleteSource, ExecutorHoldsOpenJob, Executing, Exists, RestTypes,
        TypeInv, JobTypes, WorkerTypes, RequestTypes, SetStatus, Live, Close, NoJob
  <2> QED
    BY <1>4, <2>1, <2>2, <2>3, <2>4, SameOwned DEF Owned, DeleteSource
<1>5. CASE Abort(q)
  <2> QED
    BY <1>5, SameOwned DEF Owned, Abort
<1> QED BY <1>1, <1>2, <1>3, <1>4, <1>5 DEF RequestStep

LEMMA OperatorOwned ==
    ASSUME TypeInv, Owned, SingleWorker, Operator
    PROVE  Owned'
<1>1. CASE \E q \in Requests, r \in Rows : AddSource(q, r)
  <2> SUFFICES ASSUME NEW q \in Requests, NEW r \in Rows, AddSource(q, r) PROVE Owned'
    BY <1>1
  <2>1. OpenExists'
    BY DEF Owned, AddSource, OpenExists, HasOpen, Exists, RestTypes, TypeInv,
        JobTypes, WorkerTypes, Live
  <2>2. KindsClaimed'
    BY DEF Owned, AddSource, KindsClaimed, Claims, Between, RestTypes, TypeInv,
        JobTypes, WorkerTypes, Live
  <2>3. ExecutorHoldsOpenJob'
    BY DEF Owned, AddSource, ExecutorHoldsOpenJob, Executing, Exists, RestTypes,
        TypeInv, JobTypes, WorkerTypes, Live, KindsClaimed, Between
  <2> QED
    BY <2>1, <2>2, <2>3, SameOwned DEF Owned, AddSource
<1>2. CASE \E q \in Requests, r \in Rows, act \in Act \ {"create"} : ReadSource(q, r, act)
  <2> SUFFICES ASSUME NEW q \in Requests, NEW r \in Rows, NEW act \in Act \
      {"create"}, ReadSource(q, r, act) PROVE Owned'
    BY <1>2
  <2> QED
    BY SameOwned DEF Owned, ReadSource
<1>3. CASE \E a \in Apps : AddApp(a)
  <2> SUFFICES ASSUME NEW a \in Apps, AddApp(a) PROVE Owned'
    BY <1>3
  <2> QED
    BY SameOwned DEF Owned, AddApp
<1>4. CASE \E r \in Rows : MarkDelegated(r)
  <2> SUFFICES ASSUME NEW r \in Rows, MarkDelegated(r) PROVE Owned'
    BY <1>4
  <2>1. OpenExists'
    BY DEF Owned, MarkDelegated, OpenExists, HasOpen, Exists, RestTypes, TypeInv,
        JobTypes, WorkerTypes, Live
  <2>2. KindsClaimed'
    BY DEF Owned, MarkDelegated, KindsClaimed, Claims, Between, RestTypes, TypeInv,
        JobTypes, WorkerTypes, Live
  <2>3. ExecutorHoldsOpenJob'
    BY DEF Owned, MarkDelegated, ExecutorHoldsOpenJob, Executing, Exists, RestTypes,
        TypeInv, JobTypes, WorkerTypes, Live
  <2> QED
    BY <2>1, <2>2, <2>3, SameOwned DEF Owned, MarkDelegated
<1>5. CASE \E w \in Signers : RestartSigner(w)
  <2> SUFFICES ASSUME NEW w \in Signers, RestartSigner(w) PROVE Owned'
    BY <1>5
  <2> QED
    BY SameOwned DEF Owned, RestartSigner
<1> QED BY <1>1, <1>2, <1>3, <1>4, <1>5 DEF Operator

LEMMA OutsideOwned ==
    ASSUME Owned, NEW r \in Rows, Time(r) \/ NewRelease(r)
    PROVE  Owned'
  BY SameOwned DEF Owned, Time, JobAges, IntervalElapses, NewRelease

LEMMA CommonOwned ==
    ASSUME TypeInv, Owned, SingleWorker, NEW w \in Workers, Common(w)
    PROVE  Owned'
<1>1. CASE Tick(w)
  <2>1. \A r \in Rows : open'[r].holders = open[r].holders /\ open'[r].kind =
      open[r].kind /\ (HasOpen(r)' => HasOpen(r))
    <3>1. \A job \in Job : LET reset == [job EXCEPT !.state = "queued"]
                          IN  reset.holders = job.holders /\ reset.kind = job.kind
      BY DEF Job
    <3>2. \A r \in aged : open[r] \in Job /\ HasOpen(r)
      BY DEF TypeInv, JobTypes, NoJob, HasOpen
    <3>3. \A r \in Rows : \/ r \in aged /\ open'[r] = [open[r] EXCEPT !.state = "queued"]
                         \/ open'[r] = open[r]
      BY <1>1 DEF Tick
    <3> QED BY <3>1, <3>2, <3>3 DEF HasOpen
  <2>2. \E pc \in {"schedule", "claim"} : worker' = [worker EXCEPT ![w].pc = pc] /\
      worker[w].pc = "tick"
    BY <1>1 DEF Owned, Tick, Step
  <2>3. \A v \in Workers : worker'[v] = worker[v] \/ {worker[v].pc, worker'[v].pc}
      \subseteq Between
    <3>1. PICK pc \in {"schedule", "claim"} : worker' = [worker EXCEPT ![w].pc = pc]
      BY <2>2
    <3>2. worker'[w].pc = pc /\ \A v \in Workers : v # w => worker'[v] = worker[v]
      BY <3>1 DEF TypeInv, WorkerTypes, WorkerState
    <3> QED BY <2>2, <3>2 DEF Between
  <2>4. UNCHANGED status
    BY <1>1 DEF Owned, Tick
  <2>5. HoldersBusy' /\ OpenExists'
    BY <1>1, <2>1, <2>3, <2>4, HoldersAreWorkers
    DEF Owned, HoldersBusy, OpenExists, Exists, Holding, Between, Claims
  <2>6. KindsClaimed'
    BY <1>1, <2>3, <2>4 DEF Owned, KindsClaimed, Claims
  <2>7. ExecutorHoldsOpenJob' /\ OneWorkerPerSource'
    BY <1>1, <2>1, <2>3, <2>4
    DEF Owned, ExecutorHoldsOpenJob, OneWorkerPerSource, Executing, Exists, Between
  <2> QED
    BY <1>1, <2>1, <2>2, <2>3, <2>4, <2>5, <2>6, <2>7, SameOwned DEF Owned, Tick
<1>2. CASE \E r \in Rows : ClaimJob(w, r)
  <2> SUFFICES ASSUME NEW r \in Rows, ClaimJob(w, r) PROVE Owned'
    BY <1>2
  <2>1. \A v \in Workers : ~Executing(v, r)
    BY RegistryAssumption
    DEF Owned, ClaimJob, OpenExists, KindsClaimed, ExecutorHoldsOpenJob, Executing,
        HasOpen, NoJob, Claims, Claimable, ReadyToClaim, SingleWorker, Between,
        JobKind, TypeInv, JobTypes, WorkerTypes
  <2>2. Exists(r)
    BY DEF Owned, ClaimJob, OpenExists, HasOpen, NoJob, Claimable, TypeInv,
        JobTypes, WorkerTypes
  <2>3. open[r] \in Job
    BY DEF Owned, ClaimJob, Claimable, NoJob, TypeInv, JobTypes, WorkerTypes
  <2>4. \A s \in Rows : w \notin open[s].holders
    BY DEF Owned, ClaimJob, HoldersBusy, Holding, ReadyToClaim
  <2>5. open'[r].holders = open[r].holders \cup {w} /\ open'[r].kind = open[r].kind
      /\ open[r].kind \in Claims(w)
    BY <2>3 DEF Owned, ClaimJob, Job, Claimable, TypeInv, JobTypes, WorkerTypes
  <2>6. \A s \in Rows : s # r => open'[s] = open[s]
    BY DEF Owned, ClaimJob, TypeInv, JobTypes, WorkerTypes
  <2>7. worker'[w].row = r /\ worker'[w].pc = "run" /\ \A v \in Workers : v # w =>
      worker'[v] = worker[v]
    BY DEF Owned, ClaimJob, TypeInv, JobTypes, WorkerTypes
  <2>8. HoldersBusy'
    <3> SUFFICES ASSUME NEW s \in Rows, NEW v \in open'[s].holders
                 PROVE  worker'[v].row = s /\ worker'[v].pc \in Holding /\ open'[s].kind \in Claims(v)
      BY DEF HoldersBusy, Claims
    <3>1. CASE v = w
      BY <2>4, <2>5, <2>6, <2>7, <3>1 DEF Holding
    <3>2. CASE v # w
      <4>1. v \in open[s].holders /\ open'[s].kind = open[s].kind
        BY <2>5, <2>6, <3>2
      <4>2. worker'[v] = worker[v]
        BY <2>7, <3>2, <4>1, HoldersAreWorkers
      <4> QED BY <4>1, <4>2 DEF Owned, HoldersBusy
    <3> QED BY <3>1, <3>2
  <2>9. UNCHANGED status
    BY DEF Owned, ClaimJob
  <2>10. OpenExists'
    BY <2>2, <2>6, <2>9 DEF Owned, OpenExists, HasOpen, Exists
  <2>11. KindsClaimed'
    BY <2>2
    DEF Owned, ClaimJob, KindsClaimed, Claims, Between, RestTypes, TypeInv,
        JobTypes, WorkerTypes, Claimable, Exists, Live
  <2>12. ExecutorHoldsOpenJob'
    BY <2>1
    DEF Owned, ClaimJob, ExecutorHoldsOpenJob, Executing, Exists, RestTypes,
        TypeInv, JobTypes, WorkerTypes, ReadyToClaim
  <2>13. OneWorkerPerSource'
    BY <2>1
    DEF Owned, ClaimJob, OneWorkerPerSource, Executing, TypeInv, JobTypes, WorkerTypes
  <2> QED
    BY <2>1, <2>2, <2>3, <2>4, <2>5, <2>6, <2>7, <2>8, <2>9, <2>10, <2>11, <2>12,
        <2>13, SameOwned
    DEF Owned, ClaimJob
<1>3. CASE ClaimNothing(w)
  <2>1. HoldersBusy'
    BY <1>3
    DEF Owned, ClaimNothing, HoldersBusy, Holding, Claims, Between, TypeInv,
        JobTypes, WorkerTypes, Rest, Idle, NoWork, ReadyToClaim
  <2>2. KindsClaimed'
    BY <1>3
    DEF Owned, ClaimNothing, KindsClaimed, Claims, Between, RestTypes, TypeInv,
        JobTypes, WorkerTypes, Rest, Idle, NoWork
  <2>3. ExecutorHoldsOpenJob'
    BY <1>3
    DEF Owned, ClaimNothing, ExecutorHoldsOpenJob, Executing, Exists, RestTypes,
        TypeInv, JobTypes, WorkerTypes, Rest, Idle, NoWork
  <2>4. OneWorkerPerSource'
    BY <1>3
    DEF Owned, ClaimNothing, OneWorkerPerSource, Executing, TypeInv, JobTypes,
        WorkerTypes, Rest, Idle, NoWork
  <2> QED
    BY <1>3, <2>1, <2>2, <2>3, <2>4, SameOwned DEF Owned, ClaimNothing
<1>4. CASE RunGone(w)
  <2>1. \A s \in Rows : w \notin open[s].holders
    BY <1>4 DEF Owned, RunGone, HoldersBusy, OpenExists, HasOpen, NoJob
  <2>2. HoldersBusy'
    BY <1>4, <2>1, HoldersAreWorkers
    DEF Owned, RunGone, HoldersBusy, Holding, Claims, Between, TypeInv, JobTypes,
        WorkerTypes, Rest, Idle, NoWork
  <2>3. KindsClaimed'
    BY <1>4
    DEF Owned, RunGone, KindsClaimed, Claims, Between, RestTypes, TypeInv, JobTypes,
        WorkerTypes, Rest, Idle, NoWork
  <2>4. ExecutorHoldsOpenJob'
    BY <1>4
    DEF Owned, RunGone, ExecutorHoldsOpenJob, Executing, Exists, RestTypes, TypeInv,
        JobTypes, WorkerTypes, Rest, Idle, NoWork
  <2>5. OneWorkerPerSource'
    BY <1>4
    DEF Owned, RunGone, OneWorkerPerSource, Executing, TypeInv, JobTypes,
        WorkerTypes, Rest, Idle, NoWork
  <2> QED
    BY <1>4, <2>1, <2>2, <2>3, <2>4, <2>5, SameOwned DEF Owned, RunGone
<1>5. CASE StartJob(w)
  <2>1. HoldersBusy'
    BY <1>5, HoldersAreWorkers
    DEF Owned, StartJob, HoldersBusy, Holding, Claims, Between, TypeInv, JobTypes,
        WorkerTypes
  <2>2. KindsClaimed'
    BY <1>5
    DEF Owned, StartJob, KindsClaimed, Claims, Between, RestTypes, TypeInv,
        JobTypes, WorkerTypes
  <2>3. ExecutorHoldsOpenJob'
    BY <1>5
    DEF Owned, StartJob, ExecutorHoldsOpenJob, Executing, Exists, RestTypes,
        TypeInv, JobTypes, WorkerTypes
  <2>4. OneWorkerPerSource'
    BY <1>5
    DEF Owned, StartJob, OneWorkerPerSource, Executing, TypeInv, JobTypes, WorkerTypes
  <2> QED
    BY <1>5, <2>1, <2>2, <2>3, <2>4, SameOwned DEF Owned, StartJob
<1>6. CASE Finish(w)
  <2>1. WorkerTypes'
    BY <1>6, CommonTypes, IngestTypes DEF Owned, Finish, TypeInv, Common, IngestOnly
  <2>2. \A v \in Workers : v # w => worker'[v] = worker[v]
    BY <1>6 DEF Owned, Finish, TypeInv, WorkerTypes, Step, Rest, Idle, NoWork
  <2>3. CloseOwnJob(w) /\ UNCHANGED status /\ worker[w].pc \notin Between
    BY <1>6 DEF Owned, Finish, FinishDone, FinishFailed, Between
  <2>4. worker'[w].pc \notin Holding
    <3>1. \E pc \in {"handoff", "invalid", "tick", "schedule"} :
             Step(w, pc) \/ worker' = [worker EXCEPT ![w] = NoWork(pc)]
      BY <1>6 DEF Finish, Fail, FileUnchanged, Rest, Idle
    <3> QED BY <3>1 DEF Step, NoWork, Holding, TypeInv, WorkerTypes, WorkerState
  <2>5. worker'[w].pc \notin Between => worker'[w].row = worker[w].row /\
      worker'[w].kind = worker[w].kind
    BY <1>6
    DEF Owned, Finish, Between, TypeInv, WorkerTypes, WorkerState, Step, Rest, Idle,
        NoWork
  <2>6. Owned'
    BY <1>6, <2>1, <2>2, <2>3, <2>4, <2>5, LetGoOwned DEF Owned, Finish
  <2> QED
    BY <1>6, <2>1, <2>2, <2>3, <2>4, <2>5, <2>6, SameOwned DEF Owned, Finish
<1>7. CASE Fail(w)
  <2>1. WorkerTypes'
    BY <1>7, CommonTypes, IngestTypes DEF Owned, Fail, TypeInv, Common, IngestOnly
  <2>2. \A v \in Workers : v # w => worker'[v] = worker[v]
    BY <1>7 DEF Owned, Fail, TypeInv, WorkerTypes, Step, Rest, Idle, NoWork
  <2>3. CloseOwnJob(w) /\ UNCHANGED status /\ worker[w].pc \notin Between
    BY <1>7 DEF Owned, Fail, FinishDone, FinishFailed, Between
  <2>4. worker'[w].pc \notin Holding
    <3>1. \E pc \in {"handoff", "invalid", "tick", "schedule"} :
             Step(w, pc) \/ worker' = [worker EXCEPT ![w] = NoWork(pc)]
      BY <1>7 DEF Finish, Fail, FileUnchanged, Rest, Idle
    <3> QED BY <3>1 DEF Step, NoWork, Holding, TypeInv, WorkerTypes, WorkerState
  <2>5. worker'[w].pc \notin Between => worker'[w].row = worker[w].row /\
      worker'[w].kind = worker[w].kind
    BY <1>7
    DEF Owned, Fail, Between, TypeInv, WorkerTypes, WorkerState, Step, Rest, Idle,
        NoWork
  <2>6. Owned'
    BY <1>7, <2>1, <2>2, <2>3, <2>4, <2>5, LetGoOwned DEF Owned, Fail
  <2> QED
    BY <1>7, <2>1, <2>2, <2>3, <2>4, <2>5, <2>6, SameOwned DEF Owned, Fail
<1>8. CASE Raise(w)
  <2>1. HoldersBusy'
    BY <1>8
    DEF Owned, Raise, HoldersBusy, Holding, Claims, Between, TypeInv, JobTypes,
        WorkerTypes, Step
  <2>2. KindsClaimed'
    BY <1>8
    DEF Owned, Raise, KindsClaimed, Claims, Between, RestTypes, TypeInv, JobTypes,
        WorkerTypes, Step
  <2>3. ExecutorHoldsOpenJob'
    BY <1>8
    DEF Owned, Raise, ExecutorHoldsOpenJob, Executing, Exists, RestTypes, TypeInv,
        JobTypes, WorkerTypes, Step
  <2>4. OneWorkerPerSource'
    BY <1>8
    DEF Owned, Raise, OneWorkerPerSource, Executing, TypeInv, JobTypes, WorkerTypes,
        Step
  <2> QED
    BY <1>8, <2>1, <2>2, <2>3, <2>4, SameOwned DEF Owned, Raise
<1>9. CASE Crash(w)
  <2>1. \A r \in Rows : open'[r].holders = open[r].holders \ {w} /\ open'[r].kind =
      open[r].kind
    BY <1>9 DEF Owned, Crash, Job, NoJob, TypeInv, JobTypes, WorkerTypes
  <2>2. \A v \in Workers : v # w => worker'[v] = worker[v]
    BY <1>9 DEF Owned, Crash, Rest, TypeInv, JobTypes, WorkerTypes
  <2>3. HoldersBusy'
    <3> SUFFICES ASSUME NEW s \in Rows, NEW v \in open'[s].holders
                 PROVE  worker'[v].row = s /\ worker'[v].pc \in Holding /\ open'[s].kind \in Claims(v)
      BY DEF HoldersBusy, Claims
    <3>1. v \in open[s].holders /\ open'[s].kind = open[s].kind /\ v # w
      BY <2>1
    <3> QED BY <2>2, <3>1, HoldersAreWorkers DEF Owned, HoldersBusy
  <2>4. UNCHANGED status /\ \A r \in Rows : open[r] = NoJob => open'[r] = NoJob
    BY <1>9 DEF Owned, Crash, NoJob
  <2>5. OpenExists'
    BY <1>9, <2>4 DEF Owned, OpenExists, HasOpen, Exists
  <2>6. KindsClaimed'
    BY <1>9
    DEF Owned, Crash, KindsClaimed, Claims, Between, RestTypes, TypeInv, JobTypes,
        WorkerTypes, Rest, Idle, NoWork
  <2>7. ExecutorHoldsOpenJob'
    BY <1>9
    DEF Owned, Crash, ExecutorHoldsOpenJob, Executing, Exists, RestTypes, TypeInv,
        JobTypes, WorkerTypes, Rest, Idle, NoWork, Job, NoJob
  <2>8. OneWorkerPerSource'
    BY <1>9
    DEF Owned, Crash, OneWorkerPerSource, Executing, TypeInv, JobTypes, WorkerTypes,
        Rest, Idle, NoWork
  <2> QED
    BY <1>9, <2>1, <2>2, <2>3, <2>4, <2>5, <2>6, <2>7, <2>8, SameOwned DEF Owned, Crash
<1> QED BY <1>1, <1>2, <1>3, <1>4, <1>5, <1>6, <1>7, <1>8, <1>9 DEF Common

LEMMA IngestOwned ==
    ASSUME TypeInv, Owned, SingleWorker, NEW w \in Ingesters, IngestOnly(w)
    PROVE  Owned'
<1>1. CASE \E r \in Rows : ScheduleFull(w, r)
  <2> SUFFICES ASSUME NEW r \in Rows, ScheduleFull(w, r) PROVE Owned'
    BY <1>1
  <2>1. HoldersBusy'
    BY DEF Owned, ScheduleFull, HoldersBusy, Holding, Claims, Between, TypeInv,
        JobTypes, WorkerTypes, Enqueue, HasOpen, NoJob
  <2>2. OpenExists'
    BY DEF Owned, ScheduleFull, OpenExists, HasOpen, Exists, RestTypes, TypeInv,
        JobTypes, WorkerTypes, Enqueue, HasOpen, NoJob
  <2>3. ExecutorHoldsOpenJob'
    BY DEF Owned, ScheduleFull, ExecutorHoldsOpenJob, Executing, Exists, RestTypes,
        TypeInv, JobTypes, WorkerTypes, Enqueue, HasOpen, NoJob, HoldersBusy
  <2> QED
    BY <2>1, <2>2, <2>3, SameOwned DEF Owned, ScheduleFull
<1>2. CASE \E r \in Rows : ScheduleUnchanged(w, r)
  <2> SUFFICES ASSUME NEW r \in Rows, ScheduleUnchanged(w, r) PROVE Owned'
    BY <1>2
  <2>1. HoldersBusy'
    BY DEF Owned, ScheduleUnchanged, HoldersBusy, Holding, Claims, Between, TypeInv,
        JobTypes, WorkerTypes, Enqueue, HasOpen, NoJob
  <2>2. OpenExists'
    BY DEF Owned, ScheduleUnchanged, OpenExists, HasOpen, Exists, RestTypes,
        TypeInv, JobTypes, WorkerTypes, Enqueue, HasOpen, NoJob
  <2>3. KindsClaimed'
    BY DEF Owned, ScheduleUnchanged, KindsClaimed, Claims, Between, RestTypes,
        TypeInv, JobTypes, WorkerTypes, Exists, Live
  <2>4. ExecutorHoldsOpenJob'
    BY DEF Owned, ScheduleUnchanged, ExecutorHoldsOpenJob, Executing, Exists,
        RestTypes, TypeInv, JobTypes, WorkerTypes, Enqueue, HasOpen, NoJob,
        HoldersBusy
  <2>5. OneWorkerPerSource'
    BY DEF Owned, ScheduleUnchanged, OneWorkerPerSource, Executing, TypeInv,
        JobTypes, WorkerTypes
  <2> QED
    BY <2>1, <2>2, <2>3, <2>4, <2>5, SameOwned DEF Owned, ScheduleUnchanged
<1>3. CASE \E r \in Rows : ScheduleGone(w, r)
  <2> SUFFICES ASSUME NEW r \in Rows, ScheduleGone(w, r) PROVE Owned'
    BY <1>3
  <2>1. HoldersBusy'
    BY DEF Owned, ScheduleGone, HoldersBusy, Holding, Claims, Between, TypeInv,
        JobTypes, WorkerTypes, Rest, Idle, NoWork
  <2>2. KindsClaimed'
    BY DEF Owned, ScheduleGone, KindsClaimed, Claims, Between, RestTypes, TypeInv,
        JobTypes, WorkerTypes, Rest, Idle, NoWork
  <2>3. ExecutorHoldsOpenJob'
    BY DEF Owned, ScheduleGone, ExecutorHoldsOpenJob, Executing, Exists, RestTypes,
        TypeInv, JobTypes, WorkerTypes, Rest, Idle, NoWork
  <2>4. OneWorkerPerSource'
    BY DEF Owned, ScheduleGone, OneWorkerPerSource, Executing, TypeInv, JobTypes,
        WorkerTypes, Rest, Idle, NoWork
  <2> QED
    BY <2>1, <2>2, <2>3, <2>4, SameOwned DEF Owned, ScheduleGone
<1>4. CASE FileUnchanged(w)
  <2>1. WorkerTypes'
    BY <1>4, CommonTypes, IngestTypes
    DEF Owned, FileUnchanged, TypeInv, Common, IngestOnly
  <2>2. \A v \in Workers : v # w => worker'[v] = worker[v]
    BY <1>4 DEF Owned, FileUnchanged, TypeInv, WorkerTypes, NoWork
  <2>3. CloseOwnJob(w) /\ UNCHANGED status /\ worker[w].pc \notin Between
    BY <1>4 DEF Owned, FileUnchanged, FinishDone, FinishFailed, Between
  <2>4. worker'[w].pc \notin Holding
    <3>1. \E pc \in {"handoff", "invalid", "tick", "schedule"} :
             Step(w, pc) \/ worker' = [worker EXCEPT ![w] = NoWork(pc)]
      BY <1>4 DEF Finish, Fail, FileUnchanged, Rest, Idle
    <3> QED BY <3>1 DEF Step, NoWork, Holding, TypeInv, WorkerTypes, WorkerState
  <2>5. worker'[w].pc \notin Between => worker'[w].row = worker[w].row /\
      worker'[w].kind = worker[w].kind
    BY <1>4 DEF Owned, FileUnchanged, Between, TypeInv, WorkerTypes, WorkerState, NoWork
  <2>6. Owned'
    BY <1>4, <2>1, <2>2, <2>3, <2>4, <2>5, LetGoOwned DEF Owned, FileUnchanged
  <2> QED
    BY <1>4, <2>1, <2>2, <2>3, <2>4, <2>5, <2>6, SameOwned DEF Owned, FileUnchanged
<1>5. CASE RunPollRefused(w)
  <2>1. HoldersBusy'
    BY <1>5
    DEF Owned, RunPollRefused, HoldersBusy, Holding, Claims, Between, TypeInv,
        JobTypes, WorkerTypes, Step, Working
  <2>2. KindsClaimed'
    BY <1>5
    DEF Owned, RunPollRefused, KindsClaimed, Claims, Between, RestTypes, TypeInv,
        JobTypes, WorkerTypes, Step, Working
  <2>3. ExecutorHoldsOpenJob'
    BY <1>5
    DEF Owned, RunPollRefused, ExecutorHoldsOpenJob, Executing, Exists, RestTypes,
        TypeInv, JobTypes, WorkerTypes, Step, Working
  <2>4. OneWorkerPerSource'
    BY <1>5
    DEF Owned, RunPollRefused, OneWorkerPerSource, Executing, TypeInv, JobTypes,
        WorkerTypes, Step, Working
  <2> QED
    BY <1>5, <2>1, <2>2, <2>3, <2>4, SameOwned DEF Owned, RunPollRefused
<1>6. CASE RunValidate(w)
  <2>1. HoldersBusy'
    BY <1>6
    DEF Owned, RunValidate, HoldersBusy, Holding, Claims, Between, TypeInv,
        JobTypes, WorkerTypes, Step, Working
  <2>2. KindsClaimed'
    BY <1>6
    DEF Owned, RunValidate, KindsClaimed, Claims, Between, RestTypes, TypeInv,
        JobTypes, WorkerTypes, Step, Working
  <2>3. ExecutorHoldsOpenJob'
    BY <1>6
    DEF Owned, RunValidate, ExecutorHoldsOpenJob, Executing, Exists, RestTypes,
        TypeInv, JobTypes, WorkerTypes, Step, Working
  <2>4. OneWorkerPerSource'
    BY <1>6
    DEF Owned, RunValidate, OneWorkerPerSource, Executing, TypeInv, JobTypes,
        WorkerTypes, Step, Working
  <2> QED
    BY <1>6, <2>1, <2>2, <2>3, <2>4, SameOwned DEF Owned, RunValidate
<1>7. CASE \E attested \in BOOLEAN : RunPoll(w, attested)
  <2> SUFFICES ASSUME NEW attested \in BOOLEAN, RunPoll(w, attested) PROVE Owned'
    BY <1>7
  <2>1. HoldersBusy'
    BY DEF Owned, RunPoll, HoldersBusy, Holding, Claims, Between, TypeInv, JobTypes,
        WorkerTypes, Working
  <2>2. KindsClaimed'
    BY DEF Owned, RunPoll, KindsClaimed, Claims, Between, RestTypes, TypeInv,
        JobTypes, WorkerTypes, Working
  <2>3. ExecutorHoldsOpenJob'
    BY DEF Owned, RunPoll, ExecutorHoldsOpenJob, Executing, Exists, RestTypes,
        TypeInv, JobTypes, WorkerTypes, Working
  <2>4. OneWorkerPerSource'
    BY DEF Owned, RunPoll, OneWorkerPerSource, Executing, TypeInv, JobTypes,
        WorkerTypes, Working
  <2> QED
    BY <2>1, <2>2, <2>3, <2>4, SameOwned DEF Owned, RunPoll
<1>8. CASE RecordIdentity(w)
  <2>1. HoldersBusy'
    BY <1>8
    DEF Owned, RecordIdentity, HoldersBusy, Holding, Claims, Between, TypeInv,
        JobTypes, WorkerTypes, Step
  <2>2. OpenExists'
    BY <1>8
    DEF Owned, RecordIdentity, OpenExists, HasOpen, Exists, RestTypes, TypeInv,
        JobTypes, WorkerTypes, SetStatus, Live
  <2>3. KindsClaimed'
    BY <1>8
    DEF Owned, RecordIdentity, KindsClaimed, Claims, Between, RestTypes, TypeInv,
        JobTypes, WorkerTypes, Step, SetStatus, Live
  <2>4. ExecutorHoldsOpenJob'
    BY <1>8
    DEF Owned, RecordIdentity, ExecutorHoldsOpenJob, Executing, Exists, RestTypes,
        TypeInv, JobTypes, WorkerTypes, Step, SetStatus, Live
  <2>5. OneWorkerPerSource'
    BY <1>8
    DEF Owned, RecordIdentity, OneWorkerPerSource, Executing, TypeInv, JobTypes,
        WorkerTypes, Step
  <2> QED
    BY <1>8, <2>1, <2>2, <2>3, <2>4, <2>5, SameOwned DEF Owned, RecordIdentity
<1>9. CASE HandOffToSigner(w)
  <2>1. HoldersBusy'
    BY <1>9
    DEF Owned, HandOffToSigner, HoldersBusy, Holding, Claims, Between, TypeInv,
        JobTypes, WorkerTypes, Rest, Idle, NoWork, Enqueue, HasOpen, NoJob
  <2>2. OpenExists'
    BY <1>9
    DEF Owned, HandOffToSigner, OpenExists, HasOpen, Exists, RestTypes, TypeInv,
        JobTypes, WorkerTypes, Enqueue, HasOpen, NoJob
  <2>3. KindsClaimed'
    BY <1>9
    DEF Owned, HandOffToSigner, KindsClaimed, Claims, Between, RestTypes, TypeInv,
        JobTypes, WorkerTypes, Rest, Idle, NoWork
  <2>4. ExecutorHoldsOpenJob'
    BY <1>9
    DEF Owned, HandOffToSigner, ExecutorHoldsOpenJob, Executing, Exists, RestTypes,
        TypeInv, JobTypes, WorkerTypes, Rest, Idle, NoWork, Enqueue, HasOpen, NoJob,
        HoldersBusy
  <2>5. OneWorkerPerSource'
    BY <1>9
    DEF Owned, HandOffToSigner, OneWorkerPerSource, Executing, TypeInv, JobTypes,
        WorkerTypes, Rest, Idle, NoWork
  <2> QED
    BY <1>9, <2>1, <2>2, <2>3, <2>4, <2>5, SameOwned DEF Owned, HandOffToSigner
<1>10. CASE HandOffGone(w)
  <2>1. HoldersBusy'
    BY <1>10
    DEF Owned, HandOffGone, HoldersBusy, Holding, Claims, Between, TypeInv,
        JobTypes, WorkerTypes, Step, Working
  <2>2. KindsClaimed'
    BY <1>10
    DEF Owned, HandOffGone, KindsClaimed, Claims, Between, RestTypes, TypeInv,
        JobTypes, WorkerTypes, Step, Working
  <2>3. ExecutorHoldsOpenJob'
    BY <1>10
    DEF Owned, HandOffGone, ExecutorHoldsOpenJob, Executing, Exists, RestTypes,
        TypeInv, JobTypes, WorkerTypes, Step, Working
  <2>4. OneWorkerPerSource'
    BY <1>10
    DEF Owned, HandOffGone, OneWorkerPerSource, Executing, TypeInv, JobTypes,
        WorkerTypes, Step, Working
  <2> QED
    BY <1>10, <2>1, <2>2, <2>3, <2>4, SameOwned DEF Owned, HandOffGone
<1>11. CASE SetInvalid(w)
  <2>1. HoldersBusy'
    BY <1>11
    DEF Owned, SetInvalid, HoldersBusy, Holding, Claims, Between, TypeInv, JobTypes,
        WorkerTypes, Rest, Idle, NoWork
  <2>2. OpenExists'
    BY <1>11
    DEF Owned, SetInvalid, OpenExists, HasOpen, Exists, RestTypes, TypeInv,
        JobTypes, WorkerTypes, SetStatus, Live
  <2>3. KindsClaimed'
    BY <1>11
    DEF Owned, SetInvalid, KindsClaimed, Claims, Between, RestTypes, TypeInv,
        JobTypes, WorkerTypes, Rest, Idle, NoWork, SetStatus, Live
  <2>4. ExecutorHoldsOpenJob'
    BY <1>11
    DEF Owned, SetInvalid, ExecutorHoldsOpenJob, Executing, Exists, RestTypes,
        TypeInv, JobTypes, WorkerTypes, Rest, Idle, NoWork, SetStatus, Live
  <2>5. OneWorkerPerSource'
    BY <1>11
    DEF Owned, SetInvalid, OneWorkerPerSource, Executing, TypeInv, JobTypes,
        WorkerTypes, Rest, Idle, NoWork
  <2> QED
    BY <1>11, <2>1, <2>2, <2>3, <2>4, <2>5, SameOwned DEF Owned, SetInvalid
<1> QED BY <1>1, <1>2, <1>3, <1>4, <1>5, <1>6, <1>7, <1>8, <1>9, <1>10, <1>11 DEF IngestOnly

LEMMA SignOwned ==
    ASSUME TypeInv, Owned, SingleWorker, NEW w \in Signers, SignOnly(w)
    PROVE  Owned'
<1>1. CASE Publish(w)
  <2>1. HoldersBusy'
    BY <1>1
    DEF Owned, Publish, HoldersBusy, Holding, Claims, Between, TypeInv, JobTypes,
        WorkerTypes, Step, Working
  <2>2. KindsClaimed'
    BY <1>1
    DEF Owned, Publish, KindsClaimed, Claims, Between, RestTypes, TypeInv, JobTypes,
        WorkerTypes, Step, Working
  <2>3. ExecutorHoldsOpenJob'
    BY <1>1
    DEF Owned, Publish, ExecutorHoldsOpenJob, Executing, Exists, RestTypes, TypeInv,
        JobTypes, WorkerTypes, Step, Working
  <2>4. OneWorkerPerSource'
    BY <1>1
    DEF Owned, Publish, OneWorkerPerSource, Executing, TypeInv, JobTypes,
        WorkerTypes, Step, Working
  <2> QED
    BY <1>1, <2>1, <2>2, <2>3, <2>4, SameOwned DEF Owned, Publish
<1>2. CASE PublishRefused(w)
  <2>1. HoldersBusy'
    BY <1>2
    DEF Owned, PublishRefused, HoldersBusy, Holding, Claims, Between, TypeInv,
        JobTypes, WorkerTypes, Step, Working
  <2>2. KindsClaimed'
    BY <1>2
    DEF Owned, PublishRefused, KindsClaimed, Claims, Between, RestTypes, TypeInv,
        JobTypes, WorkerTypes, Step, Working
  <2>3. ExecutorHoldsOpenJob'
    BY <1>2
    DEF Owned, PublishRefused, ExecutorHoldsOpenJob, Executing, Exists, RestTypes,
        TypeInv, JobTypes, WorkerTypes, Step, Working
  <2>4. OneWorkerPerSource'
    BY <1>2
    DEF Owned, PublishRefused, OneWorkerPerSource, Executing, TypeInv, JobTypes,
        WorkerTypes, Step, Working
  <2> QED
    BY <1>2, <2>1, <2>2, <2>3, <2>4, SameOwned DEF Owned, PublishRefused
<1> QED BY <1>1, <1>2 DEF SignOnly

LEMMA OwnedStep == ASSUME SingleWorker PROVE TypeInv /\ Owned /\ [Next]_vars => Owned'
<1> SUFFICES ASSUME TypeInv, Owned, [Next]_vars PROVE Owned'
  OBVIOUS
<1>1. CASE UNCHANGED vars
  BY <1>1, SameOwned DEF vars, Owned
<1> QED
  BY <1>1, NextCases, OperatorOwned, RequestsOwned, OutsideOwned, CommonOwned,
     IngestOwned, SignOwned

LEMMA OwnedAlways == ASSUME SingleWorker PROVE Spec => []Owned
<1>1. Init => Owned
  BY DEF Init, Owned, HoldersBusy, OpenExists, KindsClaimed, ExecutorHoldsOpenJob,
     OneWorkerPerSource, Executing, HasOpen, NoJob, Idle, NoWork, Between
<1>2. Spec => []TypeInv
  BY TypeInit, TypeStep, PTL DEF Spec
<1>3. TypeInv /\ Owned /\ [Next]_vars => Owned'
  BY OwnedStep
<1> QED BY <1>1, <1>2, <1>3, PTL DEF Spec

(* With one ingest worker and one signing worker, as deployed, no source is
   worked on by both, nor twice by one after its job was requeued.  The theorem
   needs SingleWorker: with two ingest workers it is false. *)
THEOREM WorkIsExclusive == ASSUME SingleWorker PROVE Spec => []OneWorkerPerSource
<1>1. Owned => OneWorkerPerSource
  BY DEF Owned
<1> QED BY <1>1, OwnedAlways, PTL

(* And finish_job, which names the job by id alone, finishes the open one. *)
THEOREM FinishesTheOpenJob == ASSUME SingleWorker PROVE Spec => []ExecutorHoldsOpenJob
<1>1. Owned => ExecutorHoldsOpenJob
  BY DEF Owned
<1> QED BY <1>1, OwnedAlways, PTL

-----------------------------------------------------------------------------
(* The pointer of an application does not go back, when one ingest worker and one
   signing worker run.  A tag is decided on, handed off and signed, and may be at
   each of these places at once: what is further on is never newer.  *)

OneSourcePerApp == \A r, s \in Rows : AppOf[r] = AppOf[s] => r = s

Signing(w, r) == worker[w].row = r /\ worker[w].pc \in {"run", "work"}
Decided(w, r) ==
    worker[w].row = r /\ worker[w].promote /\ worker[w].pc \in {"identity", "finish", "handoff"}

(* A tag may still be published without the pointer going back. *)
Ahead(r, tag) == current[AppOf[r]] <= tag /\ tag <= forge[r]

PointerInOrder == \A r \in Rows : Ahead(r, forge[r])
HandedOffInOrder == \A r \in Rows : open[r].kind = "publish" => Ahead(r, open[r].tag)
SignedInOrder == \A r \in Rows : \A s \in Signers : Signing(s, r) =>
    /\ Ahead(r, worker[s].tag)
    /\ open[r].kind = "publish" => worker[s].tag <= open[r].tag
DecidedInOrder == \A r \in Rows : \A i \in Ingesters : Decided(i, r) =>
    /\ Ahead(r, worker[i].tag)
    /\ open[r].kind = "publish" => open[r].tag <= worker[i].tag
    /\ \A s \in Signers : Signing(s, r) => worker[s].tag <= worker[i].tag
InOrder == PointerInOrder /\ HandedOffInOrder /\ SignedInOrder /\ DecidedInOrder

(* What a step leaves as it is: jobs to publish are not added, nor tags to those
   that sign and decide; and releases are only ever added. *)
OpenKept == \A r \in Rows : open'[r].kind = "publish" =>
    open[r].kind = "publish" /\ open'[r].tag = open[r].tag
WorkKept == \A w \in Workers, r \in Rows :
    /\ Signing(w, r)' => Signing(w, r) /\ worker'[w].tag = worker[w].tag
    /\ Decided(w, r)' => Decided(w, r) /\ worker'[w].tag = worker[w].tag
OutKept == current' = current /\ \A r \in Rows : forge[r] <= forge'[r]

LEMMA OrderTypes ==
    ASSUME TypeInv
    PROVE  /\ \A r \in Rows : AppOf[r] \in Apps /\ forge[r] \in Nat /\ forge[r] <= MaxTag
           /\ \A r \in Rows : open[r].tag \in Nat
           /\ \A a \in Apps : current[a] \in Nat
           /\ \A w \in Workers : worker[w].tag \in Nat
  BY RegistryAssumption DEF TypeInv, JobTypes, WorkerTypes, RestTypes, Job, NoJob, WorkerState

LEMMA KeptInOrder ==
    ASSUME TypeInv, TypeInv', InOrder, OpenKept, WorkKept, OutKept
    PROVE  InOrder'
<1>1. \A r \in Rows : AppOf[r] \in Apps /\ forge[r] \in Nat /\ forge'[r] \in Nat
  BY OrderTypes, RegistryAssumption DEF TypeInv, RestTypes
<1>2. ASSUME NEW r \in Rows, NEW tag \in Nat, Ahead(r, tag) PROVE Ahead(r, tag)'
  BY <1>1, <1>2, OrderTypes DEF Ahead, OutKept
<1>3. PointerInOrder'
  BY <1>1, OrderTypes DEF InOrder, PointerInOrder, Ahead, OutKept
<1>4. HandedOffInOrder'
  BY <1>2, OrderTypes DEF InOrder, HandedOffInOrder, OpenKept
<1>5. SignedInOrder'
  BY <1>2, OrderTypes DEF InOrder, SignedInOrder, OpenKept, WorkKept
<1>6. DecidedInOrder'
  <2> SUFFICES ASSUME NEW r \in Rows, NEW i \in Ingesters, Decided(i, r)'
               PROVE  /\ Ahead(r, worker[i].tag)'
                      /\ open'[r].kind = "publish" => open'[r].tag <= worker'[i].tag
                      /\ \A s \in Signers : Signing(s, r)' => worker'[s].tag <= worker'[i].tag
    BY DEF DecidedInOrder
  <2>1. Decided(i, r) /\ worker'[i].tag = worker[i].tag /\ worker[i].tag \in Nat
    BY OrderTypes DEF WorkKept
  <2> PICK tag \in Nat : tag = worker[i].tag
    BY <2>1
  <2>2. Ahead(r, worker[i].tag)'
    <3>1. Ahead(r, tag)'
      BY <1>2, <2>1 DEF InOrder, DecidedInOrder
    <3> QED
      BY <2>1, <3>1 DEF Ahead
  <2>3. open'[r].kind = "publish" => open'[r].tag <= worker'[i].tag
    BY <2>1 DEF InOrder, DecidedInOrder, OpenKept
  <2>4. ASSUME NEW s \in Signers, Signing(s, r)' PROVE worker'[s].tag <= worker'[i].tag
    BY <2>1, <2>4 DEF InOrder, DecidedInOrder, WorkKept
  <2> QED
    BY <2>1, <2>2, <2>3, <2>4
<1> QED
  BY <1>3, <1>4, <1>5, <1>6 DEF InOrder

LEMMA SameKept ==
    /\ UNCHANGED open => OpenKept
    /\ UNCHANGED worker => WorkKept
    /\ TypeInv /\ UNCHANGED <<current, forge>> => OutKept
<1>1. UNCHANGED open => OpenKept
  BY DEF OpenKept
<1>2. UNCHANGED worker => WorkKept
  BY DEF WorkKept, Signing, Decided
<1>3. TypeInv /\ UNCHANGED <<current, forge>> => OutKept
  BY OrderTypes DEF OutKept
<1> QED
  BY <1>1, <1>2, <1>3

LEMMA StepKept ==
    ASSUME WorkerTypes, NEW w \in Workers, NEW pc \in Pc, Step(w, pc),
           pc \notin {"run", "work"},
           \/ pc \notin {"identity", "finish", "handoff"}
           \/ worker[w].pc \in {"identity", "finish", "handoff"}
           \/ ~worker[w].promote
    PROVE  WorkKept
<1>1. /\ \A v \in Workers : v # w => worker'[v] = worker[v]
      /\ worker'[w] = [worker[w] EXCEPT !.pc = pc]
      /\ worker[w] \in WorkerState
  BY DEF WorkerTypes, Step
<1>2. /\ worker'[w].pc = pc /\ worker'[w].row = worker[w].row
      /\ worker'[w].tag = worker[w].tag /\ worker'[w].promote = worker[w].promote
  BY <1>1 DEF WorkerState
<1> QED
  BY <1>1, <1>2 DEF WorkKept, Signing, Decided

LEMMA RestingKept ==
    ASSUME WorkerTypes, NEW w \in Workers, Rest(w)
    PROVE  WorkKept
  BY DEF WorkerTypes, Rest, Idle, NoWork, WorkKept, Signing, Decided

LEMMA EnqueueKept ==
    ASSUME JobTypes, NEW r \in Rows, NEW kind \in JobKind, kind # "publish", NEW tag, NEW holders,
           Enqueue(r, kind, tag, holders)
    PROVE  OpenKept
  BY DEF JobTypes, OpenKept, Enqueue

LEMMA CloseKept ==
    ASSUME JobTypes, NEW r \in Rows, Close(r) \/ UNCHANGED open
    PROVE  OpenKept
  BY DEF JobTypes, OpenKept, Close, NoJob

Kept == OpenKept /\ WorkKept /\ OutKept

LEMMA OthersKept ==
    ASSUME TypeInv, \/ Operator \/ \E r \in Rows : Time(r) \/ NewRelease(r)
    PROVE  Kept
<1>1. CASE Operator \/ \E r \in Rows : Time(r)
  BY <1>1, SameKept
  DEF Kept, Operator, AddSource, ReadSource, AddApp, MarkDelegated, RestartSigner,
      Time, JobAges, IntervalElapses
<1>2. ASSUME NEW r \in Rows, NewRelease(r) PROVE Kept
  <2>1. OutKept
    BY <1>2, OrderTypes DEF NewRelease, OutKept, TypeInv, RestTypes
  <2> QED
    BY <1>2, <2>1, SameKept DEF Kept, NewRelease
<1> QED
  BY <1>1, <1>2

LEMMA RequestsKept ==
    ASSUME TypeInv, NEW q \in Requests, RequestStep(q) \/ Abort(q)
    PROVE  Kept
<1>1. CASE RequestEnqueue(q)
  <2>1. OpenKept
    BY <1>1, EnqueueKept, SameKept DEF RequestEnqueue, TypeInv, RequestTypes, JobKind
  <2> QED
    BY <1>1, <2>1, SameKept DEF Kept, RequestEnqueue
<1>2. CASE DeleteSource(q)
  <2>1. OpenKept
    BY <1>2, CloseKept DEF DeleteSource, TypeInv, RequestTypes
  <2> QED
    BY <1>2, <2>1, SameKept DEF Kept, DeleteSource
<1>3. CASE RequestSetStatus(q) \/ UpdateSource(q) \/ Abort(q)
  BY <1>3, SameKept DEF Kept, RequestSetStatus, UpdateSource, Abort
<1> QED
  BY <1>1, <1>2, <1>3 DEF RequestStep

LEMMA CommonKept ==
    ASSUME TypeInv, Approved, NEW w \in Workers, Common(w), ~\E r \in Rows : ClaimJob(w, r)
    PROVE  Kept
<1> USE DEF Kept
<1>1. CASE Tick(w)
  <2>1. OpenKept
    BY <1>1 DEF Tick, OpenKept, TypeInv, JobTypes, Job, NoJob
  <2>2. WorkKept
    BY <1>1, StepKept DEF Tick, TypeInv, Pc
  <2> QED
    BY <1>1, <2>1, <2>2, SameKept DEF Tick
<1>2. CASE ClaimNothing(w) \/ RunGone(w)
  <2>1. WorkKept
    BY <1>2, RestingKept DEF ClaimNothing, RunGone, TypeInv
  <2> QED
    BY <1>2, <2>1, SameKept DEF ClaimNothing, RunGone
<1>3. CASE StartJob(w)
  <2> DEFINE promote == worker[w].kind = "poll" /\ worker[w].row \notin critical
  <2>1. /\ \A v \in Workers : v # w => worker'[v] = worker[v]
        /\ worker'[w] = [worker[w] EXCEPT !.pc = "work", !.promote = promote]
        /\ worker[w] \in WorkerState /\ worker[w].pc = "run"
    BY <1>3 DEF StartJob, TypeInv, WorkerTypes
  <2>2. /\ worker'[w].pc = "work" /\ worker'[w].row = worker[w].row
        /\ worker'[w].tag = worker[w].tag
    BY <2>1 DEF WorkerState
  <2>3. WorkKept
    BY <2>1, <2>2 DEF WorkKept, Signing, Decided
  <2> QED
    BY <1>3, <2>3, SameKept DEF StartJob
<1>4. CASE Finish(w)
  <2>1. OpenKept
    BY <1>4, CloseKept
    DEF Finish, TypeInv, WorkerTypes, Between, FinishDone, CloseOwnJob
  <2>2. WorkKept
    BY <1>4, StepKept, RestingKept DEF Finish, TypeInv, Pc
  <2> QED
    BY <1>4, <2>1, <2>2, SameKept DEF Finish
<1>5. CASE Fail(w)
  <2>1. OpenKept
    BY <1>5, CloseKept
    DEF Fail, TypeInv, WorkerTypes, Between, FinishFailed, CloseOwnJob
  <2>2. WorkKept
    BY <1>5, StepKept, RestingKept DEF Fail, TypeInv, Pc
  <2> QED
    BY <1>5, <2>1, <2>2, SameKept DEF Fail
<1>6. CASE Raise(w)
  <2>1. WorkKept
    BY <1>6, StepKept DEF Raise, TypeInv, Pc
  <2> QED
    BY <1>6, <2>1, SameKept DEF Raise
<1>7. CASE Crash(w)
  <2>1. OpenKept
    BY <1>7 DEF Crash, OpenKept, TypeInv, JobTypes, Job, NoJob
  <2>2. WorkKept
    BY <1>7, RestingKept DEF Crash, TypeInv
  <2> QED
    BY <1>7, <2>1, <2>2, SameKept DEF Crash
<1> QED
  BY <1>1, <1>2, <1>3, <1>4, <1>5, <1>6, <1>7 DEF Common

LEMMA IngestKept ==
    ASSUME TypeInv, Approved, NEW w \in Ingesters, IngestOnly(w),
           ~HandOffToSigner(w), ~\E attested \in BOOLEAN : RunPoll(w, attested)
    PROVE  Kept
<1> USE DEF Kept
<1>1. ASSUME NEW r \in Rows, ScheduleFull(w, r) PROVE Kept
  <2>1. OpenKept
    BY <1>1, EnqueueKept DEF ScheduleFull, TypeInv, JobKind
  <2> QED
    BY <1>1, <2>1, SameKept DEF ScheduleFull
<1>2. ASSUME NEW r \in Rows, ScheduleUnchanged(w, r) PROVE Kept
  <2>1. OpenKept
    BY <1>2, EnqueueKept DEF ScheduleUnchanged, TypeInv, JobKind
  <2>2. WorkKept
    BY <1>2 DEF ScheduleUnchanged, WorkKept, Signing, Decided, TypeInv, WorkerTypes
  <2> QED
    BY <1>2, <2>1, <2>2, SameKept DEF ScheduleUnchanged
<1>3. ASSUME NEW r \in Rows, ScheduleGone(w, r) PROVE Kept
  <2>1. WorkKept
    BY <1>3, RestingKept DEF ScheduleGone, TypeInv
  <2> QED
    BY <1>3, <2>1, SameKept DEF ScheduleGone
<1>4. CASE FileUnchanged(w)
  <2>1. OpenKept
    BY <1>4, CloseKept
    DEF FileUnchanged, TypeInv, WorkerTypes, Between, FinishDone, CloseOwnJob
  <2>2. WorkKept
    BY <1>4 DEF FileUnchanged, WorkKept, Signing, Decided, TypeInv, WorkerTypes, NoWork
  <2> QED
    BY <1>4, <2>1, <2>2, SameKept DEF FileUnchanged
<1>5. CASE RunPollRefused(w) \/ HandOffGone(w)
  <2>1. WorkKept
    BY <1>5, StepKept DEF RunPollRefused, HandOffGone, TypeInv, Pc
  <2> QED
    BY <1>5, <2>1, SameKept DEF RunPollRefused, HandOffGone
<1>6. CASE RunValidate(w)
  <2>1. ~worker[w].promote
    BY <1>6 DEF RunValidate, Working, Approved, WorkApproved
  <2>2. WorkKept
    BY <1>6, <2>1, StepKept DEF RunValidate, TypeInv, Pc
  <2> QED
    BY <1>6, <2>2, SameKept DEF RunValidate
<1>7. CASE RecordIdentity(w)
  <2>1. WorkKept
    BY <1>7, StepKept DEF RecordIdentity, TypeInv, Pc
  <2> QED
    BY <1>7, <2>1, SameKept DEF RecordIdentity
<1>8. CASE SetInvalid(w)
  <2>1. WorkKept
    BY <1>8, RestingKept DEF SetInvalid, TypeInv
  <2> QED
    BY <1>8, <2>1, SameKept DEF SetInvalid
<1> QED
  BY <1>1, <1>2, <1>3, <1>4, <1>5, <1>6, <1>7, <1>8 DEF IngestOnly

(* Ahead, of a tag that a worker has after the step. *)
StillAhead(r, tag) == current'[AppOf[r]] <= tag /\ tag <= forge'[r]

LEMMA AheadStays ==
    ASSUME TypeInv, TypeInv', OutKept, NEW r \in Rows, NEW tag \in Nat, Ahead(r, tag)
    PROVE  StillAhead(r, tag)
<1>1. forge'[r] \in Nat
  BY RegistryAssumption DEF TypeInv, RestTypes
<1> QED
  BY <1>1, OrderTypes DEF Ahead, OutKept, StillAhead

LEMMA OpenInOrder ==
    ASSUME TypeInv, TypeInv', InOrder, OpenKept, OutKept
    PROVE  PointerInOrder' /\ HandedOffInOrder'
<1>1. PointerInOrder'
  <2> SUFFICES ASSUME NEW r \in Rows PROVE Ahead(r, forge[r])'
    BY DEF PointerInOrder
  <2>1. forge'[r] \in Nat /\ forge[r] \in Nat /\ StillAhead(r, forge[r])
    BY AheadStays, OrderTypes, RegistryAssumption DEF InOrder, PointerInOrder, TypeInv, RestTypes
  <2> QED
    BY <2>1, OrderTypes DEF Ahead, StillAhead, OutKept
<1>2. HandedOffInOrder'
  <2> SUFFICES ASSUME NEW r \in Rows, open'[r].kind = "publish" PROVE Ahead(r, open[r].tag)'
    BY DEF HandedOffInOrder
  <2>1. StillAhead(r, open[r].tag) /\ open'[r].tag = open[r].tag
    BY AheadStays, OrderTypes DEF InOrder, HandedOffInOrder, OpenKept
  <2> QED
    BY <2>1 DEF Ahead, StillAhead
<1> QED
  BY <1>1, <1>2

LEMMA ClaimInOrder ==
    ASSUME SingleWorker, TypeInv, TypeInv', InOrder, NEW w \in Workers, NEW r \in Rows,
           ClaimJob(w, r)
    PROVE  InOrder'
<1>1. OpenKept /\ OutKept
  BY SameKept DEF ClaimJob, OpenKept, TypeInv, JobTypes, Job, NoJob
<1>2. /\ \A v \in Workers : v # w => worker'[v] = worker[v]
      /\ worker'[w].row = r /\ worker'[w].tag = open[r].tag /\ worker'[w].pc = "run"
  BY DEF ClaimJob, TypeInv, WorkerTypes
<1>3. w \in Signers => open[r].kind = "publish"
  BY RegistryAssumption DEF ClaimJob, Claimable, Claims
<1>4. \A v \in Workers : worker'[v].tag \in Nat
  BY OrderTypes, RegistryAssumption DEF TypeInv, WorkerTypes, WorkerState
<1>5. ASSUME NEW x \in Rows, NEW s \in Signers, Signing(s, x)'
      PROVE  /\ StillAhead(x, worker'[s].tag)
             /\ open'[x].kind = "publish" => worker'[s].tag <= open'[x].tag
  <2>1. CASE s = w
    <3>1. x = r /\ open[r].kind = "publish"
      BY <1>2, <1>3, <1>5, <2>1 DEF Signing
    <3>2. StillAhead(r, open[r].tag)
      BY <1>1, <3>1, AheadStays, OrderTypes DEF InOrder, HandedOffInOrder
    <3> QED
      BY <1>1, <1>2, <2>1, <3>1, <3>2, OrderTypes DEF OpenKept
  <2>2. CASE s # w
    <3>1. Signing(s, x) /\ worker'[s] = worker[s]
      BY <1>2, <1>5, <2>2 DEF Signing
    <3> QED
      BY <1>1, <3>1, AheadStays, OrderTypes DEF InOrder, SignedInOrder, OpenKept
  <2> QED
    BY <2>1, <2>2
<1>6. ASSUME NEW x \in Rows, NEW i \in Ingesters, Decided(i, x)'
      PROVE  /\ StillAhead(x, worker'[i].tag)
             /\ open'[x].kind = "publish" => open'[x].tag <= worker'[i].tag
             /\ \A s \in Signers : Signing(s, x)' => worker'[s].tag <= worker'[i].tag
  <2>1. Decided(i, x) /\ worker'[i] = worker[i]
    BY <1>2, <1>6 DEF Decided
  <2>2. /\ StillAhead(x, worker'[i].tag)
        /\ open'[x].kind = "publish" => open'[x].tag <= worker'[i].tag
    BY <1>1, <2>1, AheadStays, OrderTypes DEF InOrder, DecidedInOrder, OpenKept
  <2>3. ASSUME NEW s \in Signers, Signing(s, x)' PROVE worker'[s].tag <= worker'[i].tag
    <3>1. CASE s = w
      BY <1>2, <1>3, <2>1, <2>3, <3>1 DEF Signing, InOrder, DecidedInOrder
    <3>2. CASE s # w
      BY <1>2, <2>1, <2>3, <3>2 DEF Signing, InOrder, DecidedInOrder
    <3> QED
      BY <3>1, <3>2
  <2> QED
    BY <2>2, <2>3
<1>7. SignedInOrder' /\ DecidedInOrder'
  BY <1>5, <1>6 DEF SignedInOrder, DecidedInOrder, Ahead, StillAhead
<1> QED
  BY <1>1, <1>7, OpenInOrder DEF InOrder

LEMMA PollInOrder ==
    ASSUME TypeInv, TypeInv', InOrder, NEW w \in Ingesters, NEW attested \in BOOLEAN,
           RunPoll(w, attested)
    PROVE  InOrder'
<1> DEFINE r == worker[w].row
<1>1. OpenKept /\ OutKept /\ w \notin Signers /\ r \in Rows
  BY SameKept, RegistryAssumption DEF RunPoll, Working, TypeInv, WorkerTypes, Between
<1>2. /\ \A v \in Workers : v # w => worker'[v] = worker[v]
      /\ worker'[w].row = r /\ worker'[w].tag = forge[r]
  BY DEF RunPoll, TypeInv, WorkerTypes
<1> HIDE DEF r
<1>3. ASSUME NEW x \in Rows, NEW s \in Signers, Signing(s, x)'
      PROVE  /\ Signing(s, x) /\ worker'[s] = worker[s]
             /\ StillAhead(x, worker'[s].tag)
             /\ open'[x].kind = "publish" => worker'[s].tag <= open'[x].tag
  <2>1. Signing(s, x) /\ worker'[s] = worker[s]
    BY <1>1, <1>2, <1>3 DEF Signing
  <2> QED
    BY <1>1, <2>1, AheadStays, OrderTypes DEF InOrder, SignedInOrder, OpenKept
<1>4. ASSUME NEW x \in Rows, NEW i \in Ingesters, Decided(i, x)'
      PROVE  /\ StillAhead(x, worker'[i].tag)
             /\ open'[x].kind = "publish" => open'[x].tag <= worker'[i].tag
             /\ \A s \in Signers : Signing(s, x)' => worker'[s].tag <= worker'[i].tag
  <2>1. CASE i = w
    <3>1. x = r /\ worker'[i].tag = forge[x]
      BY <1>2, <1>4, <2>1 DEF Decided
    <3>2. StillAhead(x, forge[x])
      BY <1>1, AheadStays, OrderTypes DEF InOrder, PointerInOrder
    <3>3. open'[x].kind = "publish" => open'[x].tag <= forge[x]
      BY <1>1 DEF InOrder, HandedOffInOrder, Ahead, OpenKept
    <3>4. \A s \in Signers : Signing(s, x)' => worker'[s].tag <= forge[x]
      BY <1>3 DEF InOrder, SignedInOrder, Ahead
    <3> QED
      BY <3>1, <3>2, <3>3, <3>4
  <2>2. CASE i # w
    <3>1. Decided(i, x) /\ worker'[i] = worker[i]
      BY <1>2, <1>4, <2>2 DEF Decided
    <3>2. /\ StillAhead(x, worker'[i].tag)
          /\ open'[x].kind = "publish" => open'[x].tag <= worker'[i].tag
      BY <1>1, <3>1, AheadStays, OrderTypes DEF InOrder, DecidedInOrder, OpenKept
    <3> QED
      BY <1>3, <3>1, <3>2 DEF InOrder, DecidedInOrder
  <2> QED
    BY <2>1, <2>2
<1>5. SignedInOrder' /\ DecidedInOrder'
  BY <1>3, <1>4 DEF SignedInOrder, DecidedInOrder, Ahead, StillAhead
<1> QED
  BY <1>1, <1>5, OpenInOrder DEF InOrder

(* The one ingest worker hands off, and has then decided on nothing else. *)
LEMMA HandOffInOrder ==
    ASSUME SingleWorker, TypeInv, TypeInv', InOrder, NEW w \in Ingesters, HandOffToSigner(w)
    PROVE  InOrder'
<1> DEFINE r == worker[w].row
           t == worker[w].tag
<1>1. WorkKept /\ OutKept /\ r \in Rows /\ t \in Nat
  BY SameKept, RestingKept, OrderTypes DEF HandOffToSigner, TypeInv, WorkerTypes, Between
<1>2. CASE UNCHANGED open
  BY <1>1, <1>2, SameKept, KeptInOrder
<1>3. CASE worker[w].promote /\ Enqueue(r, "publish", t, {}) /\ ~HasOpen(r)
  <2>1. Decided(w, r)
    BY <1>3 DEF HandOffToSigner, Decided
  <2>2. /\ Ahead(r, t)
        /\ \A s \in Signers : Signing(s, r) => worker[s].tag <= t
    BY <1>1, <2>1 DEF InOrder, DecidedInOrder
  <2>3. /\ open'[r].kind = "publish" /\ open'[r].tag = t
        /\ \A x \in Rows : x # r => open'[x] = open[x]
    BY <1>1, <1>3 DEF Enqueue, TypeInv, JobTypes
  <2>4. \A i \in Ingesters, x \in Rows : ~Decided(i, x)'
    BY DEF SingleWorker, HandOffToSigner, Rest, Idle, NoWork, Decided, TypeInv, WorkerTypes
  <2> HIDE DEF r, t
  <2>5. PointerInOrder'
    <3> SUFFICES ASSUME NEW x \in Rows PROVE Ahead(x, forge[x])'
      BY DEF PointerInOrder
    <3>1. forge' = forge /\ StillAhead(x, forge[x])
      BY <1>1, AheadStays, OrderTypes DEF HandOffToSigner, InOrder, PointerInOrder
    <3> QED
      BY <3>1 DEF Ahead, StillAhead
  <2>6. HandedOffInOrder'
    <3> SUFFICES ASSUME NEW x \in Rows, open'[x].kind = "publish" PROVE Ahead(x, open[x].tag)'
      BY DEF HandedOffInOrder
    <3>1. StillAhead(x, open'[x].tag)
      <4>1. CASE x = r
        BY <1>1, <2>2, <2>3, <4>1, AheadStays
      <4>2. CASE x # r
        BY <1>1, <2>3, <4>2, AheadStays, OrderTypes DEF InOrder, HandedOffInOrder
      <4> QED
        BY <4>1, <4>2
    <3> QED
      BY <3>1 DEF Ahead, StillAhead
  <2>7. SignedInOrder'
    <3> SUFFICES ASSUME NEW x \in Rows, NEW s \in Signers, Signing(s, x)'
                 PROVE  /\ StillAhead(x, worker'[s].tag)
                        /\ open'[x].kind = "publish" => worker'[s].tag <= open'[x].tag
      BY DEF SignedInOrder, Ahead, StillAhead
    <3>1. Signing(s, x) /\ worker'[s].tag = worker[s].tag
      BY <1>1 DEF WorkKept
    <3>2. StillAhead(x, worker[s].tag)
      BY <1>1, <3>1, AheadStays, OrderTypes DEF InOrder, SignedInOrder
    <3>3. open'[x].kind = "publish" => worker[s].tag <= open'[x].tag
      BY <2>2, <2>3, <3>1 DEF InOrder, SignedInOrder
    <3> QED
      BY <3>1, <3>2, <3>3
  <2> QED
    BY <2>4, <2>5, <2>6, <2>7 DEF InOrder, DecidedInOrder
<1> QED
  BY <1>2, <1>3 DEF HandOffToSigner, Enqueue

LEMMA PublishInOrder ==
    ASSUME OneSourcePerApp, SingleWorker, TypeInv, TypeInv', Approved, InOrder,
           NEW w \in Signers, Publish(w)
    PROVE  InOrder' /\ \A a \in Apps : current'[a] >= current[a]
<1>1. PICK r \in Rows : r = worker[w].row
  BY DEF Publish, Working, TypeInv, WorkerTypes, Between
<1>2. PICK t \in Nat : t = worker[w].tag
  BY OrderTypes
<1>3. Signing(w, r) /\ open' = open /\ forge' = forge
  BY <1>1 DEF Publish, Working, Signing
<1>4. current' = [current EXCEPT ![AppOf[r]] = t]
  BY <1>1, <1>2 DEF Publish
<1>5. Ahead(r, t)
  BY <1>2, <1>3 DEF InOrder, SignedInOrder
<1>6. /\ current'[AppOf[r]] = t
      /\ \A x \in Rows : x # r => current'[AppOf[x]] = current[AppOf[x]]
  BY <1>4, OrderTypes DEF OneSourcePerApp, TypeInv, RestTypes
<1>7. \A a \in Apps : current'[a] >= current[a]
  BY <1>4, <1>5, OrderTypes DEF Ahead, TypeInv, RestTypes
<1>8. ASSUME NEW x \in Rows, NEW tag \in Nat, Ahead(x, tag), x = r => t <= tag
      PROVE  StillAhead(x, tag)
  BY <1>3, <1>6, <1>8 DEF Ahead, StillAhead
<1>9. WorkKept
  <2>1. ~worker[w].promote
    BY DEF Publish, Working, Approved, WorkApproved
  <2> QED
    BY <2>1, StepKept DEF Publish, TypeInv, Pc, Working
<1>10. \A s \in Signers, x \in Rows : ~Signing(s, x)'
  BY DEF SingleWorker, Publish, Step, Signing, TypeInv, WorkerTypes
<1>11. PointerInOrder'
  <2> SUFFICES ASSUME NEW x \in Rows PROVE StillAhead(x, forge[x])
    BY <1>3 DEF PointerInOrder, Ahead, StillAhead
  <2> QED
    BY <1>5, <1>8, OrderTypes DEF InOrder, PointerInOrder, Ahead
<1>12. HandedOffInOrder'
  <2> SUFFICES ASSUME NEW x \in Rows, open[x].kind = "publish" PROVE StillAhead(x, open[x].tag)
    BY <1>3 DEF HandedOffInOrder, Ahead, StillAhead
  <2>1. x = r => t <= open[x].tag
    BY <1>2, <1>3 DEF InOrder, SignedInOrder
  <2> QED
    BY <1>8, <2>1, OrderTypes DEF InOrder, HandedOffInOrder
<1>13. DecidedInOrder'
  <2> SUFFICES ASSUME NEW x \in Rows, NEW i \in Ingesters, Decided(i, x)'
               PROVE  /\ StillAhead(x, worker'[i].tag)
                      /\ open'[x].kind = "publish" => open'[x].tag <= worker'[i].tag
    BY <1>10 DEF DecidedInOrder, Ahead, StillAhead
  <2>1. Decided(i, x) /\ worker'[i].tag = worker[i].tag
    BY <1>9 DEF WorkKept
  <2>2. x = r => t <= worker[i].tag
    BY <1>2, <1>3, <2>1 DEF InOrder, DecidedInOrder
  <2>3. StillAhead(x, worker[i].tag)
    BY <1>8, <2>1, <2>2, OrderTypes DEF InOrder, DecidedInOrder
  <2> QED
    BY <1>3, <2>1, <2>3 DEF InOrder, DecidedInOrder
<1> QED
  BY <1>7, <1>10, <1>11, <1>12, <1>13 DEF InOrder, SignedInOrder

LEMMA OrderStep ==
    ASSUME OneSourcePerApp, SingleWorker
    PROVE  TypeInv /\ TypeInv' /\ Approved /\ InOrder /\ [Next]_vars =>
           InOrder' /\ \A a \in Apps : current'[a] >= current[a]
<1> SUFFICES ASSUME TypeInv, TypeInv', Approved, InOrder, [Next]_vars
             PROVE  InOrder' /\ \A a \in Apps : current'[a] >= current[a]
  OBVIOUS
<1>1. ASSUME Kept PROVE InOrder'
  BY <1>1, KeptInOrder DEF Kept
<1>2. ASSUME current' = current PROVE \A a \in Apps : current'[a] >= current[a]
  BY <1>2, OrderTypes
<1>3. CASE UNCHANGED vars
  <2>1. Kept
    BY <1>3, SameKept DEF Kept, vars
  <2> QED
    BY <1>1, <1>2, <1>3, <2>1 DEF vars
<1>4. CASE Operator \/ \E r \in Rows : Time(r) \/ NewRelease(r)
  BY <1>1, <1>2, <1>4, OthersKept DEF Kept, OutKept
<1>5. ASSUME NEW q \in Requests, RequestStep(q) \/ Abort(q)
      PROVE  InOrder' /\ \A a \in Apps : current'[a] >= current[a]
  BY <1>1, <1>2, <1>5, RequestsKept DEF Kept, OutKept
<1>6. ASSUME NEW w \in Workers, Common(w)
      PROVE  InOrder' /\ \A a \in Apps : current'[a] >= current[a]
  <2>1. ASSUME NEW r \in Rows, ClaimJob(w, r)
        PROVE  InOrder' /\ current' = current
    BY <2>1, ClaimInOrder DEF ClaimJob
  <2>2. CASE ~\E r \in Rows : ClaimJob(w, r)
    BY <1>1, <1>2, <1>6, <2>2, CommonKept DEF Kept, OutKept
  <2> QED
    BY <1>2, <2>1, <2>2
<1>7. ASSUME NEW w \in Ingesters, IngestOnly(w)
      PROVE  InOrder' /\ \A a \in Apps : current'[a] >= current[a]
  <2>1. CASE HandOffToSigner(w)
    BY <1>2, <2>1, HandOffInOrder DEF HandOffToSigner
  <2>2. ASSUME NEW attested \in BOOLEAN, RunPoll(w, attested)
        PROVE  InOrder' /\ current' = current
    BY <2>2, PollInOrder DEF RunPoll
  <2>3. CASE ~HandOffToSigner(w) /\ ~\E attested \in BOOLEAN : RunPoll(w, attested)
    BY <1>1, <1>2, <1>7, <2>3, IngestKept DEF Kept, OutKept
  <2> QED
    BY <1>2, <2>1, <2>2, <2>3
<1>8. ASSUME NEW w \in Signers, SignOnly(w)
      PROVE  InOrder' /\ \A a \in Apps : current'[a] >= current[a]
  <2>1. CASE Publish(w)
    BY <2>1, PublishInOrder
  <2>2. CASE PublishRefused(w)
    <3>1. WorkKept
      BY <2>2, StepKept DEF PublishRefused, TypeInv, Pc
    <3>2. Kept
      BY <2>2, <3>1, SameKept DEF PublishRefused, Kept
    <3> QED
      BY <1>1, <1>2, <3>2 DEF Kept, OutKept
  <2> QED
    BY <1>8, <2>1, <2>2 DEF SignOnly
<1> QED
  BY <1>3, <1>4, <1>5, <1>6, <1>7, <1>8, NextCases

(* With one ingest worker and one signing worker, as deployed, the pointer of an
   application with one source never goes back to an older release, whatever is
   requeued, retried, refused or handed off late (dist_sign.worker.do_publish,
   dist_ingest.worker._hand_off_to_signer).  With two ingest workers it is false:
   the one that was slow hands off what the other has left behind. *)
THEOREM PointerNeverRegresses == ASSUME SingleWorker PROVE Spec => CurrentNeverRegresses
<1>1. CASE OneSourcePerApp
  <2>1. Init => InOrder
    BY <1>1, RegistryAssumption
    DEF Init, InOrder, PointerInOrder, HandedOffInOrder, SignedInOrder, DecidedInOrder,
        Ahead, Signing, Decided, NoJob, Idle, NoWork
  <2>2. Spec => []TypeInv
    BY TypeInit, TypeStep, PTL DEF Spec
  <2>3. Init => Approved
    BY DEF Init, Approved, OpenApproved, WorkApproved, PublishedWasApproved, NoJob, Idle, NoWork
  <2>4. TypeInv /\ TypeInv' /\ Approved /\ InOrder /\ [Next]_vars => InOrder'
    BY <1>1, OrderStep
  <2>5. TypeInv /\ TypeInv' /\ Approved /\ InOrder /\ [Next]_vars =>
        [(\A r, s \in Rows : AppOf[r] = AppOf[s] => r = s)
           => \A a \in Apps : current'[a] >= current[a]]_vars
    BY <1>1, OrderStep
  <2> QED
    BY <2>1, <2>2, <2>3, <2>4, <2>5, ApprovedStep, PTL DEF Spec, CurrentNeverRegresses
<1>2. CASE ~OneSourcePerApp
  <2>1. [Next]_vars => [(\A r, s \in Rows : AppOf[r] = AppOf[s] => r = s)
                          => \A a \in Apps : current'[a] >= current[a]]_vars
    BY <1>2 DEF OneSourcePerApp
  <2> QED
    BY <2>1, PTL DEF Spec, CurrentNeverRegresses
<1> QED
  BY <1>1, <1>2
=============================================================================
