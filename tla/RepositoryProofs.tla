-------------------------- MODULE RepositoryProofs --------------------------
(***************************************************************************)
(* Theorems about Repository, for any processes, applications, releases    *)
(* and any number of crashes and failed writes, and about the checks of    *)
(* Client that run beside it.                                              *)
(*                                                                         *)
(* How the callers serialise decides what holds, and each theorem says     *)
(* what it needs of Lock: nothing, or that no two operations overlap, or   *)
(* that at most one ceremony is up, or at most one process.                *)
(***************************************************************************)
EXTENDS Client, TLAPS

USE RepositoryAssumption

-----------------------------------------------------------------------------
(* Whatever the lock *)

(* What is still to be written in the operation that w is in. *)
Ahead(w, r) ==
    /\ Busy(w)
    /\ \/ r = "timestamp"
       \/ r = "snapshot" /\ pc[w] # "timestamp"
       \/ r = job[w].app /\ pc[w] \in {"targets", "role"}
       \/ r = "targets" /\ pc[w] = "targets"

(* Each file has a number within the bound, and an operation leaves room for the
   versions it has yet to write. *)
Room ==
    /\ \A r \in Roles : OnDisk(r) <= MaxVersion
    /\ \A w \in Writers, r \in Roles : Ahead(w, r) => known[w][r] < MaxVersion

(* Where a process is in its operation tells what it has written of it. *)
Initializes(w) == job[w].op = "initialize" /\ job[w].app = "none"
Edits(w) == job[w].op \in {"add_app", "add_release", "set_current"} /\ job[w].app \in appRoles[w]
JobFits(w) ==
    /\ pc[w] = "targets" =>
          /\ w \in Ceremonies /\ initialized
          /\ Initializes(w) \/ (job[w].op = "add_app" /\ job[w].app \in Apps)
    /\ pc[w] = "role" => Edits(w)
    /\ pc[w] \in {"snapshot", "timestamp"} =>
          Initializes(w) \/ (Edits(w) /\ known[w][job[w].app] > 0)
    /\ pc[w] \in {"role", "snapshot", "timestamp"} => known[w]["targets"] > 0
    /\ pc[w] = "timestamp" => known[w]["snapshot"] > 0
    /\ appRoles[w] # {} => known[w]["targets"] > 0
    /\ pc[w] # "targets" /\ job[w].op \in {"add_release", "set_current"} => job[w].release \in Releases
Jobs == \A w \in Writers : JobFits(w)

(* Every reference is to a file that is there. *)
FilesExist ==
    /\ Served => timestampFile.snapshot \in DOMAIN snapshotFile
    /\ \A i \in DOMAIN snapshotFile :
          /\ snapshotFile[i]["targets"] \in DOMAIN targetsFile
          /\ \A a \in Apps : snapshotFile[i][a] <= Len(appFile[a])

(* The lock does what it says. *)
Exclusion ==
    /\ Lock = "process" => \A v, w \in Writers : Up(v) /\ Up(w) => v = w
    /\ Lock # "none" => \A v, w \in Writers : Busy(v) /\ Busy(w) => v = w

(* The delegated roles that a process remembers are those of the targets that it
   remembers. *)
Remembers == \A w \in Writers : appRoles[w] = Delegated(OpenTargets(w))

BaseInv == TypeOK /\ Room /\ Jobs /\ FilesExist /\ Exclusion

-----------------------------------------------------------------------------
(* If there is one ceremony at a time *)

OneCeremonyUp == Lock = "process" \/ \A v, w \in Ceremonies : v = w

(* Only a ceremony writes targets, so that its memory of them does not grow stale. *)
TargetsKnown == \A w \in Ceremonies : Up(w) => known[w]["targets"] = Len(targetsFile)

TargetsGrow ==
    \A i, j \in DOMAIN targetsFile :
        i <= j => Delegated(targetsFile[i]) \subseteq Delegated(targetsFile[j])

NamedIsDelegated ==
    \A i \in DOMAIN snapshotFile, a \in Apps :
        snapshotFile[i][a] # 0 => a \in Delegated(targetsFile[snapshotFile[i]["targets"]])

DelegationInv ==
    OneCeremonyUp /\ BaseInv /\ Remembers /\ TargetsKnown /\ TargetsGrow /\ NamedIsDelegated

-----------------------------------------------------------------------------
(* If no two operations overlap *)

(* What is about to be listed is stored, and what is about to be pointed at is
   listed. *)
PendingIsServed ==
    \A w \in Writers : pc[w] = "role" =>
        /\ job[w].op = "add_release" => <<job[w].app, job[w].release>> \in payload
        /\ job[w].op = "set_current" => job[w].release \in OpenRole(w, job[w].app).releases

ListingInv == Lock # "none" /\ BaseInv /\ PointerIsServed /\ PendingIsServed

-----------------------------------------------------------------------------
(* If one process is up at a time *)

InStep == \A w \in Writers : Up(w) => \A r \in Roles : known[w][r] = OnDisk(r)

(* Later files go on from earlier ones. *)
Continues(new, old) ==
    /\ old.releases \subseteq new.releases
    /\ new.pointer = old.pointer \/ new.pointer \in new.releases
ListingsContinue ==
    \A a \in Apps : \A i, j \in DOMAIN appFile[a] : i <= j => Continues(appFile[a][j], appFile[a][i])
SnapshotsAdvance ==
    \A i, j \in DOMAIN snapshotFile :
        i <= j => \A r \in Named : snapshotFile[i][r] <= snapshotFile[j][r]

(* The files that are written and not yet served hold the result. *)
Unserved(w) ==
    /\ pc[w] \in {"snapshot", "timestamp"} =>
          /\ job[w].op = "add_release" =>
                job[w].release \in OpenRole(w, job[w].app).releases
          /\ job[w].op = "set_current" =>
                job[w].release = OpenRole(w, job[w].app).pointer
    /\ pc[w] = "timestamp" =>
          \A r \in Named : Infos(w)[r] # 0 => OpenSnapshot(w)[r] = Infos(w)[r]

ResultsWait == \A w \in Writers : Unserved(w)

SerialInv ==
    /\ Lock = "process" /\ DelegationInv /\ ListingInv
    /\ InStep /\ ListingsContinue /\ SnapshotsAdvance
    /\ ResultsWait

-----------------------------------------------------------------------------
(* Files, and the memory of a process *)

(* OnDisk, role by role. *)
DiskNumbers ==
    /\ OnDisk("root") = IF initialized THEN 1 ELSE 0
    /\ OnDisk("targets") = Len(targetsFile)
    /\ OnDisk("snapshot") = Len(snapshotFile)
    /\ OnDisk("timestamp") = timestampFile.version
    /\ \A a \in Apps : OnDisk(a) = Len(appFile[a])
LEMMA NumbersOnDisk == DiskNumbers
  BY DEF DiskNumbers, OnDisk, TopLevel

(* What _write does to the files of a role: it replaces one or adds the next. *)
LEMMA WrittenFile ==
    ASSUME NEW S, NEW file \in Seq(S), NEW v \in 1..(Len(file) + 1), NEW content \in S
    PROVE  /\ Written(file, v, content) \in Seq(S)
           /\ Len(Written(file, v, content)) = IF v = Len(file) + 1 THEN v ELSE Len(file)
           /\ Len(Written(file, v, content)) >= Len(file)
           /\ v \in 1..Len(Written(file, v, content))
           /\ Written(file, v, content)[v] = content
           /\ \A i \in 1..Len(file) : i # v => Written(file, v, content)[i] = file[i]
<1>1. Len(file) \in Nat
  OBVIOUS
<1>2. CASE v = Len(file) + 1
  <2>1. Written(file, v, content) = Append(file, content)
    BY <1>2 DEF Written
  <2> QED
    BY <1>1, <1>2, <2>1
<1>3. CASE v # Len(file) + 1
  <2>1. Written(file, v, content) = [file EXCEPT ![v] = content]
    BY <1>3 DEF Written
  <2>2. v \in 1..Len(file)
    BY <1>1, <1>3
  <2> QED
    BY <1>1, <1>3, <2>1, <2>2
<1> QED
  BY <1>2, <1>3

(* Every action is of one process, which it leaves at p with the memory and the
   job given. *)
Local(w, p, k, ar, j) ==
    /\ pc' = [pc EXCEPT ![w] = p]
    /\ known' = [known EXCEPT ![w] = k]
    /\ appRoles' = [appRoles EXCEPT ![w] = ar]
    /\ job' = [job EXCEPT ![w] = j]

MemoryTypes ==
    /\ pc \in [Writers -> Pc]
    /\ known \in [Writers -> [Roles -> 0..MaxVersion]]
    /\ appRoles \in [Writers -> SUBSET Apps]
    /\ job \in [Writers -> Job]

DiskTypes ==
    /\ initialized \in BOOLEAN
    /\ targetsFile \in Seq(Seq(Apps))
    /\ appFile \in [Apps -> Seq(Listing)]
    /\ snapshotFile \in Seq([Named -> 0..MaxVersion])
    /\ timestampFile \in [version: 0..MaxVersion, snapshot: 0..MaxVersion]
    /\ payload \in SUBSET (Apps \X Releases)
    /\ faults \in 0..MaxFaults

KnownExists == \A w \in Writers, r \in Roles \ {"timestamp"} : known[w][r] <= OnDisk(r)

LEMMA TypeParts == TypeOK <=> MemoryTypes /\ DiskTypes /\ KnownExists
  BY DEF TypeOK, MemoryTypes, DiskTypes, KnownExists

LEMMA LocalMoves ==
    ASSUME MemoryTypes, NEW w \in Writers, NEW p \in Pc, NEW k \in [Roles -> 0..MaxVersion],
           NEW ar \in SUBSET Apps, NEW j \in Job, Local(w, p, k, ar, j)
    PROVE  /\ MemoryTypes'
           /\ pc'[w] = p /\ known'[w] = k /\ appRoles'[w] = ar /\ job'[w] = j
           /\ \A v \in Writers \ {w} :
                 /\ pc'[v] = pc[v] /\ known'[v] = known[v]
                 /\ appRoles'[v] = appRoles[v] /\ job'[v] = job[v]
  BY DEF MemoryTypes, Local

-----------------------------------------------------------------------------
(* The base invariant *)

LEMMA DiskNumbersNext == DiskNumbers'
  BY NumbersOnDisk, PTL

FilesStay ==
    /\ initialized => initialized'
    /\ Len(targetsFile) <= Len(targetsFile')
    /\ Len(snapshotFile) <= Len(snapshotFile')
    /\ \A a \in Apps : Len(appFile[a]) <= Len(appFile'[a])

(* What process w has to meet where it is. *)
Fits(w) ==
    /\ \A r \in Roles \ {"timestamp"} : known[w][r] <= OnDisk(r)
    /\ \A r \in Roles : Ahead(w, r) => known[w][r] < MaxVersion
    /\ JobFits(w)

(* A process that comes up, or begins an operation, observes the lock. *)
Observes(w) ==
    /\ Lock = "process" /\ ~Up(w) /\ Up(w)' => \A v \in Writers : ~Up(v)
    /\ Lock = "operation" /\ ~Busy(w) /\ Busy(w)' => \A v \in Writers : ~Busy(v)

LEMMA FilesStayOnDisk ==
    ASSUME DiskTypes, DiskTypes', FilesStay, NEW r \in Roles \ {"timestamp"}
    PROVE  OnDisk(r) <= OnDisk(r)' /\ OnDisk(r) \in Nat /\ OnDisk(r)' \in Nat
<1>1. DiskNumbers /\ DiskNumbers'
  BY NumbersOnDisk, DiskNumbersNext
<1>2. CASE r = "root"
  BY <1>1, <1>2 DEF DiskTypes, FilesStay, DiskNumbers
<1>3. CASE r = "targets"
  <2>1. Len(targetsFile) \in Nat /\ Len(targetsFile') \in Nat
    BY DEF DiskTypes
  <2> QED
    BY <1>1, <1>3, <2>1 DEF FilesStay, DiskNumbers
<1>4. CASE r = "snapshot"
  <2>1. Len(snapshotFile) \in Nat /\ Len(snapshotFile') \in Nat
    BY DEF DiskTypes
  <2> QED
    BY <1>1, <1>4, <2>1 DEF FilesStay, DiskNumbers
<1>5. CASE r \in Apps
  <2>1. Len(appFile[r]) \in Nat /\ Len(appFile'[r]) \in Nat
    BY <1>5 DEF DiskTypes
  <2> QED
    BY <1>1, <1>5, <2>1 DEF FilesStay, DiskNumbers
<1> QED
  BY <1>2, <1>3, <1>4, <1>5 DEF Roles, TopLevel

LEMMA StepKeepsBase ==
    ASSUME BaseInv, NEW w \in Writers, NEW p \in Pc, NEW k \in [Roles -> 0..MaxVersion],
           NEW ar \in SUBSET Apps, NEW j \in Job, Local(w, p, k, ar, j),
           DiskTypes', FilesStay, FilesExist', \A r \in Roles : OnDisk(r)' <= MaxVersion,
           Fits(w)', Observes(w)
    PROVE  BaseInv'
<1>1. MemoryTypes /\ DiskTypes /\ KnownExists
  BY TypeParts DEF BaseInv
<1>2. /\ MemoryTypes'
      /\ \A v \in Writers \ {w} :
            /\ pc'[v] = pc[v] /\ known'[v] = known[v]
            /\ appRoles'[v] = appRoles[v] /\ job'[v] = job[v]
  BY <1>1, LocalMoves
<1>3. KnownExists'
  <2> SUFFICES ASSUME NEW v \in Writers, NEW r \in Roles \ {"timestamp"}
               PROVE  known'[v][r] <= OnDisk(r)'
    BY DEF KnownExists
  <2>1. CASE v = w
    BY <2>1 DEF Fits
  <2>2. CASE v # w
    <3>1. known'[v][r] = known[v][r] /\ known[v][r] \in Nat
      BY <1>1, <1>2, <2>2 DEF MemoryTypes
    <3>2. known[v][r] <= OnDisk(r)
      BY <1>1 DEF KnownExists
    <3> QED
      BY <1>1, <3>1, <3>2, FilesStayOnDisk
  <2> QED
    BY <2>1, <2>2
<1>4. TypeOK'
  <2>1. TypeOK' <=> MemoryTypes' /\ DiskTypes' /\ KnownExists'
    BY TypeParts, PTL
  <2> QED
    BY <1>2, <1>3, <2>1
<1>5. Room'
  <2> SUFFICES ASSUME NEW v \in Writers, NEW r \in Roles, Ahead(v, r)'
               PROVE  known'[v][r] < MaxVersion
    BY DEF Room
  <2>1. CASE v = w
    BY <2>1 DEF Fits
  <2>2. CASE v # w
    <3>1. Ahead(v, r)
      BY <1>2, <2>2 DEF Ahead, Busy
    <3> QED
      BY <1>2, <2>2, <3>1 DEF BaseInv, Room
  <2> QED
    BY <2>1, <2>2
<1>6. Jobs'
  <2> SUFFICES ASSUME NEW v \in Writers PROVE JobFits(v)'
    BY DEF Jobs
  <2>1. CASE v = w
    BY <2>1 DEF Fits
  <2>2. CASE v # w
    BY <1>2, <2>2 DEF BaseInv, Jobs, JobFits, FilesStay, Initializes, Edits
  <2> QED
    BY <2>1, <2>2
<1>7. Exclusion'
  <2>1. ASSUME Lock = "process", NEW u \in Writers, NEW v \in Writers, Up(u)', Up(v)' PROVE u = v
    BY <1>2, <2>1 DEF BaseInv, Exclusion, Observes, Up
  <2>2. ASSUME Lock = "operation", NEW u \in Writers, NEW v \in Writers, Busy(u)', Busy(v)'
        PROVE  u = v
    BY <1>2, <2>2 DEF BaseInv, Exclusion, Observes, Busy
  <2>3. \A v \in Writers : Busy(v)' => Up(v)'
    BY DEF Busy, Up
  <2> QED
    BY <2>1, <2>2, <2>3 DEF Exclusion
<1> QED
  BY <1>4, <1>5, <1>6, <1>7 DEF BaseInv

(* The steps that write no metadata. *)
LEMMA MemoryStepKeepsBase ==
    ASSUME BaseInv, NEW w \in Writers, NEW p \in Pc, NEW k \in [Roles -> 0..MaxVersion],
           NEW ar \in SUBSET Apps, NEW j \in Job, Local(w, p, k, ar, j),
           UNCHANGED <<initialized, targetsFile, appFile, snapshotFile, timestampFile>>,
           payload' \in SUBSET (Apps \X Releases), faults' \in 0..MaxFaults,
           Fits(w)', Observes(w)
    PROVE  BaseInv'
<1>1. DiskTypes
  BY TypeParts DEF BaseInv
<1>2. DiskTypes'
  BY <1>1 DEF DiskTypes
<1>3. FilesStay
  <2>1. Len(targetsFile) \in Nat /\ Len(snapshotFile) \in Nat /\ \A a \in Apps : Len(appFile[a]) \in Nat
    BY <1>1 DEF DiskTypes
  <2> QED
    BY <2>1 DEF FilesStay
<1>4. FilesExist'
  BY DEF BaseInv, FilesExist, Served
<1>5. \A r \in Roles : OnDisk(r)' <= MaxVersion
  <2>1. \A r \in Roles : OnDisk(r)' = OnDisk(r)
    BY DEF OnDisk
  <2> QED
    BY <2>1 DEF BaseInv, Room
<1> QED
  BY <1>2, <1>3, <1>4, <1>5, StepKeepsBase

(* A process that is down or idle fits anywhere. *)
LEMMA RestFits ==
    ASSUME BaseInv, NEW w \in Writers, UNCHANGED diskVars,
           pc'[w] \in {"down", "idle"}, job'[w] \in {job[w], NoJob}, job'[w] = NoJob \/ ~Busy(w),
           appRoles'[w] # {} => known'[w]["targets"] > 0,
           \A r \in Roles \ {"timestamp"} : known'[w][r] <= OnDisk(r)
    PROVE  Fits(w)' /\ (pc[w] # "down" => Observes(w))
<1>1. \A r \in Roles : ~Ahead(w, r)'
  BY DEF Ahead, Busy
<1>2. \A r \in Roles : OnDisk(r)' = OnDisk(r)
  BY DEF OnDisk, diskVars
<1>3. JobFits(w)
  BY DEF BaseInv, Jobs
<1>4. JobFits(w)'
  BY <1>3 DEF JobFits, NoJob, Busy
<1>5. pc[w] # "down" => Observes(w)
  BY DEF Observes, Up, Busy
<1> QED
  BY <1>1, <1>2, <1>4, <1>5 DEF Fits

LEMMA DelegatedTypes ==
    ASSUME NEW list \in Seq(Apps)
    PROVE  Delegated(list) \in SUBSET Apps
  BY DEF Delegated

LEMMA GiveUpKeepsBase ==
    ASSUME BaseInv, NEW w \in Writers, GiveUp(w), Busy(w), UNCHANGED <<diskVars, memoryVars>>,
           faults' \in 0..MaxFaults
    PROVE  BaseInv'
<1>1. MemoryTypes /\ DiskTypes /\ KnownExists /\ JobFits(w)
  BY TypeParts DEF BaseInv, Jobs
<1>2. payload \in SUBSET (Apps \X Releases) /\ NoJob \in Job
  BY <1>1 DEF DiskTypes, NoJob, Job, Op
<1>3. Local(w, "idle", known[w], appRoles[w], NoJob)
  BY <1>1 DEF GiveUp, Local, MemoryTypes, memoryVars
<1>4. /\ pc'[w] = "idle" /\ known'[w] = known[w] /\ job'[w] = NoJob
      /\ appRoles'[w] = appRoles[w] /\ "idle" \in Pc
  BY <1>1, <1>3 DEF Local, MemoryTypes, Pc
<1>5. Fits(w)' /\ Observes(w)
  <2>1. pc[w] # "down" /\ (appRoles[w] # {} => known[w]["targets"] > 0)
    BY <1>1 DEF Busy, JobFits
  <2> QED
    BY <1>1, <1>4, <2>1, RestFits DEF KnownExists
<1>6. known[w] \in [Roles -> 0..MaxVersion] /\ appRoles[w] \in SUBSET Apps
  BY <1>1 DEF MemoryTypes
<1> QED
  BY <1>2, <1>3, <1>4, <1>5, <1>6, MemoryStepKeepsBase DEF diskVars

LEMMA ProcessKeepsBase ==
    ASSUME BaseInv, NEW w \in Writers, Process(w)
    PROVE  BaseInv'
<1>1. MemoryTypes /\ DiskTypes /\ KnownExists /\ JobFits(w)
  BY TypeParts DEF BaseInv, Jobs
<1>2. DiskNumbers
  BY NumbersOnDisk
<1>3. faults \in Nat /\ payload \in SUBSET (Apps \X Releases) /\ NoJob \in Job
  BY <1>1 DEF DiskTypes, NoJob, Job, Op
<1>4. CASE Start(w)
  <2> DEFINE k == [r \in Roles |-> OnDisk(r)]
             ar == Delegated(NewestTargets)
  <2>1. \A r \in Roles : OnDisk(r) \in 0..MaxVersion
    <3>1. \A r \in Roles : OnDisk(r) \in Nat
      BY <1>1, <1>2 DEF DiskTypes, DiskNumbers, Roles, TopLevel
    <3> QED
      BY <3>1 DEF BaseInv, Room
  <2>2. k \in [Roles -> 0..MaxVersion]
    BY <2>1
  <2>3. ar \in SUBSET Apps
    BY <1>1 DEF DiskTypes, NewestTargets, Delegated
  <2>4. Local(w, "idle", k, ar, job[w])
    BY <1>1, <1>4 DEF Start, Local, MemoryTypes
  <2> HIDE DEF ar
  <2>5. pc'[w] = "idle" /\ known'[w] = k /\ job'[w] = job[w] /\ "idle" \in Pc
    BY <1>1, <2>4 DEF Local, MemoryTypes, Pc
  <2>6. Fits(w)'
    <3>1. appRoles'[w] = ar /\ (ar # {} => Len(targetsFile) > 0)
      BY <1>1, <2>4 DEF Local, MemoryTypes, DiskTypes, ar, NewestTargets, Delegated
    <3>2. known'[w]["targets"] = Len(targetsFile)
      BY <1>2, <2>5 DEF DiskNumbers, Roles, TopLevel
    <3> QED
      BY <1>4, <2>1, <2>5, <3>1, <3>2, RestFits DEF Start, Busy
  <2>7. Observes(w)
    BY <1>4, <2>5 DEF Start, Observes, Busy
  <2>8. job[w] \in Job
    BY <1>1 DEF MemoryTypes
  <2> HIDE DEF k
  <2> QED
    BY <1>1, <1>3, <1>4, <2>2, <2>3, <2>4, <2>5, <2>6, <2>7, <2>8, MemoryStepKeepsBase
       DEF Start, diskVars, DiskTypes
<1>5. ASSUME Down(w), pc[w] # "down", UNCHANGED diskVars, faults' \in 0..MaxFaults
      PROVE  BaseInv'
  <2> DEFINE k == [r \in Roles |-> 0]
  <2>1. Local(w, "down", k, {}, NoJob)
    BY <1>5 DEF Down, Local
  <2>2. /\ pc'[w] = "down" /\ known'[w] = k /\ job'[w] = NoJob
        /\ appRoles'[w] = {} /\ "down" \in Pc
    BY <1>1, <2>1 DEF Local, MemoryTypes, Pc
  <2>3. \A r \in Roles \ {"timestamp"} : k[r] <= OnDisk(r)
    BY <1>1, <1>2 DEF DiskTypes, DiskNumbers, Roles, TopLevel
  <2>4. k \in [Roles -> 0..MaxVersion]
    OBVIOUS
  <2> HIDE DEF k
  <2>5. Fits(w)' /\ Observes(w)
    BY <1>5, <2>2, <2>3, RestFits
  <2> QED
    BY <1>3, <1>5, <2>1, <2>2, <2>4, <2>5, MemoryStepKeepsBase DEF diskVars
<1>6. CASE Stop(w)
  BY <1>1, <1>5, <1>6 DEF Stop, DiskTypes
<1>7. CASE Crash(w)
  BY <1>1, <1>5, <1>7 DEF Crash, DiskTypes, Busy
<1>8. CASE Raise(w)
  BY <1>1, <1>8, GiveUpKeepsBase DEF Raise, DiskTypes
<1> QED
  BY <1>4, <1>6, <1>7, <1>8 DEF Process

LEMMA OperationKeepsBase ==
    ASSUME BaseInv, NEW w \in Writers, Operation(w)
    PROVE  BaseInv'
<1>1. MemoryTypes /\ DiskTypes /\ KnownExists /\ JobFits(w)
  BY TypeParts DEF BaseInv, Jobs
<1>2. /\ payload \in SUBSET (Apps \X Releases) /\ faults \in 0..MaxFaults
      /\ known[w] \in [Roles -> 0..MaxVersion] /\ appRoles[w] \in SUBSET Apps
  BY <1>1 DEF DiskTypes, MemoryTypes
<1>3. \A p, op, a, n : Begin(w, p, op, a, n) => Observes(w)
  BY <1>1 DEF Begin, Observes, Up, Busy, Free, MemoryTypes
<1>4. ASSUME NEW p \in {"targets", "role"}, NEW op \in {"add_app", "add_release", "set_current"},
             NEW a \in Apps, NEW n \in 0..MaxRelease, Begin(w, p, op, a, n), Within(w),
             UNCHANGED <<initialized, targetsFile, appFile, snapshotFile, timestampFile,
                         memoryVars, faults>>,
             payload' \in SUBSET (Apps \X Releases),
             p = "targets" => w \in Ceremonies /\ initialized /\ op = "add_app",
             p = "role" => a \in appRoles[w] /\ n \in Releases
      PROVE  BaseInv'
  <2> DEFINE j == [op |-> op, app |-> a, release |-> n]
  <2>1. Local(w, p, known[w], appRoles[w], j)
    BY <1>1, <1>4 DEF Begin, Local, MemoryTypes, memoryVars
  <2>2. p \in Pc /\ j \in Job
    BY DEF Pc, Job, Op
  <2>3. /\ pc'[w] = p /\ known'[w] = known[w] /\ appRoles'[w] = appRoles[w]
        /\ job'[w].op = op /\ job'[w].app = a /\ job'[w].release = n
    <3>1. j.op = op /\ j.app = a /\ j.release = n
      OBVIOUS
    <3> HIDE DEF j
    <3>2. p \in Pc /\ known[w] \in [Roles -> 0..MaxVersion] /\ appRoles[w] \in SUBSET Apps
      BY <1>2, <2>2
    <3> QED
      BY <1>1, <2>1, <2>2, <3>1, <3>2, LocalMoves
  <2>4. \A r \in Roles : Ahead(w, r)' => known'[w][r] < MaxVersion
    BY <1>4, <2>3 DEF Ahead, Within, TopLevel
  <2>5. JobFits(w)'
    BY <1>1, <1>4, <2>3 DEF JobFits, Edits
  <2>6. \A r \in Roles \ {"timestamp"} : known'[w][r] <= OnDisk(r)'
    BY <1>1, <1>4, <2>3 DEF KnownExists, OnDisk
  <2> HIDE DEF j
  <2> QED
    BY <1>2, <1>3, <1>4, <2>1, <2>2, <2>4, <2>5, <2>6, MemoryStepKeepsBase DEF Fits
<1>5. CASE \E a \in Apps : AddApp(w, a)
  <2> PICK a \in Apps : AddApp(w, a)
    BY <1>5
  <2> QED
    BY <1>2, <1>4 DEF AddApp, diskVars
<1>6. ASSUME NEW a \in Apps, NEW n \in Releases, AddRelease(w, a, n) PROVE BaseInv'
  <2>1. payload' \in SUBSET (Apps \X Releases) /\ n \in 0..MaxRelease
    BY <1>2, <1>6 DEF AddRelease, Releases
  <2> QED
    BY <1>4, <1>6, <2>1 DEF AddRelease
<1>7. ASSUME NEW a \in Apps, NEW n \in Releases, SetCurrent(w, a, n) PROVE BaseInv'
  <2>1. n \in 0..MaxRelease
    BY DEF Releases
  <2> QED
    BY <1>2, <1>4, <1>7, <2>1 DEF SetCurrent, diskVars
<1>8. CASE Initialize(w)
  <2> DEFINE j == [op |-> "initialize", app |-> "none", release |-> 0]
             k == [known[w] EXCEPT !["root"] = 1]
  <2>1. "root" \in Roles
    BY DEF Roles, TopLevel
  <2>2. known' = [known EXCEPT ![w]["root"] = 0 + 1] /\ MaxVersion >= 1
    BY <1>8 DEF Initialize, Remember
  <2>3. Local(w, "targets", k, appRoles[w], j)
    BY <1>1, <1>8, <2>2 DEF Initialize, Begin, Local, MemoryTypes
  <2>4. "targets" \in Pc /\ j \in Job /\ k \in [Roles -> 0..MaxVersion]
    BY <1>2, <2>1, <2>2 DEF Pc, Job, Op
  <2>5. /\ pc'[w] = "targets" /\ known'[w] = k /\ appRoles'[w] = appRoles[w]
        /\ job'[w].op = "initialize" /\ job'[w].app = "none"
    BY <1>1, <1>2, <2>3, <2>4, LocalMoves
  <2>6. \A r \in Roles \ {"root"} : known'[w][r] = known[w][r]
    BY <1>2, <2>5
  <2>7. \A r \in Roles : Ahead(w, r)' => known'[w][r] < MaxVersion
    BY <1>8, <2>5, <2>6 DEF Ahead, Initialize, Within
  <2>8. JobFits(w)'
    <3>1. known'[w]["targets"] = known[w]["targets"]
      BY <2>6 DEF Roles, TopLevel
    <3> QED
      BY <1>1, <1>8, <2>5, <3>1 DEF JobFits, Initializes, Initialize
  <2>9. /\ DiskTypes' /\ FilesStay
        /\ \A r \in Roles \ {"root"} : OnDisk(r)' = OnDisk(r)
        /\ OnDisk("root")' = 1
    <3>1. Len(targetsFile) \in Nat /\ Len(snapshotFile) \in Nat /\ \A a \in Apps : Len(appFile[a]) \in Nat
      BY <1>1 DEF DiskTypes
    <3> QED
      BY <1>1, <1>8, <3>1 DEF Initialize, DiskTypes, FilesStay, OnDisk
  <2>10. \A r \in Roles \ {"timestamp"} : known'[w][r] <= OnDisk(r)'
    BY <1>1, <1>2, <2>1, <2>5, <2>6, <2>9 DEF KnownExists
  <2>11. \A r \in Roles : OnDisk(r)' <= MaxVersion
    BY <2>2, <2>9 DEF BaseInv, Room
  <2>12. FilesExist'
    BY <1>8 DEF Initialize, BaseInv, FilesExist, Served
  <2>13. Observes(w)
    BY <1>3, <1>8 DEF Initialize
  <2> HIDE DEF j, k
  <2> QED
    BY <1>2, <2>3, <2>4, <2>7, <2>8, <2>9, <2>10, <2>11, <2>12, <2>13, StepKeepsBase DEF Fits
<1> QED
  BY <1>5, <1>6, <1>7, <1>8 DEF Operation

(* The memory of w with one more version of role r. *)
Counted(w, r) == [known[w] EXCEPT ![r] = @ + 1]

LEMMA Counting ==
    ASSUME MemoryTypes, NEW w \in Writers, NEW r \in Roles, known[w][r] < MaxVersion
    PROVE  /\ Counted(w, r) \in [Roles -> 0..MaxVersion]
           /\ Counted(w, r)[r] = known[w][r] + 1 /\ known[w][r] \in Nat
           /\ \A s \in Roles \ {r} : Counted(w, r)[s] = known[w][s]
           /\ Remember(w, r) => known' = [known EXCEPT ![w] = Counted(w, r)]
<1>1. known[w] \in [Roles -> 0..MaxVersion] /\ known \in [Writers -> [Roles -> 0..MaxVersion]]
  BY DEF MemoryTypes
<1>2. known[w][r] \in Nat /\ known[w][r] + 1 \in 0..MaxVersion
  BY <1>1
<1>3. /\ Counted(w, r) \in [Roles -> 0..MaxVersion]
      /\ Counted(w, r)[r] = known[w][r] + 1
      /\ \A s \in Roles \ {r} : Counted(w, r)[s] = known[w][s]
  BY <1>1, <1>2 DEF Counted
<1> QED
  BY <1>1, <1>2, <1>3 DEF Remember, Counted

(* A numbered file is written: by the version that w counts, the next or an older. *)
FileWritten(w, r) ==
    /\ known[w][r] + 1 <= OnDisk(r)'
    /\ OnDisk(r) <= OnDisk(r)'
    /\ OnDisk(r)' <= MaxVersion
    /\ \A s \in Roles \ {r} : OnDisk(s)' = OnDisk(s)

LEMMA WriteStepKeepsBase ==
    ASSUME BaseInv, NEW w \in Writers, NEW r \in Roles \ {"root", "timestamp"}, Busy(w),
           NEW p \in Pc, NEW ar \in SUBSET Apps, Ahead(w, r),
           Local(w, p, Counted(w, r), ar, job[w]), FileWritten(w, r),
           DiskTypes', FilesStay, FilesExist',
           \A s \in Roles : Ahead(w, s)' => Ahead(w, s) /\ s # r,
           JobFits(w)'
    PROVE  BaseInv'
<1>1. MemoryTypes /\ DiskTypes /\ KnownExists
  BY TypeParts DEF BaseInv
<1>2. known[w][r] < MaxVersion /\ job[w] \in Job
  BY <1>1 DEF BaseInv, Room, MemoryTypes
<1>3. /\ Counted(w, r) \in [Roles -> 0..MaxVersion]
      /\ Counted(w, r)[r] = known[w][r] + 1 /\ known[w][r] \in Nat
      /\ \A s \in Roles \ {r} : Counted(w, r)[s] = known[w][s]
  BY <1>1, <1>2, Counting
<1>4. known'[w] = Counted(w, r)
  BY <1>1, <1>2, <1>3, LocalMoves
<1>5. \A s \in Roles \ {"timestamp"} : known'[w][s] <= OnDisk(s)'
  BY <1>1, <1>3, <1>4 DEF FileWritten, KnownExists
<1>6. \A s \in Roles : Ahead(w, s)' => known'[w][s] < MaxVersion
  BY <1>3, <1>4 DEF BaseInv, Room
<1>7. \A s \in Roles : OnDisk(s)' <= MaxVersion
  BY DEF FileWritten, BaseInv, Room
<1>8. Observes(w)
  BY DEF Observes, Busy, Up
<1> QED
  BY <1>2, <1>3, <1>5, <1>6, <1>7, <1>8, StepKeepsBase DEF Fits

(* The list of delegations. *)
LEMMA DelegateAdds ==
    ASSUME NEW list \in Seq(Apps), NEW app
    PROVE  /\ Delegate(list, app) \in Seq(Apps)
           /\ Delegated(Delegate(list, app)) = Delegated(list) \cup ({app} \cap Apps)
           /\ Delegated(list) \in SUBSET Apps
<1>1. Delegated(list) \in SUBSET Apps
  BY DEF Delegated
<1>2. CASE app \in Apps \ Delegated(list)
  <2>1. Delegate(list, app) = Append(list, app)
    BY <1>2 DEF Delegate
  <2>2. Append(list, app) \in Seq(Apps) /\ Len(list) \in Nat /\ DOMAIN list = 1..Len(list)
    BY <1>2
  <2>3. /\ DOMAIN Append(list, app) = 1..(Len(list) + 1)
        /\ Append(list, app)[Len(list) + 1] = app
        /\ \A i \in 1..Len(list) : Append(list, app)[i] = list[i]
    BY <2>2
  <2>4. Delegated(Append(list, app)) = Delegated(list) \cup {app}
    <3>1. ASSUME NEW x \in Delegated(Append(list, app)) PROVE x \in Delegated(list) \cup {app}
      <4>1. PICK i \in 1..(Len(list) + 1) : x = Append(list, app)[i]
        BY <2>3 DEF Delegated
      <4>2. CASE i = Len(list) + 1
        BY <2>3, <4>1, <4>2
      <4>3. CASE i \in 1..Len(list)
        BY <2>2, <2>3, <4>1, <4>3 DEF Delegated
      <4> QED
        BY <2>2, <4>2, <4>3
    <3>2. ASSUME NEW x \in Delegated(list) PROVE x \in Delegated(Append(list, app))
      <4>1. PICK i \in 1..Len(list) : x = list[i]
        BY <2>2 DEF Delegated
      <4>2. i \in DOMAIN Append(list, app) /\ Append(list, app)[i] = x
        BY <2>2, <2>3, <4>1
      <4> QED
        BY <4>2 DEF Delegated
    <3>3. app \in Delegated(Append(list, app))
      <4>1. Len(list) + 1 \in DOMAIN Append(list, app)
        BY <2>2, <2>3
      <4> QED
        BY <2>3, <4>1 DEF Delegated
    <3> QED
      BY <3>1, <3>2, <3>3
  <2> QED
    BY <1>1, <1>2, <2>1, <2>2, <2>4
<1>3. CASE app \notin Apps \ Delegated(list)
  BY <1>1, <1>3 DEF Delegate
<1> QED
  BY <1>2, <1>3

-----------------------------------------------------------------------------
(* What the writes write *)

NextTargets(w) == Delegate(OpenTargets(w), job[w].app)

LEMMA TargetsWritten ==
    ASSUME BaseInv, NEW w \in Writers, WriteTargets(w)
    PROVE  /\ known[w]["targets"] \in 0..Len(targetsFile) /\ known[w]["targets"] < MaxVersion
           /\ OpenTargets(w) \in Seq(Apps) /\ NextTargets(w) \in Seq(Apps)
           /\ targetsFile' \in Seq(Seq(Apps))
           /\ Len(targetsFile) \in Nat
           /\ Len(targetsFile') = IF known[w]["targets"] = Len(targetsFile)
                                  THEN Len(targetsFile) + 1 ELSE Len(targetsFile)
           /\ targetsFile'[known[w]["targets"] + 1] = NextTargets(w)
           /\ \A i \in 1..Len(targetsFile) :
                 i # known[w]["targets"] + 1 => targetsFile'[i] = targetsFile[i]
           /\ Local(w, IF job[w].op = "add_app" THEN "role" ELSE "snapshot", Counted(w, "targets"),
                    appRoles[w] \cup ({job[w].app} \cap Apps), job[w])
<1>1. MemoryTypes /\ DiskTypes /\ KnownExists /\ DiskNumbers
  BY TypeParts, NumbersOnDisk DEF BaseInv
<1>2. "targets" \in Roles /\ Busy(w) /\ Ahead(w, "targets")
  BY DEF Roles, TopLevel, WriteTargets, Busy, Ahead
<1>3. known[w]["targets"] \in 0..Len(targetsFile) /\ known[w]["targets"] < MaxVersion
  <2>1. known[w]["targets"] \in Nat /\ known[w]["targets"] <= Len(targetsFile)
    BY <1>1, <1>2 DEF MemoryTypes, KnownExists, DiskNumbers
  <2>2. Len(targetsFile) \in Nat
    BY <1>1 DEF DiskTypes
  <2> QED
    BY <1>2, <2>1, <2>2 DEF BaseInv, Room
<1>4. OpenTargets(w) \in Seq(Apps)
  BY <1>1, <1>3 DEF OpenTargets, DiskTypes
<1>5. NextTargets(w) \in Seq(Apps)
  BY <1>4, DelegateAdds DEF NextTargets
<1>6. targetsFile' = Written(targetsFile, known[w]["targets"] + 1, NextTargets(w))
  BY DEF WriteTargets, NextTargets
<1>7. targetsFile \in Seq(Seq(Apps)) /\ known[w]["targets"] + 1 \in 1..(Len(targetsFile) + 1)
      /\ Len(targetsFile) \in Nat
  BY <1>1, <1>3 DEF DiskTypes
<1>8. /\ targetsFile' \in Seq(Seq(Apps))
      /\ Len(targetsFile') = IF known[w]["targets"] + 1 = Len(targetsFile) + 1
                             THEN known[w]["targets"] + 1 ELSE Len(targetsFile)
      /\ targetsFile'[known[w]["targets"] + 1] = NextTargets(w)
      /\ \A i \in 1..Len(targetsFile) :
            i # known[w]["targets"] + 1 => targetsFile'[i] = targetsFile[i]
  <2> DEFINE v == known[w]["targets"] + 1
             S == Seq(Apps)
             file == Written(targetsFile, v, NextTargets(w))
  <2>1. targetsFile \in Seq(S) /\ v \in 1..(Len(targetsFile) + 1) /\ NextTargets(w) \in S
    BY <1>5, <1>7
  <2> HIDE DEF v, S
  <2>2. /\ file \in Seq(S) /\ Len(file) = IF v = Len(targetsFile) + 1 THEN v ELSE Len(targetsFile)
        /\ file[v] = NextTargets(w)
        /\ \A i \in 1..Len(targetsFile) : i # v => file[i] = targetsFile[i]
    BY <2>1, WrittenFile
  <2> QED
    BY <1>6, <2>2 DEF v, S
<1>9. Local(w, IF job[w].op = "add_app" THEN "role" ELSE "snapshot", Counted(w, "targets"),
            appRoles[w] \cup ({job[w].app} \cap Apps), job[w])
  <2>1. known' = [known EXCEPT ![w] = Counted(w, "targets")]
    BY <1>1, <1>2, <1>3, Counting DEF WriteTargets
  <2>2. job' = [job EXCEPT ![w] = job[w]]
    BY <1>1 DEF WriteTargets, MemoryTypes
  <2>3. /\ pc' = [pc EXCEPT ![w] = IF job[w].op = "add_app" THEN "role" ELSE "snapshot"]
        /\ appRoles' = [appRoles EXCEPT ![w] = appRoles[w] \cup ({job[w].app} \cap Apps)]
    BY DEF WriteTargets
  <2> QED
    BY <2>1, <2>2, <2>3 DEF Local
<1>10. Len(targetsFile') = IF known[w]["targets"] = Len(targetsFile)
                           THEN Len(targetsFile) + 1 ELSE Len(targetsFile)
  BY ONLY <1>3, <1>7, <1>8
<1> QED
  BY ONLY <1>3, <1>4, <1>5, <1>7, <1>8, <1>9, <1>10

LEMMA WriteTargetsKeepsBase ==
    ASSUME BaseInv, NEW w \in Writers, WriteTargets(w)
    PROVE  BaseInv'
<1>1. MemoryTypes /\ DiskTypes /\ DiskNumbers /\ DiskNumbers' /\ JobFits(w)
  BY TypeParts, NumbersOnDisk, DiskNumbersNext DEF BaseInv, Jobs
<1>2. /\ known[w]["targets"] \in 0..Len(targetsFile) /\ known[w]["targets"] < MaxVersion
      /\ targetsFile' \in Seq(Seq(Apps)) /\ Len(targetsFile) \in Nat
      /\ Len(targetsFile') = IF known[w]["targets"] = Len(targetsFile)
                             THEN Len(targetsFile) + 1 ELSE Len(targetsFile)
  BY TargetsWritten
<1> DEFINE p == IF job[w].op = "add_app" THEN "role" ELSE "snapshot"
           ar == appRoles[w] \cup ({job[w].app} \cap Apps)
<1>3. Local(w, p, Counted(w, "targets"), ar, job[w])
  BY TargetsWritten
<1>4. /\ "targets" \in Roles \ {"root", "timestamp"} /\ Busy(w) /\ Ahead(w, "targets")
      /\ p \in Pc /\ ar \in SUBSET Apps /\ job[w] \in Job
  BY <1>1 DEF Roles, TopLevel, WriteTargets, Busy, Ahead, MemoryTypes, Pc
<1>5. /\ pc'[w] = p /\ known'[w] = Counted(w, "targets") /\ appRoles'[w] = ar /\ job'[w] = job[w]
      /\ known'[w]["targets"] = known[w]["targets"] + 1
  <2> HIDE DEF p, ar
  <2>1. /\ Counted(w, "targets") \in [Roles -> 0..MaxVersion]
        /\ Counted(w, "targets")["targets"] = known[w]["targets"] + 1
    BY <1>1, <1>2, <1>4, Counting
  <2> QED
    BY <1>1, <1>3, <1>4, <2>1, LocalMoves
<1>6. DiskTypes' /\ FilesStay
  <2>1. Len(snapshotFile) \in Nat /\ \A a \in Apps : Len(appFile[a]) \in Nat
    BY <1>1 DEF DiskTypes
  <2> QED
    BY <1>1, <1>2, <2>1 DEF DiskTypes, FilesStay, WriteTargets
<1>7. FileWritten(w, "targets")
  <2>1. \A s \in Roles \ {"targets"} : OnDisk(s)' = OnDisk(s)
    BY DEF OnDisk, WriteTargets
  <2>2. Len(targetsFile) <= MaxVersion
    BY <1>1, <1>4 DEF BaseInv, Room, DiskNumbers
  <2> QED
    BY <1>1, <1>2, <2>1, <2>2 DEF FileWritten, DiskNumbers
<1>8. FilesExist'
  <2>1. DOMAIN targetsFile = 1..Len(targetsFile) /\ DOMAIN targetsFile' = 1..Len(targetsFile')
    BY <1>1, <1>2 DEF DiskTypes
  <2>2. DOMAIN targetsFile \subseteq DOMAIN targetsFile'
    BY <1>2, <2>1
  <2> QED
    BY <2>2 DEF WriteTargets, BaseInv, FilesExist, Served
<1>9. \A s \in Roles : Ahead(w, s)' => Ahead(w, s) /\ s # "targets"
  <2>1. job[w].app # "targets"
    BY <1>1 DEF JobFits, WriteTargets, Initializes, TopLevel
  <2> QED
    BY <1>5, <2>1 DEF Ahead, Busy, WriteTargets
<1>10. JobFits(w)'
  <2>1. CASE Initializes(w)
    BY <1>2, <1>5, <2>1 DEF JobFits, Initializes, Edits
  <2>2. CASE job[w].op = "add_app" /\ job[w].app \in Apps
    BY <1>2, <1>5, <2>2 DEF JobFits, Initializes, Edits
  <2> QED
    BY <1>1, <2>1, <2>2 DEF JobFits, WriteTargets
<1> HIDE DEF p, ar
<1> QED
  BY <1>3, <1>4, <1>6, <1>7, <1>8, <1>9, <1>10, WriteStepKeepsBase

(* What the operation makes of the listing, by its kind. *)
LEMMA EditedListing ==
    ASSUME BaseInv, NEW w \in Writers, pc[w] = "role", OpenRole(w, job[w].app) \in Listing
    PROVE  /\ Edited(w) \in Listing
           /\ OpenRole(w, job[w].app).releases \subseteq Edited(w).releases
           /\ job[w].op = "add_release" =>
                 /\ Edited(w).releases = OpenRole(w, job[w].app).releases \cup {job[w].release}
                 /\ Edited(w).pointer = OpenRole(w, job[w].app).pointer
           /\ job[w].op = "set_current" =>
                 /\ Edited(w).releases = OpenRole(w, job[w].app).releases
                 /\ Edited(w).pointer = job[w].release
           /\ job[w].op = "add_app" => Edited(w) = OpenRole(w, job[w].app)
           /\ job[w].op \in {"add_app", "add_release", "set_current"}
<1> DEFINE old == OpenRole(w, job[w].app)
<1>1. JobFits(w) /\ old \in [releases: SUBSET Releases, pointer: 0..MaxRelease]
  BY DEF BaseInv, Jobs, Listing
<1>2. job[w].op \in {"add_app", "add_release", "set_current"}
  BY <1>1 DEF JobFits, Edits
<1>3. job[w].op # "add_app" => job[w].release \in Releases /\ job[w].release \in 0..MaxRelease
  BY <1>1, <1>2 DEF JobFits, Releases
<1>4. CASE job[w].op = "add_release"
  <2>1. Edited(w) = [old EXCEPT !.releases = @ \cup {job[w].release}]
    BY <1>4 DEF Edited
  <2> HIDE DEF old
  <2> QED
    BY <1>1, <1>3, <1>4, <2>1 DEF Listing, old
<1>5. CASE job[w].op = "set_current"
  <2>1. Edited(w) = [old EXCEPT !.pointer = job[w].release]
    BY <1>5 DEF Edited
  <2> QED
    BY <1>1, <1>3, <1>5, <2>1 DEF Listing
<1>6. CASE job[w].op = "add_app"
  <2>1. Edited(w) = old
    BY <1>6 DEF Edited
  <2> QED
    BY <1>1, <1>6, <2>1 DEF Listing
<1> QED
  BY <1>2, <1>4, <1>5, <1>6

LEMMA OpenListing ==
    ASSUME BaseInv, NEW w \in Writers, NEW a \in Apps
    PROVE  /\ OpenRole(w, a) \in Listing
           /\ known[w][a] \in 0..Len(appFile[a]) /\ Len(appFile[a]) \in Nat
<1>1. MemoryTypes /\ DiskTypes /\ KnownExists /\ DiskNumbers
  BY TypeParts, NumbersOnDisk DEF BaseInv
<1>2. a \in Roles \ {"timestamp"}
  BY DEF Roles, TopLevel
<1>3. appFile[a] \in Seq(Listing) /\ Len(appFile[a]) \in Nat
  BY <1>1 DEF DiskTypes
<1>4. known[w][a] \in 0..Len(appFile[a])
  BY <1>1, <1>2, <1>3 DEF MemoryTypes, KnownExists, DiskNumbers
<1>5. EmptyListing \in Listing
  BY DEF EmptyListing, Listing
<1> QED
  BY <1>3, <1>4, <1>5 DEF OpenRole

LEMMA RoleWritten ==
    ASSUME BaseInv, NEW w \in Writers, WriteRole(w), NEW a, a = job[w].app
    PROVE  /\ a \in Apps /\ a \in appRoles[w]
           /\ known[w][a] \in 0..Len(appFile[a]) /\ known[w][a] < MaxVersion
           /\ OpenRole(w, a) \in Listing /\ Edited(w) \in Listing
           /\ appFile' \in [Apps -> Seq(Listing)]
           /\ \A b \in Apps \ {a} : appFile'[b] = appFile[b]
           /\ Len(appFile[a]) \in Nat
           /\ Len(appFile'[a]) = IF known[w][a] = Len(appFile[a])
                                 THEN Len(appFile[a]) + 1 ELSE Len(appFile[a])
           /\ appFile'[a][known[w][a] + 1] = Edited(w)
           /\ \A i \in 1..Len(appFile[a]) :
                 i # known[w][a] + 1 => appFile'[a][i] = appFile[a][i]
           /\ Local(w, "snapshot", Counted(w, a), appRoles[w], job[w])
<1>1. MemoryTypes /\ DiskTypes /\ JobFits(w)
  BY TypeParts DEF BaseInv, Jobs
<1>2. a \in Apps /\ a \in appRoles[w] /\ a \in Roles /\ Ahead(w, a)
  BY <1>1 DEF JobFits, WriteRole, Edits, MemoryTypes, Roles, Ahead, Busy
<1>3. OpenRole(w, a) \in Listing /\ known[w][a] \in 0..Len(appFile[a]) /\ Len(appFile[a]) \in Nat
  BY <1>2, OpenListing
<1>4. known[w][a] < MaxVersion
  BY <1>2 DEF BaseInv, Room
<1>5. Edited(w) \in Listing
  BY <1>3, EditedListing DEF WriteRole
<1>6. appFile \in [Apps -> Seq(Listing)]
  BY <1>1 DEF DiskTypes
<1> DEFINE v == known[w][a] + 1
           file == Written(appFile[a], v, Edited(w))
<1>7. v \in 1..(Len(appFile[a]) + 1) /\ appFile[a] \in Seq(Listing)
  BY <1>2, <1>3, <1>6
<1>8. /\ file \in Seq(Listing) /\ Len(file) = IF v = Len(appFile[a]) + 1 THEN v ELSE Len(appFile[a])
      /\ file[v] = Edited(w)
      /\ \A i \in 1..Len(appFile[a]) : i # v => file[i] = appFile[a][i]
  <2> DEFINE f == appFile[a]
             content == Edited(w)
             S == Listing
  <2>1. f \in Seq(S) /\ v \in 1..(Len(f) + 1) /\ content \in S
    BY <1>5, <1>7
  <2> HIDE DEF v, f, content, S, file
  <2>2. /\ Written(f, v, content) \in Seq(S)
        /\ Len(Written(f, v, content)) = IF v = Len(f) + 1 THEN v ELSE Len(f)
        /\ Written(f, v, content)[v] = content
        /\ \A i \in 1..Len(f) : i # v => Written(f, v, content)[i] = f[i]
    <3>1. Written(f, v, content) \in Seq(S)
      BY ONLY <2>1, WrittenFile
    <3>2. Len(Written(f, v, content)) = IF v = Len(f) + 1 THEN v ELSE Len(f)
      BY ONLY <2>1, WrittenFile
    <3>3. Written(f, v, content)[v] = content
      BY ONLY <2>1, WrittenFile
    <3>4. \A i \in 1..Len(f) : i # v => Written(f, v, content)[i] = f[i]
      BY ONLY <2>1, WrittenFile
    <3> QED
      BY <3>1, <3>2, <3>3, <3>4
  <2> QED
    BY <2>2 DEF f, content, S, file
<1>9. appFile' = [appFile EXCEPT ![a] = file]
  BY DEF WriteRole
<1> HIDE DEF file
<1>10. appFile' \in [Apps -> Seq(Listing)] /\ appFile'[a] = file
       /\ \A b \in Apps \ {a} : appFile'[b] = appFile[b]
  BY <1>2, <1>6, <1>8, <1>9
<1>11. Local(w, "snapshot", Counted(w, a), appRoles[w], job[w])
  <2>1. known' = [known EXCEPT ![w] = Counted(w, a)]
    BY <1>1, <1>2, <1>4, Counting DEF WriteRole
  <2> QED
    BY <1>1, <2>1 DEF WriteRole, Local, MemoryTypes
<1>12. /\ Len(appFile'[a]) = IF known[w][a] = Len(appFile[a])
                             THEN Len(appFile[a]) + 1 ELSE Len(appFile[a])
       /\ appFile'[a][known[w][a] + 1] = Edited(w)
       /\ \A i \in 1..Len(appFile[a]) :
             i # known[w][a] + 1 => appFile'[a][i] = appFile[a][i]
  BY <1>3, <1>8, <1>10
<1> QED
  BY <1>2, <1>3, <1>4, <1>5, <1>10, <1>11, <1>12

LEMMA WriteRoleKeepsBase ==
    ASSUME BaseInv, NEW w \in Writers, WriteRole(w)
    PROVE  BaseInv'
<1>0. PICK a : a = job[w].app
  OBVIOUS
<1>1. MemoryTypes /\ DiskTypes /\ DiskNumbers /\ DiskNumbers' /\ JobFits(w)
  BY TypeParts, NumbersOnDisk, DiskNumbersNext DEF BaseInv, Jobs
<1>2. /\ a \in Apps /\ a \in appRoles[w]
      /\ known[w][a] \in 0..Len(appFile[a]) /\ known[w][a] < MaxVersion
      /\ appFile' \in [Apps -> Seq(Listing)] /\ \A b \in Apps \ {a} : appFile'[b] = appFile[b]
      /\ Len(appFile[a]) \in Nat
      /\ Len(appFile'[a]) = IF known[w][a] = Len(appFile[a])
                            THEN Len(appFile[a]) + 1 ELSE Len(appFile[a])
      /\ Local(w, "snapshot", Counted(w, a), appRoles[w], job[w])
  BY <1>0, RoleWritten
<1>3. /\ a \in Roles \ {"root", "timestamp"} /\ Busy(w) /\ Ahead(w, a)
      /\ "snapshot" \in Pc /\ job[w] \in Job /\ appRoles[w] \in SUBSET Apps
  BY <1>0, <1>1, <1>2 DEF Roles, TopLevel, WriteRole, Busy, Ahead, MemoryTypes, Pc
<1>4. /\ pc'[w] = "snapshot" /\ known'[w] = Counted(w, a)
      /\ appRoles'[w] = appRoles[w] /\ job'[w] = job[w]
      /\ known'[w][a] = known[w][a] + 1 /\ known[w][a] \in Nat
      /\ \A s \in Roles \ {a} : known'[w][s] = known[w][s]
  <2>1. /\ Counted(w, a) \in [Roles -> 0..MaxVersion]
        /\ Counted(w, a)[a] = known[w][a] + 1 /\ known[w][a] \in Nat
        /\ \A s \in Roles \ {a} : Counted(w, a)[s] = known[w][s]
    BY <1>1, <1>2, <1>3, Counting
  <2> QED
    BY <1>1, <1>2, <1>3, <2>1, LocalMoves
<1>5. DiskTypes' /\ FilesStay
  <2>1. Len(snapshotFile) \in Nat /\ Len(targetsFile) \in Nat /\ \A b \in Apps : Len(appFile[b]) \in Nat
    BY <1>1 DEF DiskTypes
  <2> QED
    BY <1>1, <1>2, <2>1 DEF DiskTypes, FilesStay, WriteRole
<1>6. FileWritten(w, a)
  <2>1. \A s \in Roles \ {a} : OnDisk(s)' = OnDisk(s)
    BY <1>2 DEF OnDisk, WriteRole, Roles, TopLevel
  <2>2. Len(appFile[a]) <= MaxVersion
    BY <1>1, <1>2, <1>3 DEF BaseInv, Room, DiskNumbers
  <2>3. OnDisk(a) = Len(appFile[a]) /\ OnDisk(a)' = Len(appFile'[a])
    BY <1>1, <1>2 DEF DiskNumbers
  <2> QED
    BY <1>2, <2>1, <2>2, <2>3 DEF FileWritten
<1>7. FilesExist'
  <2> SUFFICES ASSUME NEW i \in DOMAIN snapshotFile, NEW b \in Apps
               PROVE  snapshotFile[i][b] <= Len(appFile'[b])
    BY DEF WriteRole, BaseInv, FilesExist, Served
  <2>1. snapshotFile[i][b] <= Len(appFile[b]) /\ Len(appFile[b]) \in Nat /\ snapshotFile[i][b] \in Nat
    BY <1>1 DEF BaseInv, FilesExist, DiskTypes, Named
  <2> QED
    BY <1>2, <2>1
<1>8. \A s \in Roles : Ahead(w, s)' => Ahead(w, s) /\ s # a
  BY <1>0, <1>2, <1>4 DEF Ahead, Busy, WriteRole, TopLevel
<1>9. JobFits(w)'
  <2>1. known'[w]["targets"] = known[w]["targets"]
    BY <1>2, <1>4 DEF Roles, TopLevel
  <2> QED
    BY <1>0, <1>1, <1>2, <1>4, <2>1 DEF JobFits, Initializes, Edits, WriteRole
<1> QED
  BY <1>2, <1>3, <1>5, <1>6, <1>7, <1>8, <1>9, WriteStepKeepsBase

LEMMA OpenSnapshotFacts ==
    ASSUME BaseInv, NEW w \in Writers
    PROVE  /\ known[w]["snapshot"] \in 0..Len(snapshotFile) /\ Len(snapshotFile) \in Nat
           /\ OpenSnapshot(w) \in [Named -> 0..MaxVersion]
           /\ \A a \in Apps : OpenSnapshot(w)[a] <= Len(appFile[a])
           /\ Infos(w) \in [Named -> 0..MaxVersion]
           /\ \A a \in Apps : Infos(w)[a] \in {0, known[w][a]} /\ known[w][a] <= Len(appFile[a])
           /\ Infos(w)["targets"] = known[w]["targets"]
<1>1. MemoryTypes /\ DiskTypes /\ KnownExists /\ DiskNumbers
  BY TypeParts, NumbersOnDisk DEF BaseInv
<1>2. "snapshot" \in Roles \ {"timestamp"} /\ Named \subseteq Roles /\ "targets" \in Named /\ Apps \subseteq Named
  BY DEF Roles, TopLevel, Named
<1>3. known[w]["snapshot"] \in 0..Len(snapshotFile) /\ Len(snapshotFile) \in Nat
  <2>1. known[w]["snapshot"] \in Nat /\ known[w]["snapshot"] <= Len(snapshotFile)
    BY <1>1, <1>2 DEF MemoryTypes, KnownExists, DiskNumbers
  <2>2. Len(snapshotFile) \in Nat
    BY <1>1 DEF DiskTypes
  <2> QED
    BY <2>1, <2>2
<1>4. OpenSnapshot(w) \in [Named -> 0..MaxVersion] /\ \A a \in Apps : OpenSnapshot(w)[a] <= Len(appFile[a])
  <2>1. CASE known[w]["snapshot"] = 0
    <3>1. OpenSnapshot(w) = [r \in Named |-> IF r = "targets" THEN 1 ELSE 0]
      BY <2>1 DEF OpenSnapshot
    <3>2. \A a \in Apps : a # "targets" /\ Len(appFile[a]) \in Nat
      BY <1>1 DEF TopLevel, DiskTypes
    <3>3. 0 \in 0..MaxVersion /\ 1 \in 0..MaxVersion
      OBVIOUS
    <3> QED
      BY <1>2, <3>1, <3>2, <3>3
  <2>2. CASE known[w]["snapshot"] # 0
    <3>1. OpenSnapshot(w) = snapshotFile[known[w]["snapshot"]]
          /\ known[w]["snapshot"] \in 1..Len(snapshotFile)
      BY <1>3, <2>2 DEF OpenSnapshot
    <3>2. known[w]["snapshot"] \in DOMAIN snapshotFile
      BY <1>1, <3>1 DEF DiskTypes
    <3>3. OpenSnapshot(w) \in [Named -> 0..MaxVersion]
      BY <1>1, <3>1, <3>2 DEF DiskTypes
    <3>4. \A a \in Apps : OpenSnapshot(w)[a] <= Len(appFile[a])
      BY <3>1, <3>2 DEF BaseInv, FilesExist
    <3> QED
      BY <3>3, <3>4
  <2> QED
    BY <2>1, <2>2
<1>5. /\ Infos(w) \in [Named -> 0..MaxVersion] /\ Infos(w)["targets"] = known[w]["targets"]
      /\ \A a \in Apps : Infos(w)[a] \in {0, known[w][a]}
  BY <1>1, <1>2 DEF Infos, MemoryTypes
<1>6. \A a \in Apps : known[w][a] <= Len(appFile[a])
  BY OpenListing
<1> QED
  BY <1>3, <1>4, <1>5, <1>6

LEMMA SnapshotWritten ==
    ASSUME BaseInv, NEW w \in Writers, WriteSnapshot(w)
    PROVE  /\ known[w]["snapshot"] \in 0..Len(snapshotFile) /\ known[w]["snapshot"] < MaxVersion
           /\ Updated(w) \in [Named -> 0..MaxVersion]
           /\ Updated(w)["targets"] = known[w]["targets"] /\ known[w]["targets"] \in 1..Len(targetsFile)
           /\ \A a \in Apps : Updated(w)[a] <= Len(appFile[a])
           /\ snapshotFile' \in Seq([Named -> 0..MaxVersion])
           /\ Len(snapshotFile) \in Nat
           /\ Len(snapshotFile') = IF known[w]["snapshot"] = Len(snapshotFile)
                                   THEN Len(snapshotFile) + 1 ELSE Len(snapshotFile)
           /\ snapshotFile'[known[w]["snapshot"] + 1] = Updated(w)
           /\ \A i \in 1..Len(snapshotFile) :
                 i # known[w]["snapshot"] + 1 => snapshotFile'[i] = snapshotFile[i]
           /\ Local(w, "timestamp", Counted(w, "snapshot"), appRoles[w], job[w])
<1>1. MemoryTypes /\ DiskTypes /\ KnownExists /\ DiskNumbers /\ JobFits(w)
  BY TypeParts, NumbersOnDisk DEF BaseInv, Jobs
<1>2. "snapshot" \in Roles /\ "targets" \in Roles \ {"timestamp"} /\ Ahead(w, "snapshot") /\ "targets" \in Named
  BY DEF Roles, TopLevel, WriteSnapshot, Busy, Ahead, Named
<1>3. known[w]["snapshot"] \in 0..Len(snapshotFile) /\ Len(snapshotFile) \in Nat
      /\ known[w]["snapshot"] < MaxVersion
  BY <1>2, OpenSnapshotFacts DEF BaseInv, Room
<1>4. known[w]["targets"] \in 1..Len(targetsFile)
  <2>1. Len(targetsFile) \in Nat /\ known[w]["targets"] \in Nat /\ known[w]["targets"] <= Len(targetsFile)
    BY <1>1, <1>2 DEF DiskTypes, MemoryTypes, KnownExists, DiskNumbers
  <2>2. known[w]["targets"] > 0
    BY <1>1 DEF JobFits, WriteSnapshot
  <2> QED
    BY <2>1, <2>2
<1>5. Updated(w) \in [Named -> 0..MaxVersion]
  BY OpenSnapshotFacts DEF Updated
<1>6. Updated(w)["targets"] = known[w]["targets"]
  BY <1>2, <1>4, OpenSnapshotFacts DEF Updated
<1>7. \A a \in Apps : Updated(w)[a] <= Len(appFile[a])
  BY OpenSnapshotFacts DEF Updated, Named
<1> DEFINE v == known[w]["snapshot"] + 1
           S == [Named -> 0..MaxVersion]
           file == Written(snapshotFile, v, Updated(w))
<1>8. /\ file \in Seq(S) /\ Len(file) = IF v = Len(snapshotFile) + 1 THEN v ELSE Len(snapshotFile)
      /\ file[v] = Updated(w)
      /\ \A i \in 1..Len(snapshotFile) : i # v => file[i] = snapshotFile[i]
  <2>1. snapshotFile \in Seq(S) /\ v \in 1..(Len(snapshotFile) + 1) /\ Updated(w) \in S
    BY <1>1, <1>3, <1>5 DEF DiskTypes
  <2> HIDE DEF v, S
  <2> QED
    BY <2>1, WrittenFile
<1>9. snapshotFile' = file
  BY DEF WriteSnapshot
<1>10. Local(w, "timestamp", Counted(w, "snapshot"), appRoles[w], job[w])
  <2>1. known' = [known EXCEPT ![w] = Counted(w, "snapshot")]
    BY <1>1, <1>2, <1>3, Counting DEF WriteSnapshot
  <2> QED
    BY <1>1, <2>1 DEF WriteSnapshot, Local, MemoryTypes
<1> HIDE DEF file
<1>11. /\ snapshotFile' \in Seq([Named -> 0..MaxVersion])
       /\ Len(snapshotFile') = IF known[w]["snapshot"] = Len(snapshotFile)
                               THEN Len(snapshotFile) + 1 ELSE Len(snapshotFile)
       /\ snapshotFile'[known[w]["snapshot"] + 1] = Updated(w)
       /\ \A i \in 1..Len(snapshotFile) :
             i # known[w]["snapshot"] + 1 => snapshotFile'[i] = snapshotFile[i]
  BY <1>3, <1>8, <1>9
<1> QED
  BY <1>3, <1>4, <1>5, <1>6, <1>7, <1>10, <1>11

LEMMA WriteSnapshotKeepsBase ==
    ASSUME BaseInv, NEW w \in Writers, WriteSnapshot(w)
    PROVE  BaseInv'
<1>1. MemoryTypes /\ DiskTypes /\ DiskNumbers /\ DiskNumbers' /\ JobFits(w)
  BY TypeParts, NumbersOnDisk, DiskNumbersNext DEF BaseInv, Jobs
<1>2. /\ known[w]["snapshot"] \in 0..Len(snapshotFile) /\ known[w]["snapshot"] < MaxVersion
      /\ snapshotFile' \in Seq([Named -> 0..MaxVersion]) /\ Len(snapshotFile) \in Nat
      /\ Len(snapshotFile') = IF known[w]["snapshot"] = Len(snapshotFile)
                              THEN Len(snapshotFile) + 1 ELSE Len(snapshotFile)
      /\ Local(w, "timestamp", Counted(w, "snapshot"), appRoles[w], job[w])
  BY SnapshotWritten
<1>3. /\ "snapshot" \in Roles \ {"root", "timestamp"} /\ Busy(w) /\ Ahead(w, "snapshot")
      /\ "timestamp" \in Pc /\ job[w] \in Job /\ appRoles[w] \in SUBSET Apps
  BY <1>1, <1>2 DEF Roles, TopLevel, WriteSnapshot, Busy, Ahead, MemoryTypes, Pc
<1>4. /\ pc'[w] = "timestamp" /\ known'[w] = Counted(w, "snapshot")
      /\ appRoles'[w] = appRoles[w] /\ job'[w] = job[w]
      /\ known'[w]["snapshot"] = known[w]["snapshot"] + 1
      /\ \A s \in Roles \ {"snapshot"} : known'[w][s] = known[w][s]
  <2>1. /\ Counted(w, "snapshot") \in [Roles -> 0..MaxVersion]
        /\ Counted(w, "snapshot")["snapshot"] = known[w]["snapshot"] + 1
        /\ \A s \in Roles \ {"snapshot"} : Counted(w, "snapshot")[s] = known[w][s]
    BY <1>1, <1>2, <1>3, Counting
  <2> QED
    BY <1>1, <1>2, <1>3, <2>1, LocalMoves
<1>5. DiskTypes' /\ FilesStay
  <2>1. Len(targetsFile) \in Nat /\ \A b \in Apps : Len(appFile[b]) \in Nat
    BY <1>1 DEF DiskTypes
  <2> QED
    BY <1>1, <1>2, <2>1 DEF DiskTypes, FilesStay, WriteSnapshot
<1>6. FileWritten(w, "snapshot")
  <2>1. \A s \in Roles \ {"snapshot"} : OnDisk(s)' = OnDisk(s)
    BY DEF OnDisk, WriteSnapshot
  <2>2. Len(snapshotFile) <= MaxVersion
    BY <1>1, <1>3 DEF BaseInv, Room, DiskNumbers
  <2>3. OnDisk("snapshot") = Len(snapshotFile) /\ OnDisk("snapshot")' = Len(snapshotFile')
    BY <1>1 DEF DiskNumbers
  <2> QED
    BY <1>2, <2>1, <2>2, <2>3 DEF FileWritten
<1>7. FilesExist'
  <2>1. DOMAIN snapshotFile = 1..Len(snapshotFile) /\ DOMAIN snapshotFile' = 1..Len(snapshotFile')
    BY <1>1, <1>2 DEF DiskTypes
  <2>2. Served' => timestampFile'.snapshot \in DOMAIN snapshotFile'
    BY <1>2, <2>1 DEF BaseInv, FilesExist, WriteSnapshot, Served
  <2>3. ASSUME NEW i \in DOMAIN snapshotFile'
        PROVE  /\ snapshotFile'[i]["targets"] \in DOMAIN targetsFile
               /\ \A a \in Apps : snapshotFile'[i][a] <= Len(appFile[a])
    <3>1. CASE i = known[w]["snapshot"] + 1
      <4>1. DOMAIN targetsFile = 1..Len(targetsFile)
        BY <1>1 DEF DiskTypes
      <4> QED
        BY <3>1, <4>1, SnapshotWritten
    <3>2. CASE i # known[w]["snapshot"] + 1
      <4>1. i \in 1..Len(snapshotFile) /\ snapshotFile'[i] = snapshotFile[i]
        BY <1>2, <2>1, <3>2, SnapshotWritten
      <4> QED
        BY <2>1, <4>1 DEF BaseInv, FilesExist
    <3> QED
      BY <3>1, <3>2
  <2> QED
    BY <2>2, <2>3 DEF FilesExist, WriteSnapshot
<1>8. \A s \in Roles : Ahead(w, s)' => Ahead(w, s) /\ s # "snapshot"
  BY <1>4 DEF Ahead, Busy, WriteSnapshot
<1>9. JobFits(w)'
  <2>1. /\ known'[w]["targets"] = known[w]["targets"]
        /\ \A a \in Apps : known'[w][a] = known[w][a]
    BY <1>4 DEF Roles, TopLevel
  <2> QED
    BY <1>1, <1>2, <1>3, <1>4, <2>1 DEF JobFits, Initializes, Edits, WriteSnapshot
<1> QED
  BY <1>2, <1>3, <1>5, <1>6, <1>7, <1>8, <1>9, WriteStepKeepsBase

LEMMA WriteTimestampKeepsBase ==
    ASSUME BaseInv, NEW w \in Writers, WriteTimestamp(w)
    PROVE  BaseInv'
<1>1. MemoryTypes /\ DiskTypes /\ KnownExists /\ JobFits(w)
  BY TypeParts DEF BaseInv, Jobs
<1>2. /\ "timestamp" \in Roles /\ "snapshot" \in Roles /\ "targets" \in Roles
      /\ Busy(w) /\ Ahead(w, "timestamp") /\ "idle" \in Pc /\ NoJob \in Job
      /\ appRoles[w] \in SUBSET Apps
  BY <1>1 DEF Roles, TopLevel, WriteTimestamp, Busy, Ahead, MemoryTypes, Pc, Job, NoJob, Op
<1>3. known[w]["timestamp"] < MaxVersion
  BY <1>2 DEF BaseInv, Room
<1>4. known[w]["snapshot"] \in 1..Len(snapshotFile) /\ known[w]["snapshot"] \in 0..MaxVersion
  <2>1. known[w]["snapshot"] > 0
    BY <1>1 DEF JobFits, WriteTimestamp
  <2> QED
    BY <1>1, <1>2, <2>1, OpenSnapshotFacts DEF MemoryTypes
<1>5. /\ Counted(w, "timestamp") \in [Roles -> 0..MaxVersion]
      /\ known[w]["timestamp"] + 1 \in 0..MaxVersion
      /\ \A s \in Roles \ {"timestamp"} : Counted(w, "timestamp")[s] = known[w][s]
      /\ known' = [known EXCEPT ![w] = Counted(w, "timestamp")]
  BY <1>1, <1>2, <1>3, Counting DEF WriteTimestamp
<1>6. Local(w, "idle", Counted(w, "timestamp"), appRoles[w], NoJob)
  BY <1>1, <1>5 DEF WriteTimestamp, GiveUp, Local, MemoryTypes
<1>7. /\ pc'[w] = "idle" /\ known'[w] = Counted(w, "timestamp") /\ job'[w] = NoJob
      /\ appRoles'[w] = appRoles[w]
  BY <1>1, <1>2, <1>5, <1>6, LocalMoves
<1>8. timestampFile' = [version |-> known[w]["timestamp"] + 1, snapshot |-> known[w]["snapshot"]]
  BY DEF WriteTimestamp, SnapshotInfo
<1>9. DiskTypes' /\ FilesStay
  <2>1. /\ Len(targetsFile) \in Nat /\ Len(snapshotFile) \in Nat
        /\ \A a \in Apps : Len(appFile[a]) \in Nat
    BY <1>1 DEF DiskTypes
  <2> QED
    BY <1>1, <1>4, <1>5, <1>8, <2>1 DEF DiskTypes, FilesStay, WriteTimestamp
<1>10. \A s \in Roles \ {"timestamp"} : OnDisk(s)' = OnDisk(s)
  BY DEF OnDisk, WriteTimestamp
<1>11. \A s \in Roles : OnDisk(s)' <= MaxVersion
  <2>1. OnDisk("timestamp")' = known[w]["timestamp"] + 1
    BY <1>8, DiskNumbersNext DEF DiskNumbers
  <2> QED
    BY <1>5, <1>10, <2>1 DEF BaseInv, Room
<1>12. FilesExist'
  BY <1>1, <1>4, <1>8 DEF FilesExist, BaseInv, WriteTimestamp, DiskTypes
<1>13. Fits(w)'
  <2>1. \A s \in Roles \ {"timestamp"} : known'[w][s] <= OnDisk(s)'
    BY <1>1, <1>5, <1>7, <1>10 DEF KnownExists
  <2>2. known'[w]["targets"] = known[w]["targets"]
    BY <1>2, <1>5, <1>7
  <2>3. JobFits(w)'
    BY <1>1, <1>7, <2>2 DEF JobFits, NoJob
  <2> QED
    BY <1>7, <2>1, <2>3 DEF Fits, Ahead, Busy
<1>14. Observes(w)
  BY <1>2 DEF Observes, Busy, Up
<1> QED
  BY <1>2, <1>5, <1>6, <1>9, <1>11, <1>12, <1>13, <1>14, StepKeepsBase

LEMMA SkipSnapshotKeepsBase ==
    ASSUME BaseInv, NEW w \in Writers, SkipSnapshot(w)
    PROVE  BaseInv'
<1>1. MemoryTypes /\ DiskTypes /\ KnownExists /\ JobFits(w)
  BY TypeParts DEF BaseInv, Jobs
<1>2. /\ "timestamp" \in Pc /\ known[w] \in [Roles -> 0..MaxVersion] /\ job[w] \in Job
      /\ appRoles[w] \in SUBSET Apps /\ "snapshot" \in Roles
  BY <1>1 DEF MemoryTypes, Pc, Roles, TopLevel
<1>3. Local(w, "timestamp", known[w], appRoles[w], job[w])
  BY <1>1 DEF SkipSnapshot, Local, MemoryTypes, memoryVars
<1>4. pc'[w] = "timestamp" /\ known'[w] = known[w] /\ job'[w] = job[w] /\ appRoles'[w] = appRoles[w]
  BY <1>1, <1>2, <1>3, LocalMoves
<1>5. \A r \in Roles : Ahead(w, r)' => Ahead(w, r)
  BY <1>4 DEF Ahead, Busy, SkipSnapshot
<1>6. JobFits(w)'
  <2>1. known[w]["snapshot"] > 0
    BY <1>2 DEF SkipSnapshot, SnapshotDue
  <2> QED
    BY <1>1, <1>4, <2>1 DEF JobFits, Initializes, Edits, SkipSnapshot
<1>7. Fits(w)' /\ Observes(w)
  <2>1. \A r \in Roles \ {"timestamp"} : known'[w][r] <= OnDisk(r)'
    BY <1>1, <1>4 DEF KnownExists, OnDisk, SkipSnapshot, diskVars
  <2>2. \A r \in Roles : Ahead(w, r)' => known'[w][r] < MaxVersion
    BY <1>4, <1>5 DEF BaseInv, Room
  <2>3. Observes(w)
    BY DEF SkipSnapshot, Observes, Up, Busy
  <2> QED
    BY <1>6, <2>1, <2>2, <2>3 DEF Fits
<1> QED
  BY <1>1, <1>2, <1>3, <1>7, MemoryStepKeepsBase DEF SkipSnapshot, diskVars, DiskTypes

LEMMA WriteKeepsBase ==
    ASSUME BaseInv, NEW w \in Writers, Write(w)
    PROVE  BaseInv'
<1>1. faults \in 0..MaxFaults
  BY TypeParts DEF BaseInv, DiskTypes
<1>2. CASE RefuseRole(w)
  BY <1>1, <1>2, GiveUpKeepsBase DEF RefuseRole, Busy
<1>3. CASE RefuseRollback(w)
  BY <1>1, <1>3, GiveUpKeepsBase DEF RefuseRollback, Busy
<1>4. CASE SkipTimestamp(w)
  BY <1>1, <1>4, GiveUpKeepsBase DEF SkipTimestamp, Busy
<1> QED
  BY <1>2, <1>3, <1>4, WriteTargetsKeepsBase, WriteRoleKeepsBase, WriteSnapshotKeepsBase,
     SkipSnapshotKeepsBase, WriteTimestampKeepsBase DEF Write

LEMMA BaseInvInit == Init => BaseInv
<1> SUFFICES ASSUME Init PROVE BaseInv
  OBVIOUS
<1>1. /\ 0 \in 0..MaxVersion /\ 1 \in 0..MaxVersion /\ NoJob \in Job /\ "down" \in Pc
      /\ 0 \in 0..MaxFaults
  BY DEF NoJob, Job, Op, Pc
<1>2. MemoryTypes /\ DiskTypes
  <2>1. MemoryTypes
    BY <1>1 DEF Init, MemoryTypes
  <2>2. /\ targetsFile \in Seq(Seq(Apps)) /\ snapshotFile \in Seq([Named -> 0..MaxVersion])
        /\ appFile \in [Apps -> Seq(Listing)]
    BY DEF Init
  <2>3. /\ timestampFile \in [version: 0..MaxVersion, snapshot: 0..MaxVersion]
        /\ initialized \in BOOLEAN /\ payload \in SUBSET (Apps \X Releases) /\ faults \in 0..MaxFaults
    BY <1>1 DEF Init
  <2> QED
    BY <2>1, <2>2, <2>3 DEF DiskTypes
<1>3. \A r \in Roles : OnDisk(r) = 0
  <2>1. DiskNumbers
    BY NumbersOnDisk
  <2> QED
    BY <2>1 DEF Init, DiskNumbers, Roles, TopLevel
<1>4. KnownExists
  BY <1>3 DEF Init, KnownExists
<1>5. Room
  BY <1>3 DEF Init, Room, Ahead, Busy
<1>6. Jobs
  BY DEF Init, Jobs, JobFits, NoJob
<1>7. FilesExist
  BY DEF Init, FilesExist, Served
<1>8. Exclusion
  BY DEF Init, Exclusion, Up, Busy
<1> QED
  BY <1>2, <1>4, <1>5, <1>6, <1>7, <1>8, TypeParts DEF BaseInv

LEMMA BaseInvNext == BaseInv /\ [Next]_vars => BaseInv'
<1> SUFFICES ASSUME BaseInv, [Next]_vars PROVE BaseInv'
  OBVIOUS
<1>1. CASE UNCHANGED vars
  BY <1>1 DEF vars, diskVars, memoryVars, BaseInv, TypeOK, Room, Jobs, FilesExist, Exclusion,
     OnDisk, Ahead, Busy, Up, JobFits, Initializes, Edits, Served
<1>2. CASE Next
  BY <1>2, ProcessKeepsBase, OperationKeepsBase, WriteKeepsBase DEF Next
<1> QED
  BY <1>1, <1>2

(* Every process and every file has its type, and no process believes in a version
   that was never written (FileSystemRepository.__init__, close), whatever the
   lock and whichever writes fail. *)
THEOREM RepositoryTypeCorrect == Spec => []TypeOK
<1>1. BaseInv => TypeOK
  BY DEF BaseInv
<1> QED
  BY <1>1, BaseInvInit, BaseInvNext, PTL DEF Spec

-----------------------------------------------------------------------------
(* Delegations, if one ceremony is up at a time *)

(* What a step that does not write targets does to what v remembers of them:
   nothing, or v goes down, or v comes up. *)
QuietFor(v) ==
    \/ /\ appRoles'[v] = appRoles[v] /\ known'[v]["targets"] = known[v]["targets"]
       /\ Up(v)' => Up(v)
    \/ ~Up(v)' /\ appRoles'[v] = {} /\ known'[v]["targets"] = 0
    \/ appRoles'[v] = Delegated(NewestTargets) /\ known'[v]["targets"] = Len(targetsFile)

LEMMA QuietSteps ==
    ASSUME BaseInv, NEW w \in Writers, Process(w) \/ Operation(w) \/ Write(w), ~WriteTargets(w)
    PROVE  UNCHANGED targetsFile /\ \A v \in Writers : QuietFor(v)
<1>1. MemoryTypes /\ DiskNumbers
  BY TypeParts, NumbersOnDisk DEF BaseInv
<1>2. "targets" \in Roles /\ "root" \in Roles /\ "snapshot" \in Roles /\ "timestamp" \in Roles /\ Apps \subseteq Roles
  BY DEF Roles, TopLevel
<1>3. ASSUME UNCHANGED appRoles, \A v \in Writers : Up(v)' => Up(v),
             \A v \in Writers : known'[v]["targets"] = known[v]["targets"]
      PROVE  \A v \in Writers : QuietFor(v)
  BY <1>3 DEF QuietFor
<1>4. ASSUME NEW r \in Roles \ {"targets"}, Remember(w, r)
      PROVE  \A v \in Writers : known'[v]["targets"] = known[v]["targets"]
  BY <1>1, <1>2, <1>4 DEF MemoryTypes, Remember
<1>5. ASSUME GiveUp(w), Busy(w) PROVE \A v \in Writers : Up(v)' => Up(v)
  BY <1>1, <1>5 DEF GiveUp, Busy, Up, MemoryTypes
<1>6. CASE Start(w)
  <2> SUFFICES ASSUME NEW v \in Writers PROVE QuietFor(v)
    BY <1>6 DEF Start, diskVars
  <2>1. CASE v = w
    BY <1>1, <1>2, <1>6, <2>1 DEF Start, QuietFor, MemoryTypes, DiskNumbers
  <2>2. CASE v # w
    BY <1>1, <1>6, <2>2 DEF Start, QuietFor, MemoryTypes, Up
  <2> QED
    BY <2>1, <2>2
<1>7. ASSUME Down(w) PROVE \A v \in Writers : QuietFor(v)
  <2> SUFFICES ASSUME NEW v \in Writers PROVE QuietFor(v)
    OBVIOUS
  <2>1. CASE v = w
    BY <1>1, <1>2, <1>7, <2>1 DEF Down, QuietFor, MemoryTypes, Up
  <2>2. CASE v # w
    BY <1>1, <1>7, <2>2 DEF Down, QuietFor, MemoryTypes, Up
  <2> QED
    BY <2>1, <2>2
<1>8. CASE Stop(w) \/ Crash(w)
  BY <1>7, <1>8 DEF Stop, Crash, diskVars
<1>9. CASE Raise(w) \/ RefuseRole(w) \/ RefuseRollback(w) \/ SkipTimestamp(w)
  BY <1>3, <1>5, <1>9 DEF Raise, RefuseRole, RefuseRollback, SkipTimestamp, Busy, diskVars, memoryVars
<1>10. CASE Operation(w)
  <2>1. ASSUME NEW p, NEW op, NEW a, NEW n, Begin(w, p, op, a, n)
        PROVE  \A v \in Writers : Up(v)' => Up(v)
    BY <1>1, <2>1 DEF Begin, MemoryTypes, Up
  <2>2. CASE Initialize(w)
    BY <1>2, <1>3, <1>4, <2>1, <2>2 DEF Initialize
  <2>3. CASE \E a \in Apps : AddApp(w, a)
    BY <1>3, <2>1, <2>3 DEF AddApp, diskVars, memoryVars
  <2>4. CASE \E a \in Apps, n \in Releases : AddRelease(w, a, n) \/ SetCurrent(w, a, n)
    BY <1>3, <2>1, <2>4 DEF AddRelease, SetCurrent, diskVars, memoryVars
  <2> QED
    BY <1>10, <2>2, <2>3, <2>4 DEF Operation
<1>11. CASE WriteRole(w)
  <2>1. job[w].app \in Roles \ {"targets"} /\ \A v \in Writers : Up(v)' => Up(v)
    <3>1. JobFits(w)
      BY DEF BaseInv, Jobs
    <3> QED
      BY <1>1, <1>2, <1>11, <3>1 DEF WriteRole, JobFits, Edits, MemoryTypes, TopLevel, Up
  <2>2. \A v \in Writers : known'[v]["targets"] = known[v]["targets"]
    <3>1. Remember(w, job[w].app)
      BY <1>11 DEF WriteRole
    <3>2. PICK r \in Roles \ {"targets"} : r = job[w].app
      BY <2>1
    <3> QED
      BY <1>4, <3>1, <3>2
  <2> QED
    BY <1>3, <1>11, <2>1, <2>2 DEF WriteRole
<1>12. CASE WriteSnapshot(w)
  <2>1. \A v \in Writers : Up(v)' => Up(v)
    BY <1>1, <1>12 DEF WriteSnapshot, MemoryTypes, Up
  <2> QED
    BY <1>2, <1>3, <1>4, <1>12, <2>1 DEF WriteSnapshot
<1>13. CASE SkipSnapshot(w)
  <2>1. \A v \in Writers : Up(v)' => Up(v)
    BY <1>1, <1>13 DEF SkipSnapshot, MemoryTypes, Up
  <2> QED
    BY <1>3, <1>13, <2>1 DEF SkipSnapshot, diskVars, memoryVars
<1>14. CASE WriteTimestamp(w)
  BY <1>2, <1>3, <1>4, <1>5, <1>14 DEF WriteTimestamp, Busy
<1> QED
  BY <1>6, <1>8, <1>9, <1>10, <1>11, <1>12, <1>13, <1>14 DEF Process, Write

(* Targets are only ever appended. *)
LEMMA TargetsAppended ==
    ASSUME DelegationInv, NEW w \in Writers, WriteTargets(w)
    PROVE  /\ w \in Ceremonies /\ known[w]["targets"] = Len(targetsFile) /\ Len(targetsFile) \in Nat
           /\ DOMAIN targetsFile = 1..Len(targetsFile) /\ DOMAIN targetsFile' = 1..(Len(targetsFile) + 1)
           /\ targetsFile'[Len(targetsFile) + 1] = NextTargets(w)
           /\ \A i \in 1..Len(targetsFile) : targetsFile'[i] = targetsFile[i]
           /\ Delegated(NextTargets(w)) = appRoles'[w] /\ appRoles[w] \subseteq appRoles'[w]
           /\ known'[w]["targets"] = Len(targetsFile) + 1
           /\ \A v \in Writers \ {w} :
                 known'[v] = known[v] /\ appRoles'[v] = appRoles[v] /\ (Up(v)' <=> Up(v))
<1>1. MemoryTypes /\ DiskTypes /\ JobFits(w) /\ BaseInv
  BY TypeParts DEF DelegationInv, BaseInv, Jobs
<1>2. w \in Ceremonies /\ Up(w)
  BY <1>1 DEF WriteTargets, JobFits, Up
<1>3. known[w]["targets"] = Len(targetsFile)
  BY <1>2 DEF DelegationInv, TargetsKnown
<1>4. /\ Len(targetsFile) \in Nat /\ Len(targetsFile') = Len(targetsFile) + 1
      /\ targetsFile' \in Seq(Seq(Apps))
      /\ targetsFile'[Len(targetsFile) + 1] = NextTargets(w)
      /\ \A i \in 1..Len(targetsFile) : targetsFile'[i] = targetsFile[i]
  <2>1. /\ Len(targetsFile) \in Nat /\ targetsFile' \in Seq(Seq(Apps))
        /\ Len(targetsFile') = IF known[w]["targets"] = Len(targetsFile)
                               THEN Len(targetsFile) + 1 ELSE Len(targetsFile)
        /\ targetsFile'[known[w]["targets"] + 1] = NextTargets(w)
        /\ \A i \in 1..Len(targetsFile) :
              i # known[w]["targets"] + 1 => targetsFile'[i] = targetsFile[i]
    BY <1>1, TargetsWritten
  <2> QED
    BY <1>3, <2>1
<1>5. DOMAIN targetsFile = 1..Len(targetsFile) /\ DOMAIN targetsFile' = 1..(Len(targetsFile) + 1)
  BY <1>1, <1>4 DEF DiskTypes
<1>6. appRoles'[w] = appRoles[w] \cup ({job[w].app} \cap Apps)
  BY <1>1 DEF WriteTargets, MemoryTypes
<1>7. Delegated(NextTargets(w)) = appRoles'[w]
  <2>1. appRoles[w] = Delegated(OpenTargets(w)) /\ OpenTargets(w) \in Seq(Apps)
    BY <1>1, TargetsWritten DEF DelegationInv, Remembers
  <2> QED
    BY <1>6, <2>1, DelegateAdds DEF NextTargets
<1>8. known'[w]["targets"] = Len(targetsFile) + 1
  BY <1>1, <1>3 DEF WriteTargets, Remember, MemoryTypes, Roles, TopLevel
<1>9. \A v \in Writers \ {w} :
         known'[v] = known[v] /\ appRoles'[v] = appRoles[v] /\ (Up(v)' <=> Up(v))
  BY <1>1 DEF WriteTargets, Remember, MemoryTypes, Up
<1> QED
  BY <1>2, <1>3, <1>4, <1>5, <1>6, <1>7, <1>8, <1>9

LEMMA CeremoniesExclude ==
    ASSUME OneCeremonyUp, Exclusion, NEW v \in Ceremonies, NEW w \in Ceremonies, Up(v), Up(w)
    PROVE  v = w
  BY DEF OneCeremonyUp, Exclusion

LEMMA WriteTargetsKeepsDelegations ==
    ASSUME DelegationInv, NEW w \in Writers, WriteTargets(w)
    PROVE  Remembers' /\ TargetsKnown' /\ TargetsGrow' /\ NamedIsDelegated'
<1> DEFINE n == Len(targetsFile)
<1>1. /\ w \in Ceremonies /\ known[w]["targets"] = n /\ n \in Nat
      /\ DOMAIN targetsFile = 1..n /\ DOMAIN targetsFile' = 1..(n + 1)
      /\ targetsFile'[n + 1] = NextTargets(w)
      /\ \A i \in 1..n : targetsFile'[i] = targetsFile[i]
      /\ Delegated(NextTargets(w)) = appRoles'[w] /\ appRoles[w] \subseteq appRoles'[w]
      /\ known'[w]["targets"] = n + 1
      /\ \A v \in Writers \ {w} :
            known'[v] = known[v] /\ appRoles'[v] = appRoles[v] /\ (Up(v)' <=> Up(v))
  BY TargetsAppended
<1>2. MemoryTypes /\ DiskTypes /\ KnownExists /\ DiskNumbers
  BY TypeParts, NumbersOnDisk DEF DelegationInv, BaseInv
<1> HIDE DEF n
<1>3. Remembers'
  <2> SUFFICES ASSUME NEW v \in Writers PROVE appRoles'[v] = Delegated(OpenTargets(v))'
    BY DEF Remembers
  <2>1. CASE v = w
    BY <1>1, <2>1 DEF OpenTargets, Delegated
  <2>2. CASE v # w
    <3>1. known[v]["targets"] \in 0..n
      <4>1. known[v]["targets"] \in Nat /\ known[v]["targets"] <= Len(targetsFile)
        BY <1>2 DEF MemoryTypes, KnownExists, DiskNumbers, Roles, TopLevel
      <4> QED
        BY <1>1, <4>1 DEF n
    <3>2. OpenTargets(v)' = OpenTargets(v)
      BY <1>1, <2>2, <3>1 DEF OpenTargets
    <3> QED
      BY <1>1, <2>2, <3>2 DEF Delegated, DelegationInv, Remembers
  <2> QED
    BY <2>1, <2>2
<1>4. TargetsKnown'
  <2> SUFFICES ASSUME NEW v \in Ceremonies, Up(v)' PROVE known'[v]["targets"] = Len(targetsFile')
    BY DEF TargetsKnown
  <2>1. Len(targetsFile') = n + 1
    <3>1. BaseInv
      BY DEF DelegationInv
    <3> QED
      BY <1>1, <3>1, TargetsWritten DEF n
  <2>2. CASE v = w
    BY <1>1, <2>1, <2>2
  <2>3. CASE v # w
    <3>1. Up(v) /\ Up(w)
      BY <1>1, <2>3 DEF WriteTargets, Up
    <3> QED
      BY <1>1, <2>3, <3>1, CeremoniesExclude DEF DelegationInv, BaseInv
  <2> QED
    BY <2>2, <2>3
<1>5. TargetsGrow'
  <2> SUFFICES ASSUME NEW i \in 1..(n + 1), NEW j \in 1..(n + 1), i <= j
               PROVE  Delegated(targetsFile'[i]) \subseteq Delegated(targetsFile'[j])
    BY <1>1 DEF TargetsGrow, Delegated
  <2>1. CASE j \in 1..n
    <3>1. i \in 1..n
      BY <1>1, <2>1
    <3> QED
      BY <1>1, <2>1, <3>1 DEF DelegationInv, TargetsGrow
  <2>2. CASE i = n + 1
    BY <1>1, <2>2
  <2>3. CASE i \in 1..n /\ j = n + 1
    <3>1. n \in 1..n /\ i <= n
      BY <1>1, <2>3
    <3>2. Delegated(targetsFile[i]) \subseteq Delegated(targetsFile[n])
      BY <1>1, <2>3, <3>1 DEF DelegationInv, TargetsGrow
    <3>3. appRoles[w] = Delegated(targetsFile[n])
      BY <1>1, <3>1 DEF DelegationInv, Remembers, OpenTargets
    <3> QED
      BY <1>1, <2>3, <3>2, <3>3
  <2> QED
    BY <1>1, <2>1, <2>2, <2>3
<1>6. NamedIsDelegated'
  <2>1. \A i \in DOMAIN snapshotFile : snapshotFile[i]["targets"] \in 1..n
    BY <1>1 DEF DelegationInv, BaseInv, FilesExist
  <2>2. UNCHANGED snapshotFile
    BY DEF WriteTargets
  <2> QED
    BY <1>1, <2>1, <2>2 DEF DelegationInv, NamedIsDelegated, Delegated
<1> QED
  BY <1>3, <1>4, <1>5, <1>6

(* A new snapshot names applications that the targets it names delegate, because
   do_snapshot refuses to name older targets than the last one did. *)
LEMMA SnapshotNamesDelegated ==
    ASSUME DelegationInv, NEW w \in Writers, WriteSnapshot(w), NEW a \in Apps, Updated(w)[a] # 0
    PROVE  a \in Delegated(targetsFile[Updated(w)["targets"]])
<1> DEFINE k == known[w]["targets"]
<1>1. BaseInv /\ DiskTypes /\ a \in Named /\ "targets" \in Named
  BY TypeParts DEF DelegationInv, BaseInv, Named
<1>2. /\ Updated(w)["targets"] = k /\ k \in 1..Len(targetsFile) /\ Len(targetsFile) \in Nat
      /\ DOMAIN targetsFile = 1..Len(targetsFile)
  BY <1>1, SnapshotWritten DEF DiskTypes
<1>3. CASE a \in appRoles[w]
  BY <1>2, <1>3 DEF DelegationInv, Remembers, OpenTargets
<1>4. CASE a \notin appRoles[w]
  <2> DEFINE old == known[w]["snapshot"]
             i == snapshotFile[old]["targets"]
  <2>1. Infos(w)[a] = 0
    BY <1>1, <1>4 DEF Infos, TopLevel
  <2>2. OpenSnapshot(w)[a] # 0
    BY <1>1, <2>1 DEF Updated
  <2>3. OpenSnapshot(w) = snapshotFile[old] /\ old \in DOMAIN snapshotFile
    <3>1. old # 0
      BY <1>1, <2>2 DEF OpenSnapshot, TopLevel
    <3>2. old \in 0..Len(snapshotFile) /\ DOMAIN snapshotFile = 1..Len(snapshotFile) /\ Len(snapshotFile) \in Nat
      BY <1>1, SnapshotWritten DEF DiskTypes
    <3> QED
      BY <3>1, <3>2 DEF OpenSnapshot
  <2>4. a \in Delegated(targetsFile[i]) /\ i \in DOMAIN targetsFile
    BY <1>1, <2>2, <2>3 DEF DelegationInv, NamedIsDelegated, BaseInv, FilesExist
  <2>5. i <= k
    <3>1. Infos(w)["targets"] = k /\ k # 0
      BY <1>1, <1>2, OpenSnapshotFacts
    <3>2. ~(k < i)
      BY <1>1, <2>3, <3>1 DEF WriteSnapshot, RollsBack
    <3> QED
      BY <1>2, <2>4, <3>2
  <2> HIDE DEF old, i, k
  <2> QED
    BY <1>2, <2>4, <2>5 DEF DelegationInv, TargetsGrow
<1> QED
  BY <1>3, <1>4

LEMMA QuietKeepsDelegations ==
    ASSUME DelegationInv, NEW w \in Writers, Process(w) \/ Operation(w) \/ Write(w), ~WriteTargets(w)
    PROVE  Remembers' /\ TargetsKnown' /\ TargetsGrow' /\ NamedIsDelegated'
<1>1. BaseInv /\ UNCHANGED targetsFile /\ \A v \in Writers : QuietFor(v)
  BY QuietSteps DEF DelegationInv
<1>2. MemoryTypes /\ DiskTypes
  BY <1>1, TypeParts DEF BaseInv
<1>3. Remembers'
  <2> SUFFICES ASSUME NEW v \in Writers PROVE appRoles'[v] = Delegated(OpenTargets(v))'
    BY DEF Remembers
  <2>1. CASE appRoles'[v] = appRoles[v] /\ known'[v]["targets"] = known[v]["targets"]
    BY <1>1, <2>1 DEF DelegationInv, Remembers, OpenTargets, Delegated
  <2>2. CASE appRoles'[v] = {} /\ known'[v]["targets"] = 0
    BY <2>2 DEF OpenTargets, Delegated
  <2>3. CASE appRoles'[v] = Delegated(NewestTargets) /\ known'[v]["targets"] = Len(targetsFile)
    <3>1. Len(targetsFile) = 0 <=> targetsFile = <<>>
      BY <1>2 DEF DiskTypes
    <3>2. OpenTargets(v)' = NewestTargets
      BY <1>1, <2>3, <3>1 DEF OpenTargets, NewestTargets
    <3> QED
      BY <2>3, <3>2 DEF Delegated
  <2> QED
    BY <1>1, <2>1, <2>2, <2>3 DEF QuietFor
<1>4. TargetsKnown'
  BY <1>1 DEF TargetsKnown, DelegationInv, QuietFor
<1>5. TargetsGrow'
  BY <1>1 DEF TargetsGrow, DelegationInv, Delegated
<1>6. NamedIsDelegated'
  <2>1. CASE WriteSnapshot(w)
    <3> SUFFICES ASSUME NEW i \in DOMAIN snapshotFile', NEW a \in Apps, snapshotFile'[i][a] # 0
                 PROVE  a \in Delegated(targetsFile[snapshotFile'[i]["targets"]])
      BY <1>1 DEF NamedIsDelegated, Delegated
    <3>1. CASE i = known[w]["snapshot"] + 1
      BY <1>1, <2>1, <3>1, SnapshotWritten, SnapshotNamesDelegated
    <3>2. CASE i # known[w]["snapshot"] + 1
      <4>1. i \in DOMAIN snapshotFile /\ snapshotFile'[i] = snapshotFile[i]
        <5>1. /\ DOMAIN snapshotFile' = 1..Len(snapshotFile') /\ DOMAIN snapshotFile = 1..Len(snapshotFile)
              /\ known[w]["snapshot"] \in 0..Len(snapshotFile) /\ Len(snapshotFile) \in Nat
              /\ Len(snapshotFile') = IF known[w]["snapshot"] = Len(snapshotFile)
                                      THEN Len(snapshotFile) + 1 ELSE Len(snapshotFile)
          BY <1>1, <1>2, <2>1, SnapshotWritten DEF DiskTypes
        <5>2. i \in 1..Len(snapshotFile)
          BY <3>2, <5>1
        <5> QED
          BY <1>1, <2>1, <3>2, <5>1, <5>2, SnapshotWritten
      <4> QED
        BY <4>1 DEF DelegationInv, NamedIsDelegated
    <3> QED
      BY <3>1, <3>2
  <2>2. CASE ~WriteSnapshot(w)
    <3>1. UNCHANGED snapshotFile
      BY <2>2 DEF Process, Operation, Write, Start, Stop, Raise, Crash, Initialize, AddApp, AddRelease,
         SetCurrent, WriteTargets, WriteRole, RefuseRole, SkipSnapshot, RefuseRollback,
         WriteTimestamp, SkipTimestamp, diskVars
    <3> QED
      BY <1>1, <3>1 DEF DelegationInv, NamedIsDelegated, Delegated
  <2> QED
    BY <2>1, <2>2
<1> QED
  BY <1>3, <1>4, <1>5, <1>6

LEMMA DelegationInvInit == OneCeremonyUp /\ Init => DelegationInv
<1> SUFFICES ASSUME OneCeremonyUp, Init PROVE DelegationInv
  OBVIOUS
<1>1. Remembers
  <2> SUFFICES ASSUME NEW w \in Writers PROVE appRoles[w] = Delegated(OpenTargets(w))
    BY DEF Remembers
  <2>1. known[w]["targets"] = 0 /\ appRoles[w] = {}
    BY DEF Init, Roles, TopLevel
  <2> QED
    BY <2>1 DEF OpenTargets, Delegated
<1>2. TargetsKnown /\ TargetsGrow /\ NamedIsDelegated
  BY DEF Init, TargetsKnown, TargetsGrow, NamedIsDelegated, Up
<1> QED
  BY <1>1, <1>2, BaseInvInit DEF DelegationInv

LEMMA DelegationInvNext == DelegationInv /\ [Next]_vars => DelegationInv'
<1> SUFFICES ASSUME DelegationInv, [Next]_vars PROVE DelegationInv'
  OBVIOUS
<1>1. BaseInv' /\ OneCeremonyUp
  BY BaseInvNext DEF DelegationInv
<1>2. CASE UNCHANGED vars
  <2>1. Remembers' /\ TargetsKnown'
    BY <1>2 DEF vars, diskVars, memoryVars, DelegationInv, Remembers, TargetsKnown, OpenTargets, Delegated, Up
  <2>2. TargetsGrow' /\ NamedIsDelegated'
    BY <1>2 DEF vars, diskVars, DelegationInv, TargetsGrow, NamedIsDelegated, Delegated
  <2>3. OneCeremonyUp'
    BY <1>1 DEF OneCeremonyUp
  <2> QED
    BY <1>1, <2>1, <2>2, <2>3 DEF DelegationInv
<1>3. CASE Next
  <2>1. PICK w \in Writers : Process(w) \/ Operation(w) \/ Write(w)
    BY <1>3 DEF Next
  <2>2. Remembers' /\ TargetsKnown' /\ TargetsGrow' /\ NamedIsDelegated'
    BY <2>1, WriteTargetsKeepsDelegations, QuietKeepsDelegations
  <2> QED
    BY <1>1, <2>2 DEF DelegationInv, OneCeremonyUp
<1> QED
  BY <1>2, <1>3

LEMMA DelegationsResolve == DelegationInv => ReferencesResolve
<1> SUFFICES ASSUME DelegationInv PROVE ReferencesResolve
  OBVIOUS
<1>1. DiskTypes /\ FilesExist /\ NamedIsDelegated
  BY TypeParts DEF DelegationInv, BaseInv
<1>2. ASSUME NEW i \in DOMAIN snapshotFile, NEW a \in Apps, snapshotFile[i][a] # 0
      PROVE  snapshotFile[i][a] \in DOMAIN appFile[a]
  <2>1. snapshotFile[i][a] \in Nat /\ snapshotFile[i][a] <= Len(appFile[a])
    BY <1>1 DEF DiskTypes, FilesExist, Named
  <2>2. DOMAIN appFile[a] = 1..Len(appFile[a]) /\ Len(appFile[a]) \in Nat
    BY <1>1 DEF DiskTypes
  <2> QED
    BY <1>2, <2>1, <2>2
<1> QED
  BY <1>1, <1>2 DEF ReferencesResolve, FilesExist, NamedIsDelegated

(* A client never meets a reference to metadata that is not there, or to an
   application that is not delegated (publish: delegated role, then snapshot, then
   timestamp), whatever crashes, fails and goes on with a stale memory, as long as
   no two ceremonies are up at once. *)
THEOREM ReferencesAlwaysResolve == OneCeremonyUp /\ Spec => []ReferencesResolve
  BY DelegationInvInit, DelegationInvNext, DelegationsResolve, PTL DEF Spec

-----------------------------------------------------------------------------
(* Listings, if no two operations overlap *)

(* A process that is about to write a listing was about to before, with the same
   memory, or begins to in this step. *)
LEMMA AboutToList ==
    ASSUME BaseInv, Exclusion', Lock # "none", NEW w \in Writers, Process(w) \/ Operation(w) \/ Write(w),
           NEW v \in Writers, pc'[v] = "role"
    PROVE  \/ /\ pc[v] = "role" /\ job'[v] = job[v] /\ known'[v] = known[v] /\ UNCHANGED appFile
           \/ v = w /\ WriteTargets(w)
           \/ v = w /\ \E a \in Apps, n \in Releases : AddRelease(w, a, n) \/ SetCurrent(w, a, n)
<1>1. MemoryTypes /\ Exclusion /\ JobFits(w)
  BY TypeParts DEF BaseInv, Jobs
<1>2. CASE Process(w)
  <2>1. v # w
    BY <1>1, <1>2 DEF Process, Start, Stop, Raise, Crash, Down, GiveUp, MemoryTypes
  <2> QED
    BY <1>1, <1>2, <2>1 DEF Process, Start, Stop, Raise, Crash, Down, GiveUp, MemoryTypes,
       diskVars, memoryVars
<1>3. CASE Operation(w)
  <2>1. CASE Initialize(w)
    BY <1>1, <2>1 DEF Initialize, Begin, Remember, MemoryTypes
  <2>2. CASE \E a \in Apps : AddApp(w, a)
    BY <1>1, <2>2 DEF AddApp, Begin, MemoryTypes, diskVars, memoryVars
  <2>3. ASSUME NEW a \in Apps, NEW n \in Releases, AddRelease(w, a, n) \/ SetCurrent(w, a, n), v # w
        PROVE  pc[v] = "role" /\ job'[v] = job[v] /\ known'[v] = known[v] /\ UNCHANGED appFile
    BY <1>1, <2>3 DEF AddRelease, SetCurrent, Begin, MemoryTypes, diskVars, memoryVars
  <2> QED
    BY <1>3, <2>1, <2>2, <2>3 DEF Operation
<1>4. CASE Write(w)
  <2>1. CASE WriteTargets(w)
    BY <1>1, <2>1 DEF WriteTargets, Remember, MemoryTypes
  <2>2. ~WriteRole(w)
    <3> SUFFICES ASSUME WriteRole(w) PROVE FALSE
      OBVIOUS
    <3>1. pc'[w] = "snapshot" /\ pc[v] = "role" /\ pc[w] = "role" /\ v # w
      BY <1>1 DEF WriteRole, MemoryTypes
    <3> QED
      BY <1>1, <3>1 DEF Exclusion, Busy
  <2>3. CASE RefuseRole(w) \/ RefuseRollback(w) \/ SkipTimestamp(w) \/ SkipSnapshot(w)
    BY <1>1, <2>3 DEF RefuseRole, RefuseRollback, SkipTimestamp, SkipSnapshot, GiveUp, MemoryTypes,
       diskVars, memoryVars
  <2>4. CASE WriteSnapshot(w)
    BY <1>1, <2>4 DEF WriteSnapshot, Remember, MemoryTypes
  <2>5. CASE WriteTimestamp(w)
    BY <1>1, <2>5 DEF WriteTimestamp, Remember, GiveUp, MemoryTypes
  <2> QED
    BY <1>4, <2>1, <2>2, <2>3, <2>4, <2>5 DEF Write
<1> QED
  BY <1>2, <1>3, <1>4

LEMMA PayloadStays ==
    ASSUME NEW w \in Writers, Process(w) \/ Operation(w) \/ Write(w)
    PROVE  /\ payload \subseteq payload'
           /\ UNCHANGED appFile \/ WriteRole(w)
           /\ WriteRole(w) => UNCHANGED payload
  BY DEF Process, Operation, Write, Start, Stop, Raise, Crash, Initialize, AddApp, AddRelease,
     SetCurrent, WriteTargets, WriteRole, RefuseRole, WriteSnapshot, SkipSnapshot, RefuseRollback,
     WriteTimestamp, SkipTimestamp, diskVars

LEMMA PendingStays ==
    ASSUME ListingInv, Exclusion', NEW w \in Writers, Process(w) \/ Operation(w) \/ Write(w)
    PROVE  PendingIsServed'
<1> SUFFICES ASSUME NEW v \in Writers, pc'[v] = "role"
             PROVE  /\ job'[v].op = "add_release" => <<job'[v].app, job'[v].release>> \in payload'
                    /\ job'[v].op = "set_current" => job'[v].release \in OpenRole(v, job[v].app)'.releases
  BY DEF PendingIsServed
<1>1. BaseInv /\ MemoryTypes /\ Lock # "none" /\ JobFits(w)
  BY TypeParts DEF ListingInv, BaseInv, Jobs
<1>2. CASE pc[v] = "role" /\ job'[v] = job[v] /\ known'[v] = known[v] /\ UNCHANGED appFile
  <2>1. payload \subseteq payload'
    BY PayloadStays
  <2> QED
    BY <1>2, <2>1 DEF ListingInv, PendingIsServed, OpenRole
<1>3. CASE v = w /\ WriteTargets(w)
  BY <1>1, <1>3 DEF WriteTargets, JobFits, Initializes
<1>4. ASSUME v = w, NEW a \in Apps, NEW n \in Releases, AddRelease(w, a, n)
      PROVE  job'[v].op = "add_release" /\ <<job'[v].app, job'[v].release>> \in payload'
  BY <1>1, <1>4 DEF AddRelease, Begin, MemoryTypes
<1>5. ASSUME v = w, NEW a \in Apps, NEW n \in Releases, SetCurrent(w, a, n)
      PROVE  job'[v].op = "set_current" /\ job'[v].release \in OpenRole(v, job[v].app)'.releases
  <2>1. job'[w].op = "set_current" /\ job'[w].app = a /\ job'[w].release = n
    BY <1>1, <1>5 DEF SetCurrent, Begin, MemoryTypes
  <2>2. n \in OpenRole(w, a).releases /\ UNCHANGED <<appFile, known>>
    BY <1>5 DEF SetCurrent, diskVars, memoryVars
  <2> QED
    BY <1>5, <2>1, <2>2 DEF OpenRole
<1> QED
  BY <1>1, <1>2, <1>3, <1>4, <1>5, AboutToList

LEMMA OpenIsServed ==
    ASSUME BaseInv, PointerIsServed, NEW w \in Writers, NEW a \in Apps
    PROVE  /\ {a} \X OpenRole(w, a).releases \subseteq payload
           /\ OpenRole(w, a).pointer \in OpenRole(w, a).releases \cup {0}
<1>1. CASE known[w][a] = 0
  BY <1>1 DEF OpenRole, EmptyListing
<1>2. CASE known[w][a] # 0
  <2>1. DOMAIN appFile[a] = 1..Len(appFile[a])
    BY TypeParts DEF BaseInv, DiskTypes
  <2>2. known[w][a] \in DOMAIN appFile[a]
    BY <1>2, <2>1, OpenListing
  <2> QED
    BY <1>2, <2>2 DEF OpenRole, PointerIsServed
<1> QED
  BY <1>1, <1>2

LEMMA ListedStays ==
    ASSUME ListingInv, NEW w \in Writers, Process(w) \/ Operation(w) \/ Write(w)
    PROVE  PointerIsServed'
<1>1. BaseInv /\ DiskTypes /\ PointerIsServed
  BY TypeParts DEF ListingInv, BaseInv
<1>2. CASE UNCHANGED appFile
  BY <1>1, <1>2, PayloadStays DEF PointerIsServed
<1>3. CASE WriteRole(w)
  <2>1. PICK a : a = job[w].app
    OBVIOUS
  <2>2. /\ a \in Apps /\ known[w][a] \in 0..Len(appFile[a]) /\ Len(appFile[a]) \in Nat
        /\ OpenRole(w, a) \in Listing
        /\ appFile' \in [Apps -> Seq(Listing)]
        /\ \A b \in Apps \ {a} : appFile'[b] = appFile[b]
        /\ Len(appFile'[a]) = IF known[w][a] = Len(appFile[a])
                              THEN Len(appFile[a]) + 1 ELSE Len(appFile[a])
        /\ appFile'[a][known[w][a] + 1] = Edited(w)
        /\ \A i \in 1..Len(appFile[a]) :
              i # known[w][a] + 1 => appFile'[a][i] = appFile[a][i]
    <3>1. BaseInv /\ WriteRole(w) /\ a = job[w].app
      BY <1>1, <1>3, <2>1
    <3>2. /\ a \in Apps /\ known[w][a] \in 0..Len(appFile[a]) /\ Len(appFile[a]) \in Nat
          /\ OpenRole(w, a) \in Listing
      BY <3>1, RoleWritten
    <3>3. appFile' \in [Apps -> Seq(Listing)] /\ \A b \in Apps \ {a} : appFile'[b] = appFile[b]
      BY <3>1, RoleWritten
    <3>4. /\ Len(appFile'[a]) = IF known[w][a] = Len(appFile[a])
                                THEN Len(appFile[a]) + 1 ELSE Len(appFile[a])
          /\ appFile'[a][known[w][a] + 1] = Edited(w)
      BY <3>1, RoleWritten
    <3>5. \A i \in 1..Len(appFile[a]) :
              i # known[w][a] + 1 => appFile'[a][i] = appFile[a][i]
      BY <3>1, RoleWritten
    <3> QED
      BY <3>2, <3>3, <3>4, <3>5
  <2>3. {a} \X Edited(w).releases \subseteq payload /\ Edited(w).pointer \in Edited(w).releases \cup {0}
    <3>1. /\ {a} \X OpenRole(w, a).releases \subseteq payload
          /\ OpenRole(w, a).pointer \in OpenRole(w, a).releases \cup {0}
      BY <1>1, <2>2, OpenIsServed
    <3>2. pc[w] = "role"
      BY <1>3 DEF WriteRole
    <3>3. CASE job[w].op = "add_release"
      <4>1. Edited(w).releases = OpenRole(w, a).releases \cup {job[w].release}
            /\ Edited(w).pointer = OpenRole(w, a).pointer
        BY <1>1, <2>1, <2>2, <3>2, <3>3, EditedListing
      <4>2. <<a, job[w].release>> \in payload
        BY <2>1, <3>2, <3>3 DEF ListingInv, PendingIsServed
      <4> QED
        BY <3>1, <4>1, <4>2
    <3>4. CASE job[w].op = "set_current"
      <4>1. Edited(w).releases = OpenRole(w, a).releases /\ Edited(w).pointer = job[w].release
        BY <1>1, <2>1, <2>2, <3>2, <3>4, EditedListing
      <4>2. job[w].release \in OpenRole(w, a).releases
        BY <2>1, <3>2, <3>4 DEF ListingInv, PendingIsServed
      <4> QED
        BY <3>1, <4>1, <4>2
    <3>5. CASE job[w].op = "add_app"
      <4>1. Edited(w) = OpenRole(w, a)
        BY <1>1, <2>1, <2>2, <3>2, <3>5, EditedListing
      <4> QED
        BY <3>1, <4>1
    <3>6. job[w].op \in {"add_app", "add_release", "set_current"}
      BY <1>1, <2>1, <2>2, <3>2, EditedListing
    <3> QED
      BY <3>3, <3>4, <3>5, <3>6
  <2>4. UNCHANGED payload
    BY <1>3 DEF WriteRole
  <2> SUFFICES ASSUME NEW b \in Apps, NEW v \in DOMAIN appFile'[b]
               PROVE  /\ {b} \X appFile'[b][v].releases \subseteq payload
                      /\ appFile'[b][v].pointer \in appFile'[b][v].releases \cup {0}
    BY <2>4 DEF PointerIsServed
  <2>5. CASE b # a
    BY <1>1, <2>2, <2>5 DEF PointerIsServed
  <2>6. CASE b = a /\ v = known[w][a] + 1
    BY <2>2, <2>3, <2>6
  <2>7. CASE b = a /\ v # known[w][a] + 1
    <3>1. DOMAIN appFile[a] = 1..Len(appFile[a]) /\ DOMAIN appFile'[a] = 1..Len(appFile'[a])
      BY <1>1, <2>2 DEF DiskTypes
    <3>2. v \in 1..Len(appFile[a])
      BY <2>2, <2>7, <3>1
    <3> QED
      BY <1>1, <2>2, <2>7, <3>1, <3>2 DEF PointerIsServed
  <2> QED
    BY <2>5, <2>6, <2>7
<1> QED
  BY <1>2, <1>3, PayloadStays

LEMMA ListingInvInit == Lock # "none" /\ Init => ListingInv
<1> SUFFICES ASSUME Lock # "none", Init PROVE ListingInv
  OBVIOUS
<1>1. PointerIsServed /\ PendingIsServed
  BY DEF Init, PointerIsServed, PendingIsServed
<1> QED
  BY <1>1, BaseInvInit DEF ListingInv

LEMMA ListingInvNext == ListingInv /\ [Next]_vars => ListingInv'
<1> SUFFICES ASSUME ListingInv, [Next]_vars PROVE ListingInv'
  OBVIOUS
<1>1. BaseInv' /\ Exclusion'
  BY BaseInvNext DEF ListingInv, BaseInv
<1>2. CASE UNCHANGED vars
  BY <1>1, <1>2 DEF vars, diskVars, memoryVars, ListingInv, PointerIsServed, PendingIsServed, OpenRole
<1>3. CASE Next
  <2>1. PICK w \in Writers : Process(w) \/ Operation(w) \/ Write(w)
    BY <1>3 DEF Next
  <2> QED
    BY <1>1, <2>1, PendingStays, ListedStays DEF ListingInv
<1> QED
  BY <1>2, <1>3

(* What a role lists can be downloaded, and what it points at it lists (add_release,
   set_current), as long as no two operations overlap: several processes with
   memories of different age included. *)
THEOREM PointersAlwaysServed == Lock # "none" /\ Spec => []PointerIsServed
<1>1. ListingInv => PointerIsServed
  BY DEF ListingInv
<1> QED
  BY <1>1, ListingInvInit, ListingInvNext, PTL DEF Spec

-----------------------------------------------------------------------------
(* If one process is up at a time *)

LEMMA SoleProcess ==
    ASSUME BaseInv, Exclusion', Lock = "process", NEW w \in Writers,
           Process(w) \/ Operation(w) \/ Write(w), NEW v \in Writers, Up(v)'
    PROVE  v = w
<1>1. MemoryTypes /\ Exclusion
  BY TypeParts DEF BaseInv
<1>2. Up(w) \/ Start(w)
  BY DEF Process, Operation, Write, Stop, Raise, Crash, Busy, Initialize, AddApp, AddRelease,
     SetCurrent, Begin, WriteTargets, WriteRole, RefuseRole, WriteSnapshot, SkipSnapshot,
     RefuseRollback, WriteTimestamp, SkipTimestamp, Up
<1> SUFFICES ASSUME v # w PROVE FALSE
  OBVIOUS
<1>3. pc'[v] = pc[v]
  BY <1>1 DEF Process, Operation, Write, Start, Stop, Raise, Crash, Down, GiveUp, Initialize, AddApp,
     AddRelease, SetCurrent, Begin, WriteTargets, WriteRole, RefuseRole, WriteSnapshot, SkipSnapshot,
     RefuseRollback, WriteTimestamp, SkipTimestamp, MemoryTypes
<1>4. Up(v)
  BY <1>3 DEF Up
<1> QED
  BY <1>1, <1>2, <1>4 DEF Exclusion, Start

LEMMA RoleAppended ==
    ASSUME SerialInv, NEW w \in Writers, WriteRole(w), NEW a, a = job[w].app
    PROVE  /\ a \in Apps /\ a \in appRoles[w] /\ known[w][a] = Len(appFile[a]) /\ Len(appFile[a]) \in Nat
           /\ Len(appFile'[a]) = Len(appFile[a]) + 1
           /\ DOMAIN appFile[a] = 1..Len(appFile[a]) /\ DOMAIN appFile'[a] = 1..(Len(appFile[a]) + 1)
           /\ appFile'[a][Len(appFile[a]) + 1] = Edited(w) /\ OpenRole(w, a) \in Listing
           /\ \A i \in 1..Len(appFile[a]) : appFile'[a][i] = appFile[a][i]
           /\ \A b \in Apps \ {a} : appFile'[b] = appFile[b]
           /\ known'[w][a] = Len(appFile[a]) + 1
           /\ \A s \in Roles \ {a} : known'[w][s] = known[w][s]
<1>1. BaseInv /\ MemoryTypes /\ DiskTypes /\ DiskNumbers /\ InStep
  BY TypeParts, NumbersOnDisk DEF SerialInv, ListingInv, BaseInv
<1>2. /\ a \in Apps /\ a \in appRoles[w] /\ known[w][a] < MaxVersion
      /\ OpenRole(w, a) \in Listing /\ appFile' \in [Apps -> Seq(Listing)]
      /\ Len(appFile[a]) \in Nat
  BY <1>1, RoleWritten
<1>3. \A b \in Apps \ {a} : appFile'[b] = appFile[b]
  BY <1>1, RoleWritten
<1>4. /\ Len(appFile'[a]) = IF known[w][a] = Len(appFile[a])
                            THEN Len(appFile[a]) + 1 ELSE Len(appFile[a])
      /\ appFile'[a][known[w][a] + 1] = Edited(w)
  BY <1>1, RoleWritten
<1>5. \A i \in 1..Len(appFile[a]) : i # known[w][a] + 1 => appFile'[a][i] = appFile[a][i]
  BY <1>1, RoleWritten
<1>6. known[w][a] = Len(appFile[a]) /\ a \in Roles
  BY <1>1, <1>2 DEF WriteRole, Up, InStep, DiskNumbers, Roles
<1>7. Remember(w, a)
  BY DEF WriteRole
<1>8. known'[w][a] = known[w][a] + 1 /\ \A s \in Roles \ {a} : known'[w][s] = known[w][s]
  BY <1>1, <1>2, <1>6, <1>7 DEF Remember, MemoryTypes
<1>9. DOMAIN appFile[a] = 1..Len(appFile[a]) /\ DOMAIN appFile'[a] = 1..Len(appFile'[a])
  BY <1>1, <1>2 DEF DiskTypes
<1>10. \A i \in 1..Len(appFile[a]) : appFile'[a][i] = appFile[a][i]
  BY <1>2, <1>5, <1>6
<1> QED
  BY <1>2, <1>3, <1>4, <1>6, <1>8, <1>9, <1>10

LEMMA SnapshotAppended ==
    ASSUME SerialInv, NEW w \in Writers, WriteSnapshot(w)
    PROVE  /\ known[w]["snapshot"] = Len(snapshotFile) /\ Len(snapshotFile) \in Nat
           /\ DOMAIN snapshotFile = 1..Len(snapshotFile)
           /\ DOMAIN snapshotFile' = 1..(Len(snapshotFile) + 1)
           /\ Len(snapshotFile') = Len(snapshotFile) + 1
           /\ snapshotFile'[Len(snapshotFile) + 1] = Updated(w)
           /\ \A i \in 1..Len(snapshotFile) : snapshotFile'[i] = snapshotFile[i]
           /\ known'[w]["snapshot"] = Len(snapshotFile) + 1
           /\ \A s \in Roles \ {"snapshot"} : known'[w][s] = known[w][s]
<1>1. BaseInv /\ MemoryTypes /\ DiskTypes /\ DiskNumbers /\ InStep
  BY TypeParts, NumbersOnDisk DEF SerialInv, ListingInv, BaseInv
<1>2. /\ snapshotFile' \in Seq([Named -> 0..MaxVersion]) /\ Len(snapshotFile) \in Nat
      /\ Len(snapshotFile') = IF known[w]["snapshot"] = Len(snapshotFile)
                              THEN Len(snapshotFile) + 1 ELSE Len(snapshotFile)
      /\ snapshotFile'[known[w]["snapshot"] + 1] = Updated(w)
      /\ \A i \in 1..Len(snapshotFile) :
            i # known[w]["snapshot"] + 1 => snapshotFile'[i] = snapshotFile[i]
  BY <1>1, SnapshotWritten
<1>3. known[w]["snapshot"] = Len(snapshotFile) /\ "snapshot" \in Roles
  BY <1>1 DEF WriteSnapshot, Up, InStep, DiskNumbers, Roles, TopLevel
<1>4. /\ known'[w]["snapshot"] = known[w]["snapshot"] + 1
      /\ \A s \in Roles \ {"snapshot"} : known'[w][s] = known[w][s]
  BY <1>1, <1>3 DEF WriteSnapshot, Remember, MemoryTypes
<1>5. DOMAIN snapshotFile = 1..Len(snapshotFile) /\ DOMAIN snapshotFile' = 1..Len(snapshotFile')
  BY <1>1, <1>2 DEF DiskTypes
<1> QED
  BY <1>2, <1>3, <1>4, <1>5

(* Every other step leaves the numbered files alone. *)
LEMMA FilesUntouched ==
    ASSUME NEW w \in Writers, Process(w) \/ Operation(w) \/ Write(w)
    PROVE  /\ WriteTargets(w) \/ UNCHANGED targetsFile
           /\ WriteRole(w) \/ UNCHANGED appFile
           /\ WriteSnapshot(w) \/ UNCHANGED snapshotFile
           /\ WriteTimestamp(w) \/ UNCHANGED timestampFile
           /\ Initialize(w) \/ UNCHANGED initialized
  BY DEF Process, Operation, Write, Start, Stop, Raise, Crash, Initialize, AddApp, AddRelease,
     SetCurrent, WriteTargets, WriteRole, RefuseRole, WriteSnapshot, SkipSnapshot, RefuseRollback,
     WriteTimestamp, SkipTimestamp, diskVars

(* The memory of the process that is up stays that of the directory. *)
LEMMA InStepStays ==
    ASSUME SerialInv, Exclusion', NEW w \in Writers, Process(w) \/ Operation(w) \/ Write(w)
    PROVE  InStep'
<1>1. BaseInv /\ MemoryTypes /\ DiskTypes /\ DiskNumbers /\ DiskNumbers' /\ InStep /\ Lock = "process"
      /\ DelegationInv
  BY TypeParts, NumbersOnDisk, DiskNumbersNext DEF SerialInv, ListingInv, BaseInv
<1>2. Roles = {"root", "targets", "snapshot", "timestamp"} \cup Apps
  BY DEF Roles, TopLevel
<1> SUFFICES ASSUME Up(w)' PROVE \A r \in Roles : known'[w][r] = OnDisk(r)'
  BY <1>1, SoleProcess DEF InStep
<1>3. CASE Start(w)
  BY <1>1, <1>3 DEF Start, MemoryTypes, OnDisk, diskVars
<1>4. CASE Stop(w) \/ Crash(w)
  BY <1>1, <1>4 DEF Stop, Crash, Down, MemoryTypes, Up
<1>5. ASSUME Up(w), UNCHANGED <<diskVars, memoryVars>>
      PROVE  \A r \in Roles : known'[w][r] = OnDisk(r)'
  BY <1>1, <1>5 DEF InStep, OnDisk, diskVars, memoryVars
<1>6. CASE Raise(w) \/ RefuseRole(w) \/ RefuseRollback(w) \/ SkipTimestamp(w) \/ SkipSnapshot(w)
  BY <1>5, <1>6 DEF Raise, RefuseRole, RefuseRollback, SkipTimestamp, SkipSnapshot, Busy, Up
<1>7. CASE \E a \in Apps : AddApp(w, a)
  BY <1>5, <1>7 DEF AddApp, Begin, Up
<1>8. CASE \E a \in Apps, n \in Releases : AddRelease(w, a, n) \/ SetCurrent(w, a, n)
  BY <1>1, <1>8 DEF AddRelease, SetCurrent, Begin, Up, InStep, OnDisk, diskVars, memoryVars
<1>9. CASE Initialize(w)
  <2>1. Up(w)
    BY <1>9 DEF Initialize, Begin, Up
  <2>2. known'[w]["root"] = 1 /\ \A r \in Roles \ {"root"} : known'[w][r] = known[w][r]
    BY <1>1, <1>2, <1>9 DEF Initialize, Remember, MemoryTypes
  <2>3. OnDisk("root")' = 1 /\ \A r \in Roles \ {"root"} : OnDisk(r)' = OnDisk(r)
    BY <1>9 DEF Initialize, OnDisk
  <2> QED
    BY <1>1, <2>1, <2>2, <2>3 DEF InStep
<1>10. CASE WriteTargets(w)
  <2>1. Up(w)
    BY <1>10 DEF WriteTargets, Up
  <2>2. \A r \in Roles \ {"targets"} : known'[w][r] = known[w][r] /\ OnDisk(r)' = OnDisk(r)
    BY <1>1, <1>2, <1>10 DEF WriteTargets, Remember, MemoryTypes, OnDisk
  <2>3. known'[w]["targets"] = OnDisk("targets")'
    <3>1. Len(targetsFile') = Len(targetsFile) + 1
      <4>1. known[w]["targets"] = Len(targetsFile)
        BY <1>1, <1>10, TargetsAppended
      <4> QED
        BY <1>1, <1>10, <4>1, TargetsWritten
    <3> QED
      BY <1>1, <1>10, <3>1, TargetsAppended DEF DiskNumbers
  <2> QED
    BY <1>1, <2>1, <2>2, <2>3 DEF InStep
<1>11. CASE WriteRole(w)
  <2>1. PICK a : a = job[w].app
    OBVIOUS
  <2>2. a \in Apps /\ Len(appFile'[a]) = Len(appFile[a]) + 1 /\ known'[w][a] = Len(appFile[a]) + 1
    BY <1>11, <2>1, RoleAppended
  <2>3. \A s \in Roles \ {a} : known'[w][s] = known[w][s]
    BY <1>11, <2>1, RoleAppended
  <2>4. \A b \in Apps \ {a} : appFile'[b] = appFile[b]
    BY <1>11, <2>1, RoleAppended
  <2>5. Up(w) /\ UNCHANGED <<initialized, targetsFile, snapshotFile, timestampFile>>
    BY <1>11 DEF WriteRole, Up
  <2>6. known'[w][a] = OnDisk(a)'
    BY <1>1, <2>2 DEF DiskNumbers
  <2>7. \A s \in Roles \ {a} : OnDisk(s)' = OnDisk(s)
    BY <2>2, <2>4, <2>5 DEF OnDisk, Roles, TopLevel
  <2> QED
    BY <1>1, <2>3, <2>5, <2>6, <2>7 DEF InStep
<1>12. CASE WriteSnapshot(w)
  <2>1. Up(w) /\ \A r \in Roles \ {"snapshot"} : OnDisk(r)' = OnDisk(r)
    BY <1>12 DEF WriteSnapshot, Up, OnDisk
  <2>2. known'[w]["snapshot"] = OnDisk("snapshot")'
    BY <1>1, <1>12, SnapshotAppended DEF DiskNumbers
  <2>3. \A r \in Roles \ {"snapshot"} : known'[w][r] = known[w][r]
    BY <1>12, SnapshotAppended
  <2> QED
    BY <1>1, <2>1, <2>2, <2>3 DEF InStep
<1>13. CASE WriteTimestamp(w)
  <2>1. Up(w) /\ \A r \in Roles \ {"timestamp"} : OnDisk(r)' = OnDisk(r)
    BY <1>13 DEF WriteTimestamp, Up, OnDisk
  <2>2. known'[w]["timestamp"] = OnDisk("timestamp")'
    BY <1>1, <1>2, <1>13 DEF WriteTimestamp, Remember, MemoryTypes, DiskNumbers
  <2>3. \A r \in Roles \ {"timestamp"} : known'[w][r] = known[w][r]
    BY <1>1, <1>2, <1>13 DEF WriteTimestamp, Remember, MemoryTypes
  <2> QED
    BY <1>1, <2>1, <2>2, <2>3 DEF InStep
<1> QED
  BY <1>3, <1>4, <1>6, <1>7, <1>8, <1>9, <1>10, <1>11, <1>12, <1>13 DEF Process, Operation, Write

LEMMA ContinuesOn ==
    ASSUME NEW x, NEW y, NEW z, Continues(y, x), Continues(z, y)
    PROVE  Continues(z, x)
  BY DEF Continues

(* A listing is edited by adding to it, and points at what it lists. *)
LEMMA EditContinues ==
    ASSUME BaseInv, PendingIsServed, NEW w \in Writers, pc[w] = "role",
           OpenRole(w, job[w].app) \in Listing
    PROVE  Continues(Edited(w), OpenRole(w, job[w].app))
<1> DEFINE old == OpenRole(w, job[w].app)
<1>1. old.releases \subseteq Edited(w).releases
  BY EditedListing
<1>2. CASE job[w].op = "add_release"
  <2>1. Edited(w).pointer = old.pointer
    BY <1>2, EditedListing
  <2> QED
    BY <1>1, <2>1 DEF Continues
<1>3. CASE job[w].op = "set_current"
  <2>1. Edited(w).releases = old.releases /\ Edited(w).pointer = job[w].release
    BY <1>3, EditedListing
  <2>2. job[w].release \in old.releases
    BY <1>3 DEF PendingIsServed
  <2> QED
    BY <1>1, <2>1, <2>2 DEF Continues
<1>4. CASE job[w].op = "add_app"
  <2>1. Edited(w) = old
    BY <1>4, EditedListing
  <2> QED
    BY <2>1 DEF Continues
<1>5. job[w].op \in {"add_app", "add_release", "set_current"}
  BY EditedListing
<1> QED
  BY <1>2, <1>3, <1>4, <1>5

LEMMA ListingsContinueOn ==
    ASSUME SerialInv, NEW w \in Writers, WriteRole(w)
    PROVE  ListingsContinue'
<1>1. PICK a : a = job[w].app
  OBVIOUS
<1> DEFINE n == Len(appFile[a])
<1>2. /\ a \in Apps /\ known[w][a] = n /\ n \in Nat
      /\ DOMAIN appFile[a] = 1..n /\ DOMAIN appFile'[a] = 1..(n + 1)
      /\ appFile'[a][n + 1] = Edited(w) /\ OpenRole(w, a) \in Listing
  BY <1>1, RoleAppended
<1>3. \A i \in 1..n : appFile'[a][i] = appFile[a][i]
  BY <1>1, RoleAppended
<1>4. \A b \in Apps \ {a} : appFile'[b] = appFile[b]
  BY <1>1, RoleAppended
<1>5. Continues(Edited(w), OpenRole(w, a))
  <2>1. BaseInv /\ PendingIsServed /\ pc[w] = "role"
    BY DEF SerialInv, ListingInv, WriteRole
  <2> QED
    BY <1>1, <1>2, <2>1, EditContinues
<1> HIDE DEF n
<1> SUFFICES ASSUME NEW b \in Apps, NEW i \in DOMAIN appFile'[b], NEW j \in DOMAIN appFile'[b], i <= j
             PROVE  Continues(appFile'[b][j], appFile'[b][i])
  BY DEF ListingsContinue, Continues
<1>6. CASE b # a
  BY <1>4, <1>6 DEF SerialInv, ListingsContinue
<1>7. CASE b = a /\ j \in 1..n
  <2>1. i \in 1..n
    BY <1>2, <1>7
  <2>2. Continues(appFile[a][j], appFile[a][i])
    BY <1>2, <1>7, <2>1 DEF SerialInv, ListingsContinue
  <2> QED
    BY <1>3, <1>7, <2>1, <2>2
<1>8. CASE b = a /\ i = n + 1
  <2>1. j = i
    BY <1>2, <1>8
  <2> QED
    BY <2>1 DEF Continues
<1>9. CASE b = a /\ i \in 1..n /\ j = n + 1
  <2>1. n \in 1..n /\ i <= n
    BY <1>2, <1>9
  <2>2. Continues(appFile[a][n], appFile[a][i])
    BY <1>2, <1>9, <2>1 DEF SerialInv, ListingsContinue
  <2>3. OpenRole(w, a) = appFile[a][n]
    BY <1>2, <2>1 DEF OpenRole
  <2>4. Continues(Edited(w), appFile[a][i])
    BY <1>5, <2>2, <2>3, ContinuesOn
  <2> QED
    BY <1>2, <1>3, <1>9, <2>4
<1> QED
  BY <1>2, <1>6, <1>7, <1>8, <1>9

LEMMA SnapshotsAdvanceOn ==
    ASSUME SerialInv, NEW w \in Writers, WriteSnapshot(w)
    PROVE  SnapshotsAdvance'
<1> DEFINE n == Len(snapshotFile)
<1>1. /\ known[w]["snapshot"] = n /\ n \in Nat
      /\ DOMAIN snapshotFile = 1..n /\ DOMAIN snapshotFile' = 1..(n + 1)
      /\ snapshotFile'[n + 1] = Updated(w)
  BY SnapshotAppended
<1>2. \A i \in 1..n : snapshotFile'[i] = snapshotFile[i]
  BY SnapshotAppended
<1>3. BaseInv /\ snapshotFile \in Seq([Named -> 0..MaxVersion])
  BY TypeParts DEF SerialInv, ListingInv, BaseInv, DiskTypes
<1>4. \A r \in Named : OpenSnapshot(w)[r] <= Updated(w)[r]
  <2>1. Infos(w) \in [Named -> 0..MaxVersion] /\ OpenSnapshot(w) \in [Named -> 0..MaxVersion]
    BY <1>3, OpenSnapshotFacts
  <2> SUFFICES ASSUME NEW r \in Named PROVE OpenSnapshot(w)[r] <= Updated(w)[r]
    OBVIOUS
  <2>2. Infos(w)[r] \in Nat /\ OpenSnapshot(w)[r] \in Nat
    BY <2>1
  <2>3. Infos(w)[r] = 0 \/ ~(Infos(w)[r] < OpenSnapshot(w)[r])
    BY DEF WriteSnapshot, RollsBack
  <2>4. Updated(w)[r] = IF Infos(w)[r] = 0 THEN OpenSnapshot(w)[r] ELSE Infos(w)[r]
    BY DEF Updated
  <2> QED
    BY <2>2, <2>3, <2>4
<1>5. Updated(w) \in [Named -> 0..MaxVersion]
  BY <1>3, SnapshotWritten
<1> HIDE DEF n
<1> SUFFICES ASSUME NEW i \in 1..(n + 1), NEW j \in 1..(n + 1), i <= j, NEW r \in Named
             PROVE  snapshotFile'[i][r] <= snapshotFile'[j][r]
  BY <1>1 DEF SnapshotsAdvance
<1>6. CASE j \in 1..n
  <2>1. i \in 1..n
    BY <1>1, <1>6
  <2> QED
    BY <1>1, <1>2, <1>6, <2>1 DEF SerialInv, SnapshotsAdvance
<1>7. CASE i = n + 1
  <2>1. i = j
    BY <1>1, <1>7
  <2>2. snapshotFile'[j][r] \in Nat
    BY <1>1, <1>5, <1>7, <2>1
  <2> QED
    BY <2>1, <2>2
<1>8. CASE i \in 1..n /\ j = n + 1
  <2>1. n \in 1..n /\ i <= n
    BY <1>1, <1>8
  <2>2. snapshotFile[i][r] <= snapshotFile[n][r]
    BY <1>1, <1>8, <2>1 DEF SerialInv, SnapshotsAdvance
  <2>3. OpenSnapshot(w) = snapshotFile[n]
    BY <1>1, <2>1 DEF OpenSnapshot
  <2>4. snapshotFile[i][r] \in Nat /\ snapshotFile[n][r] \in Nat /\ Updated(w)[r] \in Nat
    <3>1. snapshotFile[i] \in [Named -> 0..MaxVersion] /\ snapshotFile[n] \in [Named -> 0..MaxVersion]
      BY <1>1, <1>3, <1>8, <2>1
    <3> QED
      BY <1>5, <3>1
  <2>5. snapshotFile[n][r] <= Updated(w)[r]
    BY <1>4, <2>3
  <2> QED
    BY <1>1, <1>2, <1>8, <2>2, <2>4, <2>5
<1> QED
  BY <1>1, <1>6, <1>7, <1>8

(* A result waits on disk from the write of its role to that of the timestamp. *)
LEMMA ResultsWaitOn ==
    ASSUME SerialInv, BaseInv', NEW w \in Writers, Process(w) \/ Operation(w) \/ Write(w)
    PROVE  ResultsWait'
<1>1. /\ BaseInv /\ MemoryTypes /\ JobFits(w) /\ Unserved(w) /\ Exclusion' /\ Lock = "process"
      /\ Apps \cap TopLevel = {} /\ Named = {"targets"} \cup Apps
  BY TypeParts DEF SerialInv, ListingInv, BaseInv, Jobs, ResultsWait, Named
<1>2. ASSUME NEW v \in Writers, v # w PROVE Unserved(v)'
  <2>1. ~Up(v)'
    BY <1>1, <1>2, SoleProcess
  <2> QED
    BY <2>1 DEF Unserved, Up
<1>3. ASSUME WriteRole(w) PROVE Unserved(w)'
  <2>1. PICK a : a = job[w].app
    OBVIOUS
  <2>2. /\ a \in Apps /\ appFile'[a][Len(appFile[a]) + 1] = Edited(w) /\ OpenRole(w, a) \in Listing
        /\ known'[w][a] = Len(appFile[a]) + 1 /\ Len(appFile[a]) \in Nat
    BY <1>3, <2>1, RoleAppended
  <2>3. pc'[w] = "snapshot" /\ job'[w] = job[w] /\ pc[w] = "role"
    BY <1>1, <1>3 DEF WriteRole, MemoryTypes
  <2>4. OpenRole(w, a)' = Edited(w)
    BY <2>2 DEF OpenRole
  <2>5. job[w].op = "add_release" => job[w].release \in Edited(w).releases
    BY <1>1, <2>1, <2>2, <2>3, EditedListing
  <2>6. job[w].op = "set_current" => Edited(w).pointer = job[w].release
    BY <1>1, <2>1, <2>2, <2>3, EditedListing
  <2>7. OpenRole(w, job[w].app)' = Edited(w)
    BY <2>1, <2>3, <2>4 DEF OpenRole
  <2> QED
    BY <2>3, <2>5, <2>6, <2>7 DEF Unserved
<1>4. ASSUME WriteTargets(w) PROVE Unserved(w)'
  <2>1. pc'[w] \in {"role", "snapshot"} /\ job'[w] = job[w]
    BY <1>1, <1>4 DEF WriteTargets, MemoryTypes
  <2>2. job[w].op \notin {"add_release", "set_current"}
    BY <1>1, <1>4 DEF WriteTargets, JobFits, Initializes
  <2> QED
    BY <2>1, <2>2 DEF Unserved
<1>5. ASSUME pc[w] = "snapshot", pc'[w] = "timestamp", job'[w] = job[w], UNCHANGED <<appFile, appRoles>>,
             \A r \in Named : known'[w][r] = known[w][r],
             \A r \in Named : Infos(w)[r] # 0 => OpenSnapshot(w)'[r] = Infos(w)[r]
      PROVE  Unserved(w)'
  <2>1. Infos(w)' = Infos(w)
    BY <1>5 DEF Infos
  <2>2. job[w].op \in {"add_release", "set_current"} => job[w].app \in Apps
    BY <1>1, <1>5 DEF JobFits, Initializes, Edits, MemoryTypes
  <2>3. job[w].app \in Apps => OpenRole(w, job[w].app)' = OpenRole(w, job[w].app)
    BY <1>1, <1>5 DEF OpenRole
  <2>4. \A r \in Named : Infos(w)'[r] # 0 => OpenSnapshot(w)'[r] = Infos(w)'[r]
    BY <1>5, <2>1
  <2> QED
    BY <1>1, <1>5, <2>2, <2>3, <2>4 DEF Unserved
<1>6. ASSUME WriteSnapshot(w) PROVE Unserved(w)'
  <2>1. /\ known'[w]["snapshot"] = Len(snapshotFile) + 1 /\ Len(snapshotFile) \in Nat
        /\ snapshotFile'[Len(snapshotFile) + 1] = Updated(w)
    BY <1>6, SnapshotAppended
  <2>2. OpenSnapshot(w)' = Updated(w)
    BY <2>1 DEF OpenSnapshot
  <2>3. \A r \in Named : known'[w][r] = known[w][r]
    <3>1. \A s \in Roles \ {"snapshot"} : known'[w][s] = known[w][s]
      BY <1>6, SnapshotAppended
    <3> QED
      BY <1>1, <3>1 DEF Roles, TopLevel
  <2>4. pc[w] = "snapshot" /\ pc'[w] = "timestamp" /\ UNCHANGED <<job, appFile, appRoles>>
    BY <1>1, <1>6 DEF WriteSnapshot, MemoryTypes
  <2>5. \A r \in Named : Infos(w)[r] # 0 => OpenSnapshot(w)'[r] = Infos(w)[r]
    BY <2>2 DEF Updated
  <2> QED
    BY <1>5, <2>3, <2>4, <2>5
<1>7. ASSUME SkipSnapshot(w) PROVE Unserved(w)'
  <2>1. /\ pc[w] = "snapshot" /\ pc'[w] = "timestamp"
        /\ UNCHANGED <<job, appFile, appRoles, known, snapshotFile>>
    BY <1>1, <1>7 DEF SkipSnapshot, MemoryTypes, diskVars, memoryVars
  <2>2. Updated(w) = OpenSnapshot(w) /\ OpenSnapshot(w)' = OpenSnapshot(w)
    BY <1>7, <2>1 DEF SkipSnapshot, SnapshotDue, OpenSnapshot
  <2>3. \A r \in Named : Infos(w)[r] # 0 => Updated(w)[r] = Infos(w)[r]
    BY DEF Updated
  <2>4. \A r \in Named : Infos(w)[r] # 0 => OpenSnapshot(w)'[r] = Infos(w)[r]
    BY <2>2, <2>3
  <2> QED
    BY <1>5, <2>1, <2>4
<1>8. ASSUME pc'[w] \in {"down", "idle", "targets", "role"} PROVE Unserved(w)'
  BY <1>8 DEF Unserved
<1>9. ASSUME Process(w) PROVE Unserved(w)'
  <2>1. CASE Start(w)
    BY <1>1, <1>8, <2>1 DEF Start, MemoryTypes
  <2>2. CASE Stop(w) \/ Raise(w) \/ Crash(w)
    BY <1>1, <1>8, <2>2 DEF Stop, Raise, Crash, Down, GiveUp, MemoryTypes
  <2> QED
    BY <1>9, <2>1, <2>2 DEF Process
<1>10. ASSUME Operation(w) PROVE Unserved(w)'
  BY <1>1, <1>8, <1>10 DEF Operation, Initialize, AddApp, AddRelease, SetCurrent, Begin, MemoryTypes
<1>11. ASSUME RefuseRole(w) \/ RefuseRollback(w) \/ WriteTimestamp(w) \/ SkipTimestamp(w) PROVE Unserved(w)'
  BY <1>1, <1>8, <1>11 DEF RefuseRole, RefuseRollback, WriteTimestamp, SkipTimestamp, GiveUp, MemoryTypes
<1>12. Unserved(w)'
  BY <1>3, <1>4, <1>6, <1>7, <1>9, <1>10, <1>11 DEF Write
<1> QED
  BY <1>2, <1>12 DEF ResultsWait

LEMMA SerialInvInit == Lock = "process" /\ Init => SerialInv
<1> SUFFICES ASSUME Lock = "process", Init PROVE SerialInv
  OBVIOUS
<1>1. DelegationInv /\ ListingInv
  BY DelegationInvInit, ListingInvInit DEF OneCeremonyUp
<1>2. InStep /\ ListingsContinue /\ SnapshotsAdvance /\ ResultsWait
  BY DEF Init, InStep, ListingsContinue, SnapshotsAdvance, ResultsWait, Unserved, Up
<1> QED
  BY <1>1, <1>2 DEF SerialInv

LEMMA SerialInvNext == SerialInv /\ [Next]_vars => SerialInv'
<1> SUFFICES ASSUME SerialInv, [Next]_vars PROVE SerialInv'
  OBVIOUS
<1>1. DelegationInv' /\ ListingInv' /\ BaseInv' /\ Exclusion'
  BY DelegationInvNext, ListingInvNext DEF SerialInv, ListingInv, BaseInv
<1>2. CASE UNCHANGED vars
  <2>1. InStep'
    BY <1>2 DEF vars, diskVars, memoryVars, SerialInv, InStep, Up, OnDisk
  <2>2. ResultsWait'
    BY <1>2 DEF vars, diskVars, memoryVars, SerialInv, ResultsWait, Unserved,
       OpenRole, OpenSnapshot, Infos
  <2>3. ListingsContinue' /\ SnapshotsAdvance'
    BY <1>2 DEF vars, diskVars, SerialInv, ListingsContinue, SnapshotsAdvance, Continues
  <2> QED
    BY <1>1, <2>1, <2>2, <2>3 DEF SerialInv
<1>3. CASE Next
  <2>1. PICK w \in Writers : Process(w) \/ Operation(w) \/ Write(w)
    BY <1>3 DEF Next
  <2>2. InStep' /\ ResultsWait'
    BY <1>1, <2>1, InStepStays, ResultsWaitOn
  <2>3. ListingsContinue'
    <3>1. CASE UNCHANGED appFile
      BY <3>1 DEF SerialInv, ListingsContinue, Continues
    <3> QED
      BY <2>1, <3>1, FilesUntouched, ListingsContinueOn
  <2>4. SnapshotsAdvance'
    <3>1. CASE UNCHANGED snapshotFile
      BY <3>1 DEF SerialInv, SnapshotsAdvance
    <3> QED
      BY <2>1, <3>1, FilesUntouched, SnapshotsAdvanceOn
  <2> QED
    BY <1>1, <2>2, <2>3, <2>4 DEF SerialInv
<1> QED
  BY <1>2, <1>3

(* A step adds files and keeps those that are there. *)
LEMMA FilesKept ==
    ASSUME SerialInv, [Next]_vars
    PROVE  /\ \A v \in DOMAIN targetsFile :
                 v \in DOMAIN targetsFile' /\ targetsFile'[v] = targetsFile[v]
           /\ \A v \in DOMAIN snapshotFile :
                 v \in DOMAIN snapshotFile' /\ snapshotFile'[v] = snapshotFile[v]
           /\ \A a \in Apps : \A v \in DOMAIN appFile[a] :
                 v \in DOMAIN appFile'[a] /\ appFile'[a][v] = appFile[a][v]
<1>1. CASE UNCHANGED vars
  BY <1>1 DEF vars, diskVars
<1>2. CASE Next
  <2>1. PICK w \in Writers : Process(w) \/ Operation(w) \/ Write(w)
    BY <1>2 DEF Next
  <2>2. \A v \in DOMAIN targetsFile : v \in DOMAIN targetsFile' /\ targetsFile'[v] = targetsFile[v]
    <3>1. CASE WriteTargets(w)
      <4>1. /\ DOMAIN targetsFile = 1..Len(targetsFile)
            /\ DOMAIN targetsFile' = 1..(Len(targetsFile) + 1) /\ Len(targetsFile) \in Nat
        BY <3>1, TargetsAppended DEF SerialInv
      <4>2. \A i \in 1..Len(targetsFile) : targetsFile'[i] = targetsFile[i]
        BY <3>1, TargetsAppended DEF SerialInv
      <4> QED
        BY <4>1, <4>2
    <3>2. CASE UNCHANGED targetsFile
      BY <3>2
    <3> QED
      BY <2>1, <3>1, <3>2, FilesUntouched
  <2>3. \A v \in DOMAIN snapshotFile : v \in DOMAIN snapshotFile' /\ snapshotFile'[v] = snapshotFile[v]
    <3>1. CASE WriteSnapshot(w)
      <4>1. /\ DOMAIN snapshotFile = 1..Len(snapshotFile)
            /\ DOMAIN snapshotFile' = 1..(Len(snapshotFile) + 1) /\ Len(snapshotFile) \in Nat
        BY <3>1, SnapshotAppended
      <4>2. \A i \in 1..Len(snapshotFile) : snapshotFile'[i] = snapshotFile[i]
        BY <3>1, SnapshotAppended
      <4> QED
        BY <4>1, <4>2
    <3>2. CASE UNCHANGED snapshotFile
      BY <3>2
    <3> QED
      BY <2>1, <3>1, <3>2, FilesUntouched
  <2>4. ASSUME NEW b \in Apps, NEW v \in DOMAIN appFile[b]
        PROVE  v \in DOMAIN appFile'[b] /\ appFile'[b][v] = appFile[b][v]
    <3>1. CASE WriteRole(w)
      <4>1. PICK a : a = job[w].app
        OBVIOUS
      <4>2. /\ DOMAIN appFile[a] = 1..Len(appFile[a]) /\ DOMAIN appFile'[a] = 1..(Len(appFile[a]) + 1)
            /\ Len(appFile[a]) \in Nat
        BY <3>1, <4>1, RoleAppended
      <4>3. \A i \in 1..Len(appFile[a]) : appFile'[a][i] = appFile[a][i]
        BY <3>1, <4>1, RoleAppended
      <4>4. \A c \in Apps \ {a} : appFile'[c] = appFile[c]
        BY <3>1, <4>1, RoleAppended
      <4>5. CASE b = a
        BY <4>2, <4>3, <4>5
      <4>6. CASE b # a
        BY <4>4, <4>6
      <4> QED
        BY <4>5, <4>6
    <3>2. CASE UNCHANGED appFile
      BY <3>2
    <3> QED
      BY <2>1, <3>1, <3>2, FilesUntouched
  <2> QED
    BY <2>2, <2>3, <2>4
<1> QED
  BY <1>1, <1>2

(* What the edge may cache for a year does not change (edge.conf, "version-numbered
   and therefore immutable once published"), if the writers are one process at a
   time; crashes and failed writes do not matter. *)
THEOREM NumberedFilesAreImmutable == Lock = "process" /\ Spec => FilesAreImmutable
<1>1. SerialInv /\ [Next]_vars =>
        [/\ \A v \in DOMAIN targetsFile : targetsFile'[v] = targetsFile[v]
         /\ \A v \in DOMAIN snapshotFile : snapshotFile'[v] = snapshotFile[v]
         /\ \A a \in Apps : \A v \in DOMAIN appFile[a] : appFile'[a][v] = appFile[a][v]]_vars
  BY FilesKept
<1> QED
  BY <1>1, SerialInvInit, SerialInvNext, PTL DEF Spec, FilesAreImmutable

LEMMA TimestampWritten ==
    ASSUME SerialInv, NEW w \in Writers, WriteTimestamp(w)
    PROVE  /\ timestampFile'.version = timestampFile.version + 1
           /\ timestampFile'.snapshot = Len(snapshotFile)
           /\ timestampFile.version \in Nat /\ timestampFile.snapshot \in Nat
           /\ Len(snapshotFile) \in Nat /\ Len(snapshotFile) > 0
           /\ Served => Len(snapshotFile) > timestampFile.snapshot
           /\ UNCHANGED <<targetsFile, snapshotFile, appFile>>
<1>1. BaseInv /\ MemoryTypes /\ DiskTypes /\ DiskNumbers /\ InStep /\ JobFits(w)
  BY TypeParts, NumbersOnDisk DEF SerialInv, ListingInv, BaseInv, Jobs
<1>2. "snapshot" \in Roles /\ "timestamp" \in Roles /\ Up(w) /\ pc[w] = "timestamp"
  BY DEF Roles, TopLevel, WriteTimestamp, Up
<1>3. known[w]["snapshot"] = Len(snapshotFile) /\ known[w]["timestamp"] = timestampFile.version
  BY <1>1, <1>2 DEF InStep, DiskNumbers
<1>4. timestampFile.version \in Nat /\ timestampFile.snapshot \in Nat /\ Len(snapshotFile) \in Nat
  BY <1>1 DEF DiskTypes
<1>5. Len(snapshotFile) > 0
  BY <1>1, <1>2, <1>3 DEF JobFits
<1>6. timestampFile' = [version |-> timestampFile.version + 1, snapshot |-> Len(snapshotFile)]
  BY <1>3 DEF WriteTimestamp, SnapshotInfo
<1>7. Served => Len(snapshotFile) > timestampFile.snapshot
  BY <1>3, <1>4 DEF WriteTimestamp, TimestampDue, SnapshotInfo, OpenTimestamp, Served
<1>8. UNCHANGED <<targetsFile, snapshotFile, appFile>>
  BY DEF WriteTimestamp
<1> QED
  BY <1>4, <1>5, <1>6, <1>7, <1>8

(* timestamp.json moves on by its own version and never goes back to an older
   snapshot (do_timestamp), which clients would refuse. *)
THEOREM TimestampAlwaysAdvances == Lock = "process" /\ Spec => TimestampAdvances
<1>1. SerialInv /\ [Next]_vars =>
        [timestampFile' # timestampFile =>
           /\ timestampFile'.version > timestampFile.version
           /\ Served => timestampFile'.snapshot > timestampFile.snapshot]_vars
  <2> SUFFICES ASSUME SerialInv, Next, timestampFile' # timestampFile
               PROVE  /\ timestampFile'.version > timestampFile.version
                      /\ Served => timestampFile'.snapshot > timestampFile.snapshot
    OBVIOUS
  <2>1. PICK w \in Writers : Process(w) \/ Operation(w) \/ Write(w)
    BY DEF Next
  <2>2. WriteTimestamp(w)
    BY <2>1, FilesUntouched
  <2> QED
    BY <2>2, TimestampWritten
<1> QED
  BY <1>1, SerialInvInit, SerialInvNext, PTL DEF Spec, TimestampAdvances

(* Once its snapshot is written, what an operation edited is in the newest files. *)
LEMMA ReadyToReport ==
    ASSUME SerialInv, NEW w \in Writers, pc[w] = "timestamp", NEW a \in Apps, job[w].app = a
    PROVE  /\ Len(snapshotFile) \in DOMAIN snapshotFile
           /\ a \in Delegated(targetsFile[snapshotFile[Len(snapshotFile)]["targets"]])
           /\ snapshotFile[Len(snapshotFile)][a] = Len(appFile[a])
           /\ Len(appFile[a]) > 0
           /\ job[w].op = "add_release" => job[w].release \in appFile[a][Len(appFile[a])].releases
           /\ job[w].op = "set_current" => job[w].release = appFile[a][Len(appFile[a])].pointer
<1>1. BaseInv /\ DiskTypes /\ DiskNumbers /\ InStep /\ JobFits(w) /\ Unserved(w) /\ Remembers
  BY TypeParts, NumbersOnDisk DEF SerialInv, DelegationInv, ListingInv, BaseInv, Jobs, ResultsWait
<1>2. "snapshot" \in Roles /\ "targets" \in Roles /\ a \in Roles /\ Up(w)
      /\ a \in Named /\ "targets" \in Named
  BY DEF Roles, TopLevel, Up, Named
<1>3. /\ known[w]["snapshot"] = Len(snapshotFile) /\ known[w]["targets"] = Len(targetsFile)
      /\ known[w][a] = Len(appFile[a])
  BY <1>1, <1>2 DEF InStep, DiskNumbers
<1>4. a \in appRoles[w] /\ known[w][a] > 0 /\ known[w]["targets"] > 0 /\ known[w]["snapshot"] > 0
  BY <1>1 DEF JobFits, Initializes, Edits
<1>5. Len(snapshotFile) \in Nat /\ Len(targetsFile) \in Nat /\ Len(appFile[a]) \in Nat
      /\ DOMAIN snapshotFile = 1..Len(snapshotFile)
  BY <1>1 DEF DiskTypes
<1>6. OpenSnapshot(w) = snapshotFile[Len(snapshotFile)] /\ Len(snapshotFile) \in DOMAIN snapshotFile
  BY <1>3, <1>4, <1>5 DEF OpenSnapshot
<1>7. Infos(w)[a] = Len(appFile[a]) /\ Infos(w)["targets"] = Len(targetsFile)
  BY <1>2, <1>3, <1>4 DEF Infos
<1>8. snapshotFile[Len(snapshotFile)][a] = Len(appFile[a])
      /\ snapshotFile[Len(snapshotFile)]["targets"] = Len(targetsFile)
  BY <1>1, <1>2, <1>3, <1>4, <1>5, <1>6, <1>7 DEF Unserved
<1>9. a \in Delegated(targetsFile[Len(targetsFile)])
  BY <1>1, <1>3, <1>4, <1>5 DEF Remembers, OpenTargets
<1>10. OpenRole(w, a) = appFile[a][Len(appFile[a])]
  BY <1>3, <1>4, <1>5 DEF OpenRole
<1> QED
  BY <1>1, <1>3, <1>4, <1>5, <1>6, <1>8, <1>9, <1>10 DEF Unserved

LEMMA TimestampNamesNewest ==
    ASSUME SerialInv, NEW w \in Writers, WriteTimestamp(w) \/ SkipTimestamp(w)
    PROVE  /\ timestampFile'.version > 0 /\ timestampFile'.snapshot = Len(snapshotFile)
           /\ UNCHANGED <<targetsFile, snapshotFile, appFile>> /\ pc[w] = "timestamp"
<1>1. CASE WriteTimestamp(w)
  BY <1>1, TimestampWritten DEF WriteTimestamp
<1>2. CASE SkipTimestamp(w)
  <2>1. DiskTypes /\ DiskNumbers /\ InStep
    BY TypeParts, NumbersOnDisk DEF SerialInv, ListingInv, BaseInv
  <2>2. "snapshot" \in Roles /\ "timestamp" \in Roles /\ Up(w) /\ pc[w] = "timestamp"
    BY <1>2 DEF Roles, TopLevel, SkipTimestamp, Up
  <2>3. known[w]["snapshot"] = Len(snapshotFile) /\ known[w]["timestamp"] = timestampFile.version
    BY <2>1, <2>2 DEF InStep, DiskNumbers
  <2>4. UNCHANGED <<targetsFile, snapshotFile, appFile, timestampFile>>
    BY <1>2 DEF SkipTimestamp, diskVars
  <2>5. timestampFile.version \in Nat /\ timestampFile.version # 0
        /\ timestampFile.snapshot = Len(snapshotFile)
    BY <1>2, <2>1, <2>3 DEF SkipTimestamp, TimestampDue, OpenTimestamp, DiskTypes
  <2> QED
    BY <2>2, <2>4, <2>5
<1> QED
  BY <1>1, <1>2

(* An operation that returns has put its result where clients look (publish), if
   the writers are one process at a time: whatever earlier operations left half
   done, by a crash or a failed write. *)
THEOREM ReportsAreServed == Lock = "process" /\ Spec => ReportedIsPublished
<1>1. ASSUME SerialInv, NEW w \in Writers, NEW a \in Apps, job[w].app = a,
             WriteTimestamp(w) \/ SkipTimestamp(w)
      PROVE  /\ a \in listed'
             /\ snapshotFile[timestampFile'.snapshot][a] = Len(appFile[a])
             /\ job[w].op = "add_release" => job[w].release \in View(a)'.releases
             /\ job[w].op = "set_current" => job[w].release = View(a)'.pointer
  <2>1. /\ timestampFile'.version > 0 /\ timestampFile'.snapshot = Len(snapshotFile)
        /\ UNCHANGED <<targetsFile, snapshotFile, appFile>> /\ pc[w] = "timestamp"
    BY <1>1, TimestampNamesNewest
  <2>2. /\ a \in Delegated(targetsFile[snapshotFile[Len(snapshotFile)]["targets"]])
        /\ snapshotFile[Len(snapshotFile)][a] = Len(appFile[a])
        /\ Len(appFile[a]) > 0
    BY <1>1, <2>1, ReadyToReport
  <2>3. /\ job[w].op = "add_release" => job[w].release \in appFile[a][Len(appFile[a])].releases
        /\ job[w].op = "set_current" => job[w].release = appFile[a][Len(appFile[a])].pointer
    BY <1>1, <2>1, ReadyToReport
  <2>4. a \in listed'
    BY <2>1, <2>2 DEF listed, Served, Delegated
  <2>5. View(a)' = appFile[a][Len(appFile[a])]
    BY <2>1, <2>2, <2>4 DEF View
  <2> QED
    BY <2>1, <2>2, <2>3, <2>4, <2>5
<1>2. SerialInv /\ [Next]_vars =>
        [\A w \in Writers, a \in Apps :
           job[w].app = a /\ (WriteTimestamp(w) \/ SkipTimestamp(w)) =>
             /\ a \in listed'
             /\ snapshotFile[timestampFile'.snapshot][a] = Len(appFile[a])
             /\ job[w].op = "add_release" => job[w].release \in View(a)'.releases
             /\ job[w].op = "set_current" => job[w].release = View(a)'.pointer]_vars
  BY <1>1
<1> QED
  BY <1>2, SerialInvInit, SerialInvNext, PTL DEF Spec, ReportedIsPublished

-----------------------------------------------------------------------------
(* The catalogue *)

(* The entries that clients see are listings, and only listed applications have
   one. *)
Entries ==
    /\ listed \in SUBSET Apps
    /\ \A a \in Apps :
          /\ View(a) \in Listing
          /\ View(a).pointer \in View(a).releases \cup {0}
          /\ View(a) # EmptyListing => a \in listed

(* Where an entry comes from. *)
LEMMA Viewed ==
    ASSUME SerialInv, Served, NEW s, s = timestampFile.snapshot
    PROVE  /\ s \in DOMAIN snapshotFile
           /\ snapshotFile[s]["targets"] \in DOMAIN targetsFile
           /\ \A a \in Apps : snapshotFile[s][a] > 0 => snapshotFile[s][a] \in DOMAIN appFile[a]
           /\ listed = Delegated(targetsFile[snapshotFile[s]["targets"]])
           /\ \A a \in Apps : View(a) = IF a \in listed /\ snapshotFile[s][a] > 0
                                        THEN appFile[a][snapshotFile[s][a]] ELSE EmptyListing
<1>1. ReferencesResolve
  BY DelegationsResolve DEF SerialInv
<1>2. s \in DOMAIN snapshotFile /\ snapshotFile[s]["targets"] \in DOMAIN targetsFile
  BY <1>1 DEF ReferencesResolve
<1>3. \A a \in Apps : snapshotFile[s][a] > 0 => snapshotFile[s][a] \in DOMAIN appFile[a]
  BY <1>1, <1>2 DEF ReferencesResolve
<1> QED
  BY <1>2, <1>3 DEF listed, View

LEMMA EntriesHold == SerialInv => Entries
<1> SUFFICES ASSUME SerialInv PROVE Entries
  OBVIOUS
<1>1. DiskTypes /\ PointerIsServed
  BY TypeParts DEF SerialInv, ListingInv, BaseInv
<1>2. EmptyListing \in Listing /\ EmptyListing.pointer = 0
  BY DEF EmptyListing, Listing
<1>3. CASE ~Served
  <2>1. listed = {} /\ \A a \in Apps : View(a) = EmptyListing
    BY <1>3 DEF listed, View
  <2> QED
    BY <1>2, <2>1 DEF Entries
<1>4. CASE Served
  <2>1. PICK s : s = timestampFile.snapshot
    OBVIOUS
  <2>2. snapshotFile[s]["targets"] \in DOMAIN targetsFile
        /\ \A a \in Apps : snapshotFile[s][a] > 0 => snapshotFile[s][a] \in DOMAIN appFile[a]
    BY <1>4, <2>1, Viewed
  <2>3. listed = Delegated(targetsFile[snapshotFile[s]["targets"]])
        /\ \A a \in Apps : View(a) = IF a \in listed /\ snapshotFile[s][a] > 0
                                     THEN appFile[a][snapshotFile[s][a]] ELSE EmptyListing
    BY <1>4, <2>1, Viewed
  <2>4. listed \in SUBSET Apps
    <3>1. targetsFile[snapshotFile[s]["targets"]] \in Seq(Apps)
      BY <1>1, <2>2 DEF DiskTypes
    <3> QED
      BY <2>3, <3>1, DelegatedTypes
  <2>5. ASSUME NEW a \in Apps, a \in listed, snapshotFile[s][a] > 0
        PROVE  View(a) \in Listing /\ View(a).pointer \in View(a).releases \cup {0}
    <3>1. PICK v : v = snapshotFile[s][a]
      OBVIOUS
    <3>2. v \in DOMAIN appFile[a] /\ View(a) = appFile[a][v]
      BY <2>2, <2>3, <2>5, <3>1
    <3>3. appFile[a][v] \in Listing
      BY <1>1, <3>2 DEF DiskTypes
    <3>4. appFile[a][v].pointer \in appFile[a][v].releases \cup {0}
      BY <1>1, <3>2 DEF PointerIsServed
    <3> QED
      BY <3>2, <3>3, <3>4
  <2> QED
    BY <1>2, <2>3, <2>4, <2>5 DEF Entries
<1> QED
  BY <1>3, <1>4

LEMMA TimestampKept ==
    ASSUME SerialInv, [Next]_vars, Served
    PROVE  /\ Served'
           /\ timestampFile.snapshot \in Nat /\ timestampFile'.snapshot \in Nat
           /\ timestampFile.snapshot <= timestampFile'.snapshot
<1>1. timestampFile.version \in Nat /\ timestampFile.snapshot \in Nat
  BY TypeParts DEF SerialInv, ListingInv, BaseInv, DiskTypes
<1>2. CASE UNCHANGED timestampFile
  BY <1>1, <1>2 DEF Served
<1>3. CASE timestampFile' # timestampFile
  <2>1. Next
    BY <1>3 DEF vars, diskVars
  <2>2. PICK w \in Writers : Process(w) \/ Operation(w) \/ Write(w)
    BY <2>1 DEF Next
  <2>3. WriteTimestamp(w)
    BY <1>3, <2>2, FilesUntouched
  <2> QED
    BY <1>1, <2>3, TimestampWritten DEF Served
<1> QED
  BY <1>2, <1>3

(* The next state of the lemmas above. *)
LEMMA EntriesNext == SerialInv' => Entries'
  BY EntriesHold, PTL

LEMMA DiskTypedNext == SerialInv' => DiskTypes'
<1>1. SerialInv => DiskTypes
  BY TypeParts DEF SerialInv, ListingInv, BaseInv
<1> QED
  BY <1>1, PTL

LEMMA ResolvedNext == SerialInv' => ReferencesResolve'
<1>1. SerialInv => ReferencesResolve
  BY DelegationsResolve DEF SerialInv
<1> QED
  BY <1>1, PTL

LEMMA ViewedNext ==
    ASSUME SerialInv', Served', NEW s, s = timestampFile'.snapshot
    PROVE  /\ s \in DOMAIN snapshotFile'
           /\ snapshotFile'[s]["targets"] \in DOMAIN targetsFile'
           /\ \A a \in Apps : snapshotFile'[s][a] > 0 => snapshotFile'[s][a] \in DOMAIN appFile'[a]
           /\ listed' = Delegated(targetsFile'[snapshotFile'[s]["targets"]])
           /\ \A a \in Apps : View(a)' = IF a \in listed' /\ snapshotFile'[s][a] > 0
                                         THEN appFile'[a][snapshotFile'[s][a]] ELSE EmptyListing
<1>1. ReferencesResolve'
  BY ResolvedNext
<1>2. s \in DOMAIN snapshotFile' /\ snapshotFile'[s]["targets"] \in DOMAIN targetsFile'
  BY <1>1 DEF ReferencesResolve
<1>3. \A a \in Apps : snapshotFile'[s][a] > 0 => snapshotFile'[s][a] \in DOMAIN appFile'[a]
  BY <1>1, <1>2 DEF ReferencesResolve
<1> QED
  BY <1>2, <1>3 DEF listed, View, Delegated

(* A step takes each entry to one that follows it. *)
LEMMA EntriesFollow ==
    ASSUME SerialInv, SerialInv', [Next]_vars
    PROVE  /\ listed \subseteq listed'
           /\ \A a \in Apps : Continues(View(a)', View(a))
<1>1. Entries /\ Entries'
  BY EntriesHold, EntriesNext
<1>2. ASSUME NEW a \in Apps, View(a) = EmptyListing
      PROVE  Continues(View(a)', View(a))
  <2>1. View(a)'.pointer \in View(a)'.releases \cup {0}
    BY <1>1 DEF Entries
  <2> QED
    BY <1>2, <2>1 DEF Continues, EmptyListing
<1>3. CASE ~Served
  <2>1. listed = {} /\ \A a \in Apps : View(a) = EmptyListing
    BY <1>3 DEF listed, View
  <2> QED
    BY <1>2, <2>1
<1>4. CASE Served
  <2>1. PICK s : s = timestampFile.snapshot
    OBVIOUS
  <2>2. PICK z : z = timestampFile'.snapshot
    OBVIOUS
  <2>3. Served' /\ s \in Nat /\ z \in Nat /\ s <= z
    BY <1>4, <2>1, <2>2, TimestampKept
  <2>4. /\ s \in DOMAIN snapshotFile /\ snapshotFile[s]["targets"] \in DOMAIN targetsFile
        /\ \A a \in Apps : snapshotFile[s][a] > 0 => snapshotFile[s][a] \in DOMAIN appFile[a]
    BY <1>4, <2>1, Viewed
  <2>5. /\ listed = Delegated(targetsFile[snapshotFile[s]["targets"]])
        /\ \A a \in Apps : View(a) = IF a \in listed /\ snapshotFile[s][a] > 0
                                     THEN appFile[a][snapshotFile[s][a]] ELSE EmptyListing
    BY <1>4, <2>1, Viewed
  <2>6. /\ z \in DOMAIN snapshotFile' /\ snapshotFile'[z]["targets"] \in DOMAIN targetsFile'
        /\ \A a \in Apps : snapshotFile'[z][a] > 0 => snapshotFile'[z][a] \in DOMAIN appFile'[a]
    BY <2>2, <2>3, ViewedNext
  <2>7. /\ listed' = Delegated(targetsFile'[snapshotFile'[z]["targets"]])
        /\ \A a \in Apps : View(a)' = IF a \in listed' /\ snapshotFile'[z][a] > 0
                                      THEN appFile'[a][snapshotFile'[z][a]] ELSE EmptyListing
    BY <2>2, <2>3, ViewedNext
  <2>8. s \in DOMAIN snapshotFile' /\ snapshotFile'[s] = snapshotFile[s]
    BY <2>4, FilesKept
  <2>9. \A r \in Named : snapshotFile[s][r] <= snapshotFile'[z][r]
    BY <2>3, <2>6, <2>8 DEF SerialInv, SnapshotsAdvance
  <2>10. listed \subseteq listed'
    <3>1. PICK i : i = snapshotFile[s]["targets"]
      OBVIOUS
    <3>2. PICK j : j = snapshotFile'[z]["targets"]
      OBVIOUS
    <3>3. i \in DOMAIN targetsFile' /\ targetsFile'[i] = targetsFile[i]
      BY <2>4, <3>1, FilesKept
    <3>4. i <= j /\ j \in DOMAIN targetsFile'
      BY <2>6, <2>9, <3>1, <3>2 DEF Named
    <3>5. Delegated(targetsFile'[i]) \subseteq Delegated(targetsFile'[j])
      <4>1. \A k, l \in DOMAIN targetsFile' :
               k <= l => Delegated(targetsFile'[k]) \subseteq Delegated(targetsFile'[l])
        BY DEF SerialInv, DelegationInv, TargetsGrow, Delegated
      <4> QED
        BY <3>3, <3>4, <4>1
    <3> QED
      BY <2>5, <2>7, <3>1, <3>2, <3>3, <3>5
  <2>11. ASSUME NEW a \in Apps PROVE Continues(View(a)', View(a))
    <3>1. CASE View(a) = EmptyListing
      BY <1>2, <3>1
    <3>2. CASE a \in listed /\ snapshotFile[s][a] > 0
      <4>1. PICK i : i = snapshotFile[s][a]
        OBVIOUS
      <4>2. PICK j : j = snapshotFile'[z][a]
        OBVIOUS
      <4>3. i \in DOMAIN appFile[a] /\ i \in DOMAIN appFile'[a] /\ appFile'[a][i] = appFile[a][i]
        BY <2>4, <3>2, <4>1, FilesKept
      <4>4. i \in Nat /\ j \in Nat /\ i <= j /\ i > 0
        <5>1. i <= j /\ i > 0
          BY <2>9, <3>2, <4>1, <4>2 DEF Named
        <5>2. DiskTypes /\ DiskTypes' /\ a \in Named
          <6>1. DiskTypes /\ a \in Named
            BY TypeParts DEF SerialInv, ListingInv, BaseInv, Named
          <6>2. DiskTypes'
            BY DiskTypedNext
          <6> QED
            BY <6>1, <6>2
        <5>3. snapshotFile[s] \in [Named -> 0..MaxVersion]
          BY <2>4, <5>2 DEF DiskTypes
        <5>4. snapshotFile'[z] \in [Named -> 0..MaxVersion]
          BY <2>6, <5>2 DEF DiskTypes
        <5>5. i \in 0..MaxVersion /\ j \in 0..MaxVersion
          BY <4>1, <4>2, <5>2, <5>3, <5>4
        <5> QED
          BY <5>1, <5>5
      <4>5. j \in DOMAIN appFile'[a] /\ j > 0
        BY <2>6, <4>2, <4>4
      <4>6. Continues(appFile'[a][j], appFile'[a][i])
        <5>1. \A k, l \in DOMAIN appFile'[a] : k <= l => Continues(appFile'[a][l], appFile'[a][k])
          BY DEF SerialInv, ListingsContinue, Continues
        <5> QED
          BY <4>3, <4>4, <4>5, <5>1
      <4>7. View(a) = appFile[a][i] /\ View(a)' = appFile'[a][j]
        BY <2>5, <2>7, <2>10, <3>2, <4>1, <4>2, <4>5
      <4>8. Continues(View(a)', View(a)) <=> Continues(appFile'[a][j], appFile'[a][i])
        BY <4>3, <4>7 DEF Continues
      <4> QED
        BY <4>6, <4>8
    <3> QED
      BY <2>5, <3>1, <3>2
  <2> QED
    BY <2>10, <2>11
<1> QED
  BY <1>3, <1>4

(* Every step is a step of the catalogue, or one that it does not see. *)
LEMMA StepsPublish ==
    SerialInv /\ SerialInv' /\ [Next]_vars =>
        [Published!Publish]_<<listed, [a \in Apps |-> View(a)]>>
<1> SUFFICES ASSUME SerialInv, SerialInv', [Next]_vars PROVE Published!Publish
  OBVIOUS
<1>1. Entries'
  BY EntriesNext
<1>2. listed' \in {l \in SUBSET Apps : listed \subseteq l}
  BY <1>1, EntriesFollow DEF Entries
<1>3. [a \in Apps |-> View(a)]' \in [Apps -> Published!Entry]
  BY <1>1 DEF Entries, Listing, Releases, Published!Entry
<1>4. \A a \in Apps : Published!Follows([b \in Apps |-> View(b)]'[a], [b \in Apps |-> View(b)][a])
  BY EntriesFollow DEF Continues, Published!Follows
<1>5. \A a \in Apps : [b \in Apps |-> View(b)]'[a] # Published!Nothing => a \in listed'
  BY <1>1 DEF Entries, EmptyListing, Published!Nothing
<1> QED
  BY <1>2, <1>3, <1>4, <1>5 DEF Published!Publish

(* The files, the order in which publish writes them and the crashes between two of
   them implement a catalogue that is switched in one step, from which nothing is
   withdrawn, if the writers are one process at a time. *)
THEOREM RepositoryPublishesAtomically == Lock = "process" /\ Spec => PublishesAtomically
<1>1. Init => Published!Init
  BY DEF Init, Served, listed, View, EmptyListing, Published!Init, Published!Nothing
<1> QED
  BY <1>1, StepsPublish, SerialInvInit, SerialInvNext, PTL
     DEF Spec, PublishesAtomically, Published!Spec

-----------------------------------------------------------------------------
(* Checks, beside the publications *)

Checking == stage # "idle"

CheckInv == BaseInv /\ ClientTypeOK /\ (Checking => channel \in Apps)

LEMMA ViewTyped ==
    ASSUME BaseInv, NEW a \in Apps
    PROVE  View(a) \in Listing
<1>1. DiskTypes /\ EmptyListing \in Listing
  BY TypeParts DEF BaseInv, EmptyListing, Listing
<1>2. ASSUME Served, NEW s, s = timestampFile.snapshot, snapshotFile[s][a] > 0
      PROVE  appFile[a][snapshotFile[s][a]] \in Listing
  <2>1. s \in DOMAIN snapshotFile
    BY <1>2 DEF BaseInv, FilesExist
  <2>2. snapshotFile[s][a] \in 0..MaxVersion /\ snapshotFile[s][a] <= Len(appFile[a])
    BY <1>1, <2>1 DEF BaseInv, FilesExist, DiskTypes, Named
  <2>3. appFile[a] \in Seq(Listing)
    BY <1>1 DEF DiskTypes
  <2>4. snapshotFile[s][a] \in 1..Len(appFile[a])
    BY <1>2, <2>2, <2>3
  <2> QED
    BY <2>3, <2>4
<1> QED
  BY <1>1, <1>2 DEF View, listed

(* The types that a fetch keeps. *)
ClientTypes ==
    /\ stage \in Stage /\ channel \in Apps \cup {"none"} /\ trusted \in Database
    /\ outcome \in Outcome /\ promised \in [served: BOOLEAN, entry: Listing]
    /\ stage = "idle" => trusted = Bootstrapped
    /\ Checking => channel \in Apps

LEMMA CheckParts == CheckInv <=> BaseInv /\ ClientTypes
  BY DEF CheckInv, ClientTypeOK, ClientTypes, BaseInv

LEMMA BootstrappedTyped == Bootstrapped \in Database /\ EmptyListing \in Listing
<1>1. EmptyListing \in Listing
  BY DEF EmptyListing, Listing
<1>2. [r \in Named |-> 0] \in [Named -> 0..MaxVersion] /\ <<>> \in Seq(Apps) /\ 0 \in 0..MaxVersion
  OBVIOUS
<1> QED
  BY <1>1, <1>2 DEF Bootstrapped, Database

LEMMA AnswerTyped ==
    ASSUME ClientTypes, NEW a \in {"offered", "nothing", "failed"}, NEW n \in 0..MaxRelease, Answer(a, n)
    PROVE  ClientTypes'
<1>1. outcome' \in Outcome
  BY DEF Answer, Outcome
<1>2. stage' = "idle" /\ trusted' = Bootstrapped /\ UNCHANGED <<channel, promised>>
  BY DEF Answer
<1> QED
  BY <1>1, <1>2, BootstrappedTyped DEF ClientTypes, Checking, Stage

LEMMA AcceptTyped ==
    ASSUME ClientTypes, Checking, NEW next \in Stage \ {"idle"}, NEW database \in Database,
           trusted' = database, stage' = next, UNCHANGED <<channel, outcome, promised>>
    PROVE  ClientTypes'
  BY DEF ClientTypes, Checking

(* What each update of the database reads has its type. *)
LEMMA UpdatesTyped ==
    ASSUME BaseInv, ClientTypes
    PROVE  /\ UpdateTimestamp \in Database
           /\ \A v \in DOMAIN snapshotFile : UpdateSnapshot(v) \in Database
           /\ \A v \in DOMAIN targetsFile : UpdateTargets(v) \in Database
           /\ Checking => \A v \in DOMAIN appFile[channel] : UpdateDelegatedTargets(v) \in Database
<1>1. DiskTypes /\ Bootstrapped \in Database /\ trusted \in Database
  BY TypeParts, BootstrappedTyped DEF BaseInv, ClientTypes
<1>2. timestampFile.snapshot \in 0..MaxVersion
  BY <1>1 DEF DiskTypes
<1>3. UpdateTimestamp \in Database
  BY <1>1, <1>2 DEF UpdateTimestamp, Database
<1>4. ASSUME NEW v \in DOMAIN snapshotFile PROVE UpdateSnapshot(v) \in Database
  <2>1. snapshotFile[v] \in [Named -> 0..MaxVersion]
    BY <1>1 DEF DiskTypes
  <2> QED
    BY <1>1, <2>1 DEF UpdateSnapshot, Database
<1>5. ASSUME NEW v \in DOMAIN targetsFile PROVE UpdateTargets(v) \in Database
  <2>1. targetsFile[v] \in Seq(Apps)
    BY <1>1 DEF DiskTypes
  <2> QED
    BY <1>1, <2>1 DEF UpdateTargets, Database
<1>6. ASSUME Checking, NEW v \in DOMAIN appFile[channel] PROVE UpdateDelegatedTargets(v) \in Database
  <2>1. appFile[channel][v] \in Listing
    BY <1>1, <1>6 DEF DiskTypes, ClientTypes
  <2> QED
    BY <1>1, <2>1 DEF UpdateDelegatedTargets, Database
<1> QED
  BY <1>3, <1>4, <1>5, <1>6

LEMMA ChecksAreTyped ==
    ASSUME BaseInv, ClientTypes, Check
    PROVE  ClientTypes'
<1>1. CASE \E a \in Apps : FetchTimestamp(a)
  <2>1. PICK a \in Apps : FetchTimestamp(a)
    BY <1>1
  <2>2. promised' \in [served: BOOLEAN, entry: Listing]
    BY <2>1, ViewTyped DEF FetchTimestamp, Served
  <2>3. channel' = a /\ stage = "idle"
    BY <2>1 DEF FetchTimestamp
  <2>4. CASE Served
    BY <2>1, <2>2, <2>3, <2>4, UpdatesTyped DEF FetchTimestamp, ClientTypes, Stage, Outcome, Unanswered, Checking
  <2>5. CASE ~Served
    BY <2>1, <2>2, <2>3, <2>5 DEF FetchTimestamp, ClientTypes, Outcome, Checking
  <2> QED
    BY <2>4, <2>5
<1>2. CASE FetchSnapshot
  <2>1. Checking /\ "targets" \in Stage \ {"idle"}
    BY <1>2 DEF FetchSnapshot, Checking, Stage
  <2>2. PICK v : v = SnapshotVersion
    OBVIOUS
  <2>3. Accept(v \in DOMAIN snapshotFile, "targets", UpdateSnapshot(v))
    BY <1>2, <2>2 DEF FetchSnapshot
  <2>4. v \in DOMAIN snapshotFile => UpdateSnapshot(v) \in Database
    BY UpdatesTyped
  <2>5. CASE v \in DOMAIN snapshotFile
    BY <2>1, <2>3, <2>4, <2>5, AcceptTyped DEF Accept
  <2>6. CASE ~(v \in DOMAIN snapshotFile)
    <3>1. Answer("failed", 0)
      BY <2>3, <2>6 DEF Accept
    <3> QED
      BY <3>1, AnswerTyped
  <2> QED
    BY <2>5, <2>6
<1>3. CASE FetchTargets
  <2>1. Checking /\ "role" \in Stage \ {"idle"}
    BY <1>3 DEF FetchTargets, Checking, Stage
  <2>2. PICK v : v = TargetsVersion("targets")
    OBVIOUS
  <2>3. Accept(v \in DOMAIN targetsFile, "role", UpdateTargets(v))
    BY <1>3, <2>2 DEF FetchTargets
  <2>4. v \in DOMAIN targetsFile => UpdateTargets(v) \in Database
    BY UpdatesTyped
  <2>5. CASE v \in DOMAIN targetsFile
    BY <2>1, <2>3, <2>4, <2>5, AcceptTyped DEF Accept
  <2>6. CASE ~(v \in DOMAIN targetsFile)
    <3>1. Answer("failed", 0)
      BY <2>3, <2>6 DEF Accept
    <3> QED
      BY <3>1, AnswerTyped
  <2> QED
    BY <2>5, <2>6
<1>4. CASE FetchRole
  <2>1. Checking /\ "pointer" \in Stage \ {"idle"}
    BY <1>4 DEF FetchRole, Checking, Stage
  <2>2. PICK v : v = TargetsVersion(channel)
    OBVIOUS
  <2>3. Accept(v \in DOMAIN appFile[channel] /\ Authorized, "pointer", UpdateDelegatedTargets(v))
    BY <1>4, <2>2 DEF FetchRole
  <2>4. v \in DOMAIN appFile[channel] /\ Authorized => UpdateDelegatedTargets(v) \in Database
    BY <2>1, UpdatesTyped
  <2>5. CASE v \in DOMAIN appFile[channel] /\ Authorized
    BY <2>1, <2>3, <2>4, <2>5, AcceptTyped DEF Accept
  <2>6. CASE ~(v \in DOMAIN appFile[channel] /\ Authorized)
    <3>1. Answer("failed", 0)
      BY <2>3, <2>6 DEF Accept
    <3> QED
      BY <3>1, AnswerTyped
  <2> QED
    BY <2>5, <2>6
<1>5. CASE Undescribed
  BY <1>5, AnswerTyped DEF Undescribed
<1>6. CASE NoPointer
  BY <1>6, AnswerTyped DEF NoPointer
<1>7. CASE Resolve
  <2>1. trusted.listing.pointer \in 0..MaxRelease
    BY DEF ClientTypes, Database, Listing
  <2> QED
    BY <1>7, <2>1, AnswerTyped DEF Resolve
<1> QED
  BY <1>1, <1>2, <1>3, <1>4, <1>5, <1>6, <1>7 DEF Check

LEMMA ChecksReadOnly ==
    ASSUME [ClientNext]_<<vars, clientVars>>
    PROVE  /\ [Next]_vars
           /\ UNCHANGED clientVars \/ (Check /\ UNCHANGED vars)
  BY DEF ClientNext, Publication, Check, FetchTimestamp, FetchSnapshot, FetchTargets, Undescribed,
     FetchRole, NoPointer, Resolve, Accept, Answer

LEMMA CheckInvInit == ClientInit => CheckInv
<1> SUFFICES ASSUME ClientInit PROVE CheckInv
  OBVIOUS
<1>1. BaseInv
  BY BaseInvInit DEF ClientInit
<1>2. ClientTypes
  BY BootstrappedTyped DEF ClientInit, ClientTypes, Checking, Stage, Outcome, Unanswered
<1> QED
  BY <1>1, <1>2, CheckParts

LEMMA CheckInvNext == CheckInv /\ [ClientNext]_<<vars, clientVars>> => CheckInv'
<1> SUFFICES ASSUME CheckInv, [ClientNext]_<<vars, clientVars>> PROVE BaseInv' /\ ClientTypes'
  BY DEF CheckInv, ClientTypeOK, ClientTypes, BaseInv
<1>1. BaseInv /\ ClientTypes
  BY CheckParts
<1>2. BaseInv'
  BY <1>1, ChecksReadOnly, BaseInvNext
<1>3. ASSUME UNCHANGED clientVars PROVE ClientTypes'
  BY <1>1, <1>3 DEF clientVars, ClientTypes, Checking
<1>4. ASSUME Check PROVE ClientTypes'
  BY <1>1, <1>4, ChecksAreTyped
<1>5. UNCHANGED clientVars \/ Check
  BY ChecksReadOnly
<1> QED
  BY <1>2, <1>3, <1>4, <1>5

(* A check keeps its types, and trusts nothing between two runs (UpdateCheck.run
   builds a verifier anew), whatever is published meanwhile and whatever the lock. *)
THEOREM ClientTypeCorrect == ClientSpec => []ClientTypeOK
<1>1. CheckInv => ClientTypeOK
  BY DEF CheckInv
<1> QED
  BY <1>1, CheckInvInit, CheckInvNext, PTL DEF ClientSpec

(* A check does not disturb publication: what holds of Repository holds beside it. *)
THEOREM ChecksDisturbNothing == ClientSpec => Spec
<1>1. ClientInit => Init
  BY DEF ClientInit
<1>2. [ClientNext]_<<vars, clientVars>> => [Next]_vars
  BY ChecksReadOnly
<1> QED
  BY <1>1, <1>2, PTL DEF ClientSpec, Spec

(* What is fetched next is there, and will be accepted. *)
NextIsThere ==
    /\ Checking => promised.served
    /\ stage = "snapshot" => trusted.snapshotVersion \in DOMAIN snapshotFile
    /\ stage = "targets" =>
          /\ trusted.meta["targets"] \in DOMAIN targetsFile
          /\ trusted.meta[channel] # 0 =>
                channel \in Delegated(targetsFile[trusted.meta["targets"]])
    /\ stage \in {"targets", "role"} /\ trusted.meta[channel] # 0 =>
          trusted.meta[channel] \in DOMAIN appFile[channel]
    /\ stage = "role" /\ trusted.meta[channel] # 0 => Authorized
    /\ stage = "pointer" => trusted.listing.pointer \in trusted.listing.releases \cup {0}

ChainInv == DelegationInv /\ ListingInv /\ CheckInv /\ NextIsThere /\ ChecksComplete

LEMMA FilesRemain ==
    ASSUME DelegationInv, [Next]_vars
    PROVE  /\ \A v \in DOMAIN targetsFile :
                 v \in DOMAIN targetsFile' /\ targetsFile'[v] = targetsFile[v]
           /\ \A v \in DOMAIN snapshotFile : v \in DOMAIN snapshotFile'
           /\ \A a \in Apps : \A v \in DOMAIN appFile[a] : v \in DOMAIN appFile'[a]
<1>1. CASE UNCHANGED vars
  BY <1>1 DEF vars, diskVars
<1>2. CASE Next
  <2>1. PICK w \in Writers : Process(w) \/ Operation(w) \/ Write(w)
    BY <1>2 DEF Next
  <2>2. DiskTypes /\ BaseInv
    BY TypeParts DEF DelegationInv, BaseInv
  <2>3. \A v \in DOMAIN targetsFile : v \in DOMAIN targetsFile' /\ targetsFile'[v] = targetsFile[v]
    <3>1. CASE WriteTargets(w)
      <4>1. /\ DOMAIN targetsFile = 1..Len(targetsFile)
            /\ DOMAIN targetsFile' = 1..(Len(targetsFile) + 1) /\ Len(targetsFile) \in Nat
        BY <3>1, TargetsAppended
      <4>2. \A i \in 1..Len(targetsFile) : targetsFile'[i] = targetsFile[i]
        BY <3>1, TargetsAppended
      <4> QED
        BY <4>1, <4>2
    <3>2. CASE UNCHANGED targetsFile
      BY <3>2
    <3> QED
      BY <2>1, <3>1, <3>2, FilesUntouched
  <2>4. \A v \in DOMAIN snapshotFile : v \in DOMAIN snapshotFile'
    <3>1. CASE WriteSnapshot(w)
      <4>1. /\ snapshotFile' \in Seq([Named -> 0..MaxVersion]) /\ Len(snapshotFile) \in Nat
            /\ Len(snapshotFile') = IF known[w]["snapshot"] = Len(snapshotFile)
                                    THEN Len(snapshotFile) + 1 ELSE Len(snapshotFile)
        BY <2>2, <3>1, SnapshotWritten
      <4>2. DOMAIN snapshotFile = 1..Len(snapshotFile) /\ DOMAIN snapshotFile' = 1..Len(snapshotFile')
        BY <2>2, <4>1 DEF DiskTypes
      <4> QED
        BY <4>1, <4>2
    <3>2. CASE UNCHANGED snapshotFile
      BY <3>2
    <3> QED
      BY <2>1, <3>1, <3>2, FilesUntouched
  <2>5. ASSUME NEW b \in Apps, NEW v \in DOMAIN appFile[b] PROVE v \in DOMAIN appFile'[b]
    <3>1. CASE WriteRole(w)
      <4>1. PICK a : a = job[w].app
        OBVIOUS
      <4>2. a \in Apps /\ appFile' \in [Apps -> Seq(Listing)]
            /\ \A c \in Apps \ {a} : appFile'[c] = appFile[c]
        BY <2>2, <3>1, <4>1, RoleWritten
      <4>3. Len(appFile[a]) \in Nat
            /\ Len(appFile'[a]) = IF known[w][a] = Len(appFile[a])
                                  THEN Len(appFile[a]) + 1 ELSE Len(appFile[a])
        BY <2>2, <3>1, <4>1, RoleWritten
      <4>4. DOMAIN appFile[a] = 1..Len(appFile[a]) /\ DOMAIN appFile'[a] = 1..Len(appFile'[a])
        BY <2>2, <4>2 DEF DiskTypes
      <4>5. CASE b = a
        BY <4>3, <4>4, <4>5
      <4>6. CASE b # a
        BY <4>2, <4>6
      <4> QED
        BY <4>5, <4>6
    <3>2. CASE UNCHANGED appFile
      BY <3>2
    <3> QED
      BY <2>1, <3>1, <3>2, FilesUntouched
  <2> QED
    BY <2>3, <2>4, <2>5
<1> QED
  BY <1>1, <1>2

LEMMA NextStaysThere ==
    ASSUME ChainInv, [Next]_vars, UNCHANGED clientVars
    PROVE  NextIsThere'
<1>1. NextIsThere /\ DelegationInv /\ (Checking => channel \in Apps)
  BY DEF ChainInv, CheckInv
<1>2. \A v \in DOMAIN targetsFile : v \in DOMAIN targetsFile' /\ targetsFile'[v] = targetsFile[v]
  BY <1>1, FilesRemain
<1>3. /\ \A v \in DOMAIN snapshotFile : v \in DOMAIN snapshotFile'
      /\ \A a \in Apps : \A v \in DOMAIN appFile[a] : v \in DOMAIN appFile'[a]
  BY <1>1, FilesRemain
<1>4. UNCHANGED <<stage, channel, trusted, promised>>
  BY DEF clientVars
<1> QED
  BY <1>1, <1>2, <1>3, <1>4 DEF NextIsThere, Checking, Authorized, Delegated

(* An answer is a failure only if the check began before anything was served. *)
LEMMA AnswerCompletes ==
    ASSUME NEW a \in {"offered", "nothing"}, NEW n, Answer(a, n)
    PROVE  NextIsThere' /\ ChecksComplete'
  BY DEF Answer, NextIsThere, Checking, ChecksComplete

(* Each fetch finds its file, and the file names the next one. *)
LEMMA FetchesLead ==
    ASSUME ChainInv, Check, UNCHANGED vars
    PROVE  NextIsThere' /\ ChecksComplete'
<1>1. /\ NextIsThere /\ ChecksComplete /\ ReferencesResolve /\ PointerIsServed /\ ClientTypes /\ BaseInv
  BY DelegationsResolve, CheckParts DEF ChainInv, ListingInv
<1>2. UNCHANGED <<targetsFile, snapshotFile, appFile, timestampFile>>
  BY DEF vars, diskVars
<1>3. CASE \E a \in Apps : FetchTimestamp(a)
  <2>1. PICK a \in Apps : FetchTimestamp(a)
    BY <1>3
  <2>2. CASE Served
    <3>1. stage' = "snapshot" /\ promised'.served /\ trusted' = UpdateTimestamp /\ outcome' = Unanswered
      BY <2>1, <2>2 DEF FetchTimestamp
    <3>2. trusted'.snapshotVersion \in DOMAIN snapshotFile
      BY <1>1, <2>2, <3>1 DEF ReferencesResolve, UpdateTimestamp, Bootstrapped
    <3> QED
      BY <1>2, <3>1, <3>2 DEF NextIsThere, Checking, ChecksComplete, Unanswered
  <2>3. CASE ~Served
    BY <2>1, <2>3 DEF FetchTimestamp, NextIsThere, Checking, ChecksComplete
  <2> QED
    BY <2>2, <2>3
<1>4. CASE FetchSnapshot
  <2>1. PICK v : v = SnapshotVersion
    OBVIOUS
  <2>2. v \in DOMAIN snapshotFile /\ channel \in Apps /\ promised.served
    BY <1>1, <1>4, <2>1 DEF FetchSnapshot, NextIsThere, SnapshotVersion, ClientTypes, Checking
  <2>3. stage' = "targets" /\ trusted' = UpdateSnapshot(v) /\ UNCHANGED <<channel, outcome, promised>>
    BY <1>4, <2>1, <2>2 DEF FetchSnapshot, Accept
  <2>4. trusted'.meta = snapshotFile[v]
    BY <1>1, <2>3 DEF UpdateSnapshot, ClientTypes, Database
  <2>5. /\ snapshotFile[v]["targets"] \in DOMAIN targetsFile
        /\ snapshotFile[v][channel] # 0 =>
              /\ snapshotFile[v][channel] \in DOMAIN appFile[channel]
              /\ channel \in Delegated(targetsFile[snapshotFile[v]["targets"]])
    BY <1>1, <2>2 DEF ReferencesResolve
  <2> QED
    BY <1>1, <1>2, <2>2, <2>3, <2>4, <2>5 DEF NextIsThere, Checking, ChecksComplete, Delegated
<1>5. CASE FetchTargets
  <2>1. PICK v : v = TargetsVersion("targets")
    OBVIOUS
  <2>2. v \in DOMAIN targetsFile /\ channel \in Apps /\ promised.served
        /\ (trusted.meta[channel] # 0 => channel \in Delegated(targetsFile[v]))
        /\ (trusted.meta[channel] # 0 => trusted.meta[channel] \in DOMAIN appFile[channel])
    BY <1>1, <1>5, <2>1 DEF FetchTargets, NextIsThere, TargetsVersion, ClientTypes, Checking
  <2>3. stage' = "role" /\ trusted' = UpdateTargets(v) /\ UNCHANGED <<channel, outcome, promised>>
    BY <1>5, <2>1, <2>2 DEF FetchTargets, Accept
  <2>4. trusted'.delegations = targetsFile[v] /\ trusted'.meta = trusted.meta
    BY <1>1, <2>3 DEF UpdateTargets, ClientTypes, Database
  <2> QED
    BY <1>1, <1>2, <2>2, <2>3, <2>4 DEF NextIsThere, Checking, ChecksComplete, Delegated, Authorized
<1>6. CASE FetchRole
  <2>1. PICK v : v = TargetsVersion(channel)
    OBVIOUS
  <2>2. v \in DOMAIN appFile[channel] /\ Authorized /\ channel \in Apps /\ promised.served
    BY <1>1, <1>6, <2>1 DEF FetchRole, NextIsThere, TargetsVersion, ClientTypes, Checking
  <2>3. stage' = "pointer" /\ trusted' = UpdateDelegatedTargets(v)
        /\ UNCHANGED <<channel, outcome, promised>>
    BY <1>6, <2>1, <2>2 DEF FetchRole, Accept
  <2>4. trusted'.listing = appFile[channel][v]
    BY <1>1, <2>3 DEF UpdateDelegatedTargets, ClientTypes, Database
  <2>5. appFile[channel][v].pointer \in appFile[channel][v].releases \cup {0}
    BY <1>1, <2>2 DEF PointerIsServed
  <2> QED
    BY <1>1, <2>2, <2>3, <2>4, <2>5 DEF NextIsThere, Checking, ChecksComplete
<1>7. CASE Undescribed \/ NoPointer
  BY <1>7, AnswerCompletes DEF Undescribed, NoPointer
<1>8. CASE Resolve
  <2>1. trusted.listing.pointer \in trusted.listing.releases
    BY <1>1, <1>8 DEF Resolve, NextIsThere
  <2> QED
    BY <1>8, <2>1, AnswerCompletes DEF Resolve
<1> QED
  BY <1>3, <1>4, <1>5, <1>6, <1>7, <1>8 DEF Check

LEMMA ChainInvInit == Lock # "none" /\ OneCeremonyUp /\ ClientInit => ChainInv
<1> SUFFICES ASSUME Lock # "none", OneCeremonyUp, ClientInit PROVE ChainInv
  OBVIOUS
<1>1. DelegationInv /\ ListingInv /\ CheckInv
  BY DelegationInvInit, ListingInvInit, CheckInvInit DEF ClientInit
<1>2. NextIsThere /\ ChecksComplete
  BY DEF ClientInit, NextIsThere, Checking, ChecksComplete, Unanswered
<1> QED
  BY <1>1, <1>2 DEF ChainInv

LEMMA ChainInvNext == ChainInv /\ [ClientNext]_<<vars, clientVars>> => ChainInv'
<1> SUFFICES ASSUME ChainInv, [ClientNext]_<<vars, clientVars>> PROVE ChainInv'
  OBVIOUS
<1>1. [Next]_vars /\ (UNCHANGED clientVars \/ (Check /\ UNCHANGED vars))
  BY ChecksReadOnly
<1>2. DelegationInv' /\ ListingInv' /\ CheckInv'
  BY <1>1, DelegationInvNext, ListingInvNext, CheckInvNext DEF ChainInv
<1>3. CASE UNCHANGED clientVars
  <2>1. NextIsThere'
    BY <1>1, <1>3, NextStaysThere
  <2>2. ChecksComplete'
    BY <1>3 DEF clientVars, ChainInv, ChecksComplete
  <2> QED
    BY <1>2, <2>1, <2>2 DEF ChainInv
<1>4. CASE Check /\ UNCHANGED vars
  BY <1>2, <1>4, FetchesLead DEF ChainInv
<1> QED
  BY <1>1, <1>3, <1>4

(* A check that began when something was served never fails on metadata
   (UpdateCheck.run), whatever is published, fails or crashes while it follows the
   chain, if no two operations overlap and at most one ceremony is up. *)
THEOREM ChecksAlwaysComplete ==
    Lock # "none" /\ OneCeremonyUp /\ ClientSpec => []ChecksComplete
<1>1. ChainInv => ChecksComplete
  BY DEF ChainInv
<1> QED
  BY <1>1, ChainInvInit, ChainInvNext, PTL DEF ClientSpec

(* What is trusted leads to the entry that the check began with. *)
Leads(meta) ==
    promised.entry = IF meta[channel] > 0 THEN appFile[channel][meta[channel]] ELSE EmptyListing
LeadsToPromise ==
    /\ stage = "snapshot" => Leads(snapshotFile[trusted.snapshotVersion])
    /\ stage \in {"targets", "role"} => Leads(trusted.meta)
    /\ stage = "pointer" =>
          trusted.listing = promised.entry /\ {channel} \X trusted.listing.releases \subseteq payload

OfferInv == SerialInv /\ ChainInv /\ LeadsToPromise /\ OffersOnePublication

LEMMA PromiseStays ==
    ASSUME OfferInv, [Next]_vars, UNCHANGED clientVars
    PROVE  LeadsToPromise' /\ OffersOnePublication'
<1>1. /\ LeadsToPromise /\ OffersOnePublication /\ SerialInv /\ NextIsThere
      /\ (Checking => channel \in Apps) /\ ClientTypes
  BY CheckParts DEF OfferInv, ChainInv, CheckInv
<1>2. /\ \A v \in DOMAIN snapshotFile : snapshotFile'[v] = snapshotFile[v]
      /\ \A a \in Apps : \A v \in DOMAIN appFile[a] : appFile'[a][v] = appFile[a][v]
  BY <1>1, FilesKept
<1>3. payload \subseteq payload'
  <2>1. CASE UNCHANGED vars
    BY <2>1 DEF vars, diskVars
  <2>2. CASE Next
    BY <2>2, PayloadStays DEF Next
  <2> QED
    BY <2>1, <2>2
<1>4. UNCHANGED <<stage, channel, trusted, outcome, promised>>
  BY DEF clientVars
<1>5. OffersOnePublication'
  BY <1>1, <1>3, <1>4 DEF OffersOnePublication
<1>6. CASE stage = "snapshot"
  <2>1. PICK m : m = snapshotFile[trusted.snapshotVersion]
    OBVIOUS
  <2>2. m = snapshotFile'[trusted.snapshotVersion] /\ channel \in Apps /\ Leads(m)
        /\ (m[channel] > 0 => m[channel] \in DOMAIN appFile[channel])
    <3>1. trusted.snapshotVersion \in DOMAIN snapshotFile /\ channel \in Apps
      BY <1>1, <1>6 DEF NextIsThere, Checking
    <3>2. ReferencesResolve
      BY <1>1, DelegationsResolve DEF SerialInv
    <3>3. m[channel] > 0 => m[channel] \in DOMAIN appFile[channel]
      BY <2>1, <3>1, <3>2 DEF ReferencesResolve
    <3> QED
      BY <1>1, <1>2, <1>6, <2>1, <3>1, <3>3 DEF LeadsToPromise
  <2>3. Leads(m)'
    BY <1>2, <1>4, <2>2 DEF Leads
  <2> QED
    BY <1>4, <1>5, <1>6, <2>2, <2>3 DEF LeadsToPromise
<1>7. CASE stage \in {"targets", "role"}
  <2>1. channel \in Apps /\ Leads(trusted.meta)
    BY <1>1, <1>7 DEF LeadsToPromise, Checking
  <2>2. trusted.meta[channel] \in Nat
    BY <2>1 , <1>1 DEF ClientTypes, Database, Named
  <2>3. trusted.meta[channel] > 0 => trusted.meta[channel] \in DOMAIN appFile[channel]
    BY <1>1, <1>7, <2>2 DEF NextIsThere
  <2>4. Leads(trusted.meta)'
    BY <1>2, <1>4, <2>1, <2>3 DEF Leads
  <2> QED
    BY <1>4, <1>5, <1>7, <2>4 DEF LeadsToPromise
<1>8. CASE stage \in {"pointer", "idle"}
  BY <1>1, <1>3, <1>4, <1>5, <1>8 DEF LeadsToPromise
<1> QED
  BY <1>1, <1>6, <1>7, <1>8 DEF ClientTypes, Stage

LEMMA AnswerPromises ==
    ASSUME NEW a, NEW n, Answer(a, n), a # "offered"
    PROVE  LeadsToPromise' /\ OffersOnePublication'
  BY DEF Answer, LeadsToPromise, OffersOnePublication

(* What a served timestamp leads to is what a client could see. *)
LEMMA ViewLeads ==
    ASSUME SerialInv, Served, NEW a \in Apps, NEW m, m = snapshotFile[timestampFile.snapshot]
    PROVE  View(a) = IF m[a] > 0 THEN appFile[a][m[a]] ELSE EmptyListing
<1>1. PICK s : s = timestampFile.snapshot
  OBVIOUS
<1>2. s \in DOMAIN snapshotFile /\ listed = Delegated(targetsFile[snapshotFile[s]["targets"]])
      /\ View(a) = IF a \in listed /\ snapshotFile[s][a] > 0
                   THEN appFile[a][snapshotFile[s][a]] ELSE EmptyListing
  BY <1>1, Viewed
<1>3. snapshotFile[s][a] > 0 => a \in listed
  BY <1>2 DEF SerialInv, DelegationInv, NamedIsDelegated
<1> QED
  BY <1>1, <1>2, <1>3

LEMMA FetchesKeepPromise ==
    ASSUME OfferInv, Check, UNCHANGED vars
    PROVE  LeadsToPromise' /\ OffersOnePublication'
<1>1. /\ LeadsToPromise /\ OffersOnePublication /\ SerialInv /\ NextIsThere /\ PointerIsServed
      /\ ClientTypes
  BY CheckParts DEF OfferInv, ChainInv, ListingInv
<1>2. UNCHANGED <<targetsFile, snapshotFile, appFile, timestampFile, payload>>
  BY DEF vars, diskVars
<1>3. CASE \E a \in Apps : FetchTimestamp(a)
  <2>1. PICK a \in Apps : FetchTimestamp(a)
    BY <1>3
  <2>2. CASE Served
    <3>1. PICK m : m = snapshotFile[timestampFile.snapshot]
      OBVIOUS
    <3>2. View(a) = IF m[a] > 0 THEN appFile[a][m[a]] ELSE EmptyListing
      BY <1>1, <2>2, <3>1, ViewLeads
    <3>3. /\ stage' = "snapshot" /\ promised'.entry = View(a) /\ channel' = a
          /\ trusted' = UpdateTimestamp /\ outcome' = Unanswered
      BY <2>1, <2>2 DEF FetchTimestamp
    <3>4. snapshotFile'[trusted'.snapshotVersion] = m
      BY <1>2, <3>1, <3>3 DEF UpdateTimestamp, Bootstrapped
    <3>5. Leads(m)'
      BY <1>2, <3>2, <3>3 DEF Leads
    <3> QED
      BY <3>3, <3>4, <3>5 DEF LeadsToPromise, OffersOnePublication, Unanswered
  <2>3. CASE ~Served
    BY <2>1, <2>3 DEF FetchTimestamp, LeadsToPromise, OffersOnePublication
  <2> QED
    BY <2>2, <2>3
<1>4. CASE FetchSnapshot
  <2>1. PICK v : v = SnapshotVersion
    OBVIOUS
  <2>2. v \in DOMAIN snapshotFile /\ Leads(snapshotFile[v])
    BY <1>1, <1>4, <2>1 DEF FetchSnapshot, NextIsThere, SnapshotVersion, LeadsToPromise
  <2>3. stage' = "targets" /\ trusted' = UpdateSnapshot(v) /\ UNCHANGED <<channel, outcome, promised>>
        /\ stage = "snapshot"
    BY <1>4, <2>1, <2>2 DEF FetchSnapshot, Accept
  <2>4. trusted'.meta = snapshotFile[v]
    BY <1>1, <2>3 DEF UpdateSnapshot, ClientTypes, Database
  <2>5. Leads(trusted.meta)'
    BY <1>2, <2>2, <2>3, <2>4 DEF Leads
  <2> QED
    BY <1>1, <1>2, <2>3, <2>5 DEF LeadsToPromise, OffersOnePublication
<1>5. CASE FetchTargets
  <2>1. PICK v : v = TargetsVersion("targets")
    OBVIOUS
  <2>2. v \in DOMAIN targetsFile /\ Leads(trusted.meta)
    BY <1>1, <1>5, <2>1 DEF FetchTargets, NextIsThere, TargetsVersion, LeadsToPromise
  <2>3. stage' = "role" /\ trusted' = UpdateTargets(v) /\ UNCHANGED <<channel, outcome, promised>>
    BY <1>5, <2>1, <2>2 DEF FetchTargets, Accept
  <2>4. trusted'.meta = trusted.meta
    BY <1>1, <2>3 DEF UpdateTargets, ClientTypes, Database
  <2>5. Leads(trusted.meta)'
    BY <1>2, <2>2, <2>3, <2>4 DEF Leads
  <2> QED
    BY <1>1, <1>2, <2>3, <2>5 DEF LeadsToPromise, OffersOnePublication
<1>6. CASE FetchRole
  <2>1. PICK v : v = TargetsVersion(channel)
    OBVIOUS
  <2>2. v \in DOMAIN appFile[channel] /\ Authorized /\ channel \in Apps /\ Leads(trusted.meta)
        /\ v = trusted.meta[channel] /\ v > 0
    <3>1. channel \in Apps /\ v = trusted.meta[channel] /\ v # 0 /\ stage = "role"
      BY <1>1, <1>6, <2>1 DEF FetchRole, TargetsVersion, ClientTypes, Checking
    <3>2. v \in Nat
      BY <1>1, <3>1 DEF ClientTypes, Database, Named
    <3> QED
      BY <1>1, <3>1, <3>2 DEF NextIsThere, LeadsToPromise
  <2>3. stage' = "pointer" /\ trusted' = UpdateDelegatedTargets(v)
        /\ UNCHANGED <<channel, outcome, promised>>
    BY <1>6, <2>1, <2>2 DEF FetchRole, Accept
  <2>4. trusted'.listing = appFile[channel][v]
    BY <1>1, <2>3 DEF UpdateDelegatedTargets, ClientTypes, Database
  <2>5. promised.entry = appFile[channel][v]
    BY <2>2 DEF Leads
  <2>6. {channel} \X appFile[channel][v].releases \subseteq payload
    BY <1>1, <2>2 DEF PointerIsServed
  <2> QED
    BY <1>1, <1>2, <2>3, <2>4, <2>5, <2>6 DEF LeadsToPromise, OffersOnePublication
<1>7. CASE Undescribed \/ NoPointer
  BY <1>7, AnswerPromises DEF Undescribed, NoPointer
<1>8. CASE Resolve
  <2>1. PICK n : n = trusted.listing.pointer
    OBVIOUS
  <2>2. CASE Answer("offered", n) /\ n \in trusted.listing.releases /\ n \in Reached
    <3>1. trusted.listing = promised.entry /\ {channel} \X trusted.listing.releases \subseteq payload
      BY <1>1, <1>8 DEF Resolve, LeadsToPromise
    <3>2. <<channel, n>> \in payload /\ n = promised.entry.pointer
      BY <2>1, <2>2, <3>1
    <3> QED
      BY <1>2, <2>2, <3>2 DEF Answer, LeadsToPromise, OffersOnePublication
  <2> QED
    BY <1>8, <2>1, <2>2, AnswerPromises DEF Resolve
<1> QED
  BY <1>3, <1>4, <1>5, <1>6, <1>7, <1>8 DEF Check

LEMMA OfferInvInit == Lock = "process" /\ ClientInit => OfferInv
<1> SUFFICES ASSUME Lock = "process", ClientInit PROVE OfferInv
  OBVIOUS
<1>1. SerialInv /\ ChainInv
  BY SerialInvInit, ChainInvInit DEF ClientInit, OneCeremonyUp
<1>2. LeadsToPromise /\ OffersOnePublication
  BY DEF ClientInit, LeadsToPromise, OffersOnePublication, Unanswered
<1> QED
  BY <1>1, <1>2 DEF OfferInv

LEMMA OfferInvNext == OfferInv /\ [ClientNext]_<<vars, clientVars>> => OfferInv'
<1> SUFFICES ASSUME OfferInv, [ClientNext]_<<vars, clientVars>> PROVE OfferInv'
  OBVIOUS
<1>1. [Next]_vars /\ (UNCHANGED clientVars \/ (Check /\ UNCHANGED vars))
  BY ChecksReadOnly
<1>2. SerialInv' /\ ChainInv'
  BY <1>1, SerialInvNext, ChainInvNext DEF OfferInv
<1>3. LeadsToPromise' /\ OffersOnePublication'
  BY <1>1, PromiseStays, FetchesKeepPromise
<1> QED
  BY <1>2, <1>3 DEF OfferInv

(* What a check offers can be downloaded, reaches this install, and is the release
   that was current when the check began, though it overlaps publications
   (UpdateCheck.run), if the writers are one process at a time. *)
THEOREM OffersAreOfOnePublication == Lock = "process" /\ ClientSpec => []OffersOnePublication
<1>1. OfferInv => OffersOnePublication
  BY DEF OfferInv
<1> QED
  BY <1>1, OfferInvInit, OfferInvNext, PTL DEF ClientSpec
=============================================================================
