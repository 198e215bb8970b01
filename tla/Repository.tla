---------------------------- MODULE Repository ----------------------------
(***************************************************************************)
(* The TUF repository on disk (dist_core.repository.FileSystemRepository)  *)
(* and the processes that write to it: the ceremony, with every key, and   *)
(* the signing workers, with the online ones.  One file write per action.  *)
(*                                                                         *)
(* How the data is abstracted:                                             *)
(*   - A process keeps in memory the version of every role as it found it  *)
(*     when it was constructed (_versions) and the delegated roles         *)
(*     (_app_roles).  It never looks at the directory again.               *)
(*   - <version>.<role>.json is the entry at that index of a sequence.  A  *)
(*     version is one more than the writer remembers, so there is never a  *)
(*     gap, but a writer with a stale memory writes over what is there.    *)
(*   - The role app-<a> is named by its application, a release by its      *)
(*     number.  One channel and platform per application.                  *)
(*   - Expiry, signatures and thresholds: a process can sign for a role or *)
(*     it cannot.  root.json and its versions never change after the first.*)
(***************************************************************************)
EXTENDS Naturals, Sequences

CONSTANTS
    Apps,        \* application ids
    Writers,     \* processes that hold a FileSystemRepository
    Ceremonies,  \* those of them that hold the offline keys too
    Online,      \* applications whose role is signed with an online key
    MaxRelease,  \* bound: releases per application
    MaxVersion,  \* bound: versions of each role
    MaxFaults,   \* bound: crashes and failed writes
    Lock         \* how callers serialise: per "process" lifetime, per
                 \* "operation", or "none"

TopLevel == {"root", "targets", "snapshot", "timestamp"}

ASSUME RepositoryAssumption ==
    /\ Apps \cap (TopLevel \cup {"none"}) = {}
    /\ Ceremonies \subseteq Writers
    /\ Online \subseteq Apps
    /\ MaxRelease \in Nat
    /\ MaxVersion \in Nat \ {0}
    /\ MaxFaults \in Nat
    /\ Lock \in {"process", "operation", "none"}

VARIABLES
    initialized,    \* 1.root.json exists
    targetsFile,    \* targetsFile[v]: the applications v.targets.json delegates,
                    \* in the order of its list
    appFile,        \* appFile[a][v]: what v.app-<a>.json lists
    snapshotFile,   \* snapshotFile[v]: the versions v.snapshot.json names
    timestampFile,  \* timestamp.json: its version and that of the snapshot
    payload,        \* <<a, n>>: artifact n of a is under targets/
    pc,             \* pc[w]: the write that w makes next
    known,          \* known[w]: w's _versions
    appRoles,       \* appRoles[w]: w's _app_roles
    job,            \* job[w]: the operation w is in
    faults          \* how much of MaxFaults is used

diskVars == <<initialized, targetsFile, appFile, snapshotFile, timestampFile, payload>>
memoryVars == <<known, appRoles>>
vars == <<diskVars, pc, memoryVars, job, faults>>

-----------------------------------------------------------------------------
(* Types *)

Roles == TopLevel \cup Apps
Named == {"targets"} \cup Apps          \* the roles a snapshot names
Releases == 1..MaxRelease
Listing == [releases: SUBSET Releases, pointer: 0..MaxRelease]
EmptyListing == [releases |-> {}, pointer |-> 0]
Pc == {"down", "idle", "targets", "role", "snapshot", "timestamp"}
Op == {"none", "initialize", "add_app", "add_release", "set_current"}
Job == [op: Op, app: Apps \cup {"none"}, release: 0..MaxRelease]
NoJob == [op |-> "none", app |-> "none", release |-> 0]

OnDisk(r) ==
    CASE r = "root" -> IF initialized THEN 1 ELSE 0
      [] r = "targets" -> Len(targetsFile)
      [] r = "snapshot" -> Len(snapshotFile)
      [] r = "timestamp" -> timestampFile.version
      [] OTHER -> Len(appFile[r])

(* No process believes in a version that was never written. *)
TypeOK ==
    /\ initialized \in BOOLEAN
    /\ targetsFile \in Seq(Seq(Apps))
    /\ appFile \in [Apps -> Seq(Listing)]
    /\ snapshotFile \in Seq([Named -> 0..MaxVersion])
    /\ timestampFile \in [version: 0..MaxVersion, snapshot: 0..MaxVersion]
    /\ payload \in SUBSET (Apps \X Releases)
    /\ pc \in [Writers -> Pc]
    /\ known \in [Writers -> [Roles -> 0..MaxVersion]]
    /\ \A w \in Writers, r \in Roles \ {"timestamp"} : known[w][r] <= OnDisk(r)
    /\ appRoles \in [Writers -> SUBSET Apps]
    /\ job \in [Writers -> Job]
    /\ faults \in 0..MaxFaults

-----------------------------------------------------------------------------
(* The directory *)

Init ==
    /\ initialized = FALSE
    /\ targetsFile = <<>>
    /\ appFile = [a \in Apps |-> <<>>]
    /\ snapshotFile = <<>>
    /\ timestampFile = [version |-> 0, snapshot |-> 1]
    /\ payload = {}
    /\ pc = [w \in Writers |-> "down"]
    /\ known = [w \in Writers |-> [r \in Roles |-> 0]]
    /\ appRoles = [w \in Writers |-> {}]
    /\ job = [w \in Writers |-> NoJob]
    /\ faults = 0

(* _write of version v: temporary file, then replace. *)
Written(file, v, content) ==
    IF v = Len(file) + 1 THEN Append(file, content) ELSE [file EXCEPT ![v] = content]

(* open: the version w remembers, or a fresh object when it knows of none.  A
   fresh Snapshot names version 1 of targets, a fresh Timestamp that of snapshot. *)
OpenTargets(w) ==
    IF known[w]["targets"] = 0 THEN <<>> ELSE targetsFile[known[w]["targets"]]
OpenRole(w, a) == IF known[w][a] = 0 THEN EmptyListing ELSE appFile[a][known[w][a]]
OpenSnapshot(w) ==
    IF known[w]["snapshot"] = 0
    THEN [r \in Named |-> IF r = "targets" THEN 1 ELSE 0]
    ELSE snapshotFile[known[w]["snapshot"]]
OpenTimestamp(w) == IF known[w]["timestamp"] = 0 THEN 1 ELSE timestampFile.snapshot

(* The dict of delegations keeps the order in which applications were added, and
   an application that is added again keeps its place. *)
Delegated(list) == {list[i] : i \in DOMAIN list}
Delegate(list, app) == IF app \in Apps \ Delegated(list) THEN Append(list, app) ELSE list
NewestTargets == IF targetsFile = <<>> THEN <<>> ELSE targetsFile[Len(targetsFile)]

(* close signs with the keys of the backend, and refuses below the threshold. *)
CanSign(w, r) == w \in Ceremonies \/ r \in {"snapshot", "timestamp"} \cup Online

Remember(w, r) == known' = [known EXCEPT ![w][r] = @ + 1]

-----------------------------------------------------------------------------
(* Processes *)

Up(w) == pc[w] # "down"
Busy(w) == pc[w] \notin {"down", "idle"}
Free(w) == Lock = "operation" => \A v \in Writers : ~Busy(v)

(* Mutant: the scan takes versions from file names only. *)
StartUnstamped(w) ==
    /\ pc[w] = "down"
    /\ Lock = "process" => \A v \in Writers : ~Up(v)
    /\ pc' = [pc EXCEPT ![w] = "idle"]
    /\ known' = [known EXCEPT ![w] = [r \in Roles |-> IF r = "timestamp" THEN 0 ELSE OnDisk(r)]]
    /\ appRoles' = [appRoles EXCEPT ![w] =
                      Delegated(NewestTargets)]
    /\ UNCHANGED <<diskVars, job, faults>>

(* __init__ and _scan: versions from the file names, delegations from the newest
   targets. *)
Start(w) ==
    /\ pc[w] = "down"
    /\ Lock = "process" => \A v \in Writers : ~Up(v)
    /\ pc' = [pc EXCEPT ![w] = "idle"]
    /\ known' = [known EXCEPT ![w] = [r \in Roles |-> OnDisk(r)]]
    /\ appRoles' = [appRoles EXCEPT ![w] =
                      Delegated(NewestTargets)]
    /\ UNCHANGED <<diskVars, job, faults>>

Down(w) ==
    /\ pc' = [pc EXCEPT ![w] = "down"]
    /\ known' = [known EXCEPT ![w] = [r \in Roles |-> 0]]
    /\ appRoles' = [appRoles EXCEPT ![w] = {}]
    /\ job' = [job EXCEPT ![w] = NoJob]

Stop(w) ==
    /\ pc[w] = "idle"
    /\ Down(w)
    /\ UNCHANGED <<diskVars, faults>>

Begin(w, next, op, a, n) ==
    /\ pc[w] = "idle"
    /\ Free(w)
    /\ pc' = [pc EXCEPT ![w] = next]
    /\ job' = [job EXCEPT ![w] = [op |-> op, app |-> a, release |-> n]]

(* The process goes on with its memory as it is after an error, ... *)
GiveUp(w) ==
    /\ pc' = [pc EXCEPT ![w] = "idle"]
    /\ job' = [job EXCEPT ![w] = NoJob]

(* Mutant: the version is counted up before the file is written. *)
RaiseCounted(w) ==
    /\ Busy(w)
    /\ faults < MaxFaults
    /\ faults' = faults + 1
    /\ Remember(w, IF pc[w] = "role" THEN job[w].app ELSE pc[w])
    /\ GiveUp(w)
    /\ UNCHANGED <<diskVars, appRoles>>

(* ... of a write (a full disk, a keystore that cannot be read) ... *)
Raise(w) ==
    /\ Busy(w)
    /\ faults < MaxFaults
    /\ faults' = faults + 1
    /\ GiveUp(w)
    /\ UNCHANGED <<diskVars, memoryVars>>

(* ... and loses it when it is killed between two writes. *)
Crash(w) ==
    /\ Busy(w)
    /\ faults < MaxFaults
    /\ faults' = faults + 1
    /\ Down(w)
    /\ UNCHANGED diskVars

-----------------------------------------------------------------------------
(* Operations: each begins by what it checks and ends by publish *)

(* Room for one more version of every role. *)
Within(w) == \A r \in Roles \ {"root"} : known[w][r] < MaxVersion

(* initialize: refused once there is a root, even if the rest was never written. *)
Initialize(w) ==
    /\ w \in Ceremonies
    /\ known[w]["root"] = 0
    /\ Within(w)
    /\ Begin(w, "targets", "initialize", "none", 0)
    /\ initialized' = TRUE
    /\ Remember(w, "root")
    /\ UNCHANGED <<targetsFile, appFile, snapshotFile, timestampFile, payload,
                   appRoles, faults>>

(* Nobody delegates in a directory that no ceremony has begun to fill. *)
AddApp(w, a) ==
    /\ w \in Ceremonies
    /\ initialized
    /\ Within(w)
    /\ Begin(w, "targets", "add_app", a, 0)
    /\ UNCHANGED <<diskVars, memoryVars, faults>>

(* The payload is stored before the role that lists it is written. *)
AddRelease(w, a, n) ==
    /\ a \in appRoles[w]
    /\ Within(w)
    /\ Begin(w, "role", "add_release", a, n)
    /\ payload' = payload \cup {<<a, n>>}
    /\ UNCHANGED <<initialized, targetsFile, appFile, snapshotFile, timestampFile,
                   memoryVars, faults>>

(* Mutant: the pointer is moved without a look at what is published. *)
SetCurrentUnchecked(w, a, n) ==
    /\ a \in appRoles[w]
    /\ Within(w)
    /\ Begin(w, "role", "set_current", a, n)
    /\ UNCHANGED <<diskVars, memoryVars, faults>>

(* The pointer document is a payload too; it is content-addressed and says only
   what the listing's pointer says here. *)
SetCurrent(w, a, n) ==
    /\ a \in appRoles[w]
    /\ n \in OpenRole(w, a).releases
    /\ Within(w)
    /\ Begin(w, "role", "set_current", a, n)
    /\ UNCHANGED <<diskVars, memoryVars, faults>>

-----------------------------------------------------------------------------
(* Writes *)

(* Mutant: add_app does not enter the new role into _app_roles. *)
WriteTargetsUnregistered(w) ==
    /\ pc[w] = "targets"
    /\ targetsFile' = Written(targetsFile, known[w]["targets"] + 1,
                              Delegate(OpenTargets(w), job[w].app))
    /\ Remember(w, "targets")
    /\ pc' = [pc EXCEPT ![w] = IF job[w].op = "add_app" THEN "role" ELSE "snapshot"]
    /\ UNCHANGED <<initialized, appFile, snapshotFile, timestampFile, payload,
                   appRoles, job, faults>>

WriteTargets(w) ==
    /\ pc[w] = "targets"
    /\ targetsFile' = Written(targetsFile, known[w]["targets"] + 1,
                              Delegate(OpenTargets(w), job[w].app))
    /\ Remember(w, "targets")
    /\ appRoles' = [appRoles EXCEPT ![w] = @ \cup ({job[w].app} \cap Apps)]
    /\ pc' = [pc EXCEPT ![w] = IF job[w].op = "add_app" THEN "role" ELSE "snapshot"]
    /\ UNCHANGED <<initialized, appFile, snapshotFile, timestampFile, payload, job, faults>>

(* Mutant: add_app starts the role afresh. *)
EditedAfresh(w) ==
    LET old == OpenRole(w, job[w].app) IN
    CASE job[w].op = "add_release" -> [old EXCEPT !.releases = @ \cup {job[w].release}]
      [] job[w].op = "set_current" -> [old EXCEPT !.pointer = job[w].release]
      [] OTHER -> EmptyListing

(* What the operation makes of the listing it opened. *)
Edited(w) ==
    LET old == OpenRole(w, job[w].app) IN
    CASE job[w].op = "add_release" -> [old EXCEPT !.releases = @ \cup {job[w].release}]
      [] job[w].op = "set_current" -> [old EXCEPT !.pointer = job[w].release]
      [] OTHER -> old

(* Mutant: close leaves _versions as it was. *)
WriteRoleForgetful(w) ==
    LET a == job[w].app IN
    /\ pc[w] = "role"
    /\ CanSign(w, a)
    /\ appFile' = [appFile EXCEPT ![a] = Written(@, known[w][a] + 1, Edited(w))]
    /\ pc' = [pc EXCEPT ![w] = "snapshot"]
    /\ UNCHANGED <<initialized, targetsFile, snapshotFile, timestampFile, payload,
                   memoryVars, job, faults>>

WriteRole(w) ==
    LET a == job[w].app IN
    /\ pc[w] = "role"
    /\ CanSign(w, a)
    /\ appFile' = [appFile EXCEPT ![a] = Written(@, known[w][a] + 1, Edited(w))]
    /\ Remember(w, a)
    /\ pc' = [pc EXCEPT ![w] = "snapshot"]
    /\ UNCHANGED <<initialized, targetsFile, snapshotFile, timestampFile, payload,
                   appRoles, job, faults>>

RefuseRole(w) ==
    /\ pc[w] = "role"
    /\ ~CanSign(w, job[w].app)
    /\ GiveUp(w)
    /\ UNCHANGED <<diskVars, memoryVars, faults>>

(* targets_infos: of the roles w knows delegated, those it knows a version of. *)
Infos(w) == [r \in Named |-> IF r \in appRoles[w] \cup {"targets"} THEN known[w][r] ELSE 0]
Updated(w) == [r \in Named |-> IF Infos(w)[r] = 0 THEN OpenSnapshot(w)[r] ELSE Infos(w)[r]]
RollsBack(w) == \E r \in Named : Infos(w)[r] # 0 /\ Infos(w)[r] < OpenSnapshot(w)[r]

(* do_snapshot writes when it has never been signed or a role moved on. *)
SnapshotDue(w) == known[w]["snapshot"] = 0 \/ Updated(w) # OpenSnapshot(w)
WriteSnapshot(w) ==
    /\ pc[w] = "snapshot"
    /\ ~RollsBack(w)
    /\ SnapshotDue(w)
    /\ snapshotFile' = Written(snapshotFile, known[w]["snapshot"] + 1, Updated(w))
    /\ Remember(w, "snapshot")
    /\ pc' = [pc EXCEPT ![w] = "timestamp"]
    /\ UNCHANGED <<initialized, targetsFile, appFile, timestampFile, payload,
                   appRoles, job, faults>>

SkipSnapshot(w) ==
    /\ pc[w] = "snapshot"
    /\ ~RollsBack(w)
    /\ ~SnapshotDue(w)
    /\ pc' = [pc EXCEPT ![w] = "timestamp"]
    /\ UNCHANGED <<diskVars, memoryVars, job, faults>>

(* do_snapshot and do_timestamp raise when what they remember is behind the file. *)
RefuseRollback(w) ==
    /\ \/ pc[w] = "snapshot" /\ RollsBack(w)
       \/ pc[w] = "timestamp" /\ known[w]["snapshot"] < OpenTimestamp(w)
    /\ GiveUp(w)
    /\ UNCHANGED <<diskVars, memoryVars, faults>>

(* Mutant: the timestamp names the snapshot about to be written. *)
SnapshotInfoAhead(w) == known[w]["snapshot"] + 1
SnapshotInfo(w) == known[w]["snapshot"]

(* timestamp.json is one file, whatever its version. *)
TimestampDue(w) == known[w]["timestamp"] = 0 \/ SnapshotInfo(w) > OpenTimestamp(w)
WriteTimestamp(w) ==
    /\ pc[w] = "timestamp"
    /\ TimestampDue(w)
    /\ timestampFile' = [version |-> known[w]["timestamp"] + 1, snapshot |-> SnapshotInfo(w)]
    /\ Remember(w, "timestamp")
    /\ GiveUp(w)
    /\ UNCHANGED <<initialized, targetsFile, appFile, snapshotFile, payload, appRoles, faults>>

SkipTimestamp(w) ==
    /\ pc[w] = "timestamp"
    /\ known[w]["snapshot"] = OpenTimestamp(w)
    /\ ~TimestampDue(w)
    /\ GiveUp(w)
    /\ UNCHANGED <<diskVars, memoryVars, faults>>

-----------------------------------------------------------------------------
(* The specification *)

Process(w) == Start(w) \/ Stop(w) \/ Raise(w) \/ Crash(w)
Operation(w) ==
    \/ Initialize(w)
    \/ \E a \in Apps : AddApp(w, a)
    \/ \E a \in Apps, n \in Releases : AddRelease(w, a, n) \/ SetCurrent(w, a, n)
Write(w) ==
    \/ WriteTargets(w) \/ WriteRole(w) \/ RefuseRole(w)
    \/ WriteSnapshot(w) \/ SkipSnapshot(w) \/ RefuseRollback(w)
    \/ WriteTimestamp(w) \/ SkipTimestamp(w)

Next == \E w \in Writers : Process(w) \/ Operation(w) \/ Write(w)

Spec == Init /\ [][Next]_vars

-----------------------------------------------------------------------------
(* Properties *)

(* The repository a client sees: what the timestamp leads to. *)
Served == timestampFile.version > 0
listed ==
    IF Served THEN Delegated(targetsFile[snapshotFile[timestampFile.snapshot]["targets"]]) ELSE {}
View(a) ==
    IF a \in listed /\ snapshotFile[timestampFile.snapshot][a] > 0
    THEN appFile[a][snapshotFile[timestampFile.snapshot][a]]
    ELSE EmptyListing

(* A client that fetches in the middle of a publication, or after a crash in one,
   never meets a reference to metadata that is not there yet: the timestamp names
   a snapshot on disk, every snapshot names roles on disk, and an application it
   names is delegated by the targets it names (repository.py: "publication order
   is delegated role, then snapshot, then timestamp"). *)
ReferencesResolve ==
    /\ Served => timestampFile.snapshot \in DOMAIN snapshotFile
    /\ \A i \in DOMAIN snapshotFile :
          /\ snapshotFile[i]["targets"] \in DOMAIN targetsFile
          /\ \A a \in Apps : snapshotFile[i][a] # 0 =>
                /\ snapshotFile[i][a] \in DOMAIN appFile[a]
                /\ a \in Delegated(targetsFile[snapshotFile[i]["targets"]])

(* Whatever a role lists can be downloaded, and a pointer names a release of the
   same listing: a channel that points at a target that does not exist "would
   leave every client unable to update" (set_current). *)
PointerIsServed ==
    \A a \in Apps : \A v \in DOMAIN appFile[a] :
        /\ {a} \X appFile[a][v].releases \subseteq payload
        /\ appFile[a][v].pointer \in appFile[a][v].releases \cup {0}

(* A numbered metadata file is never written again: the edge serves it as
   immutable for a year (edge.conf: "version-numbered and therefore immutable
   once published"). *)
FilesAreImmutable ==
    [][/\ \A v \in DOMAIN targetsFile : targetsFile'[v] = targetsFile[v]
       /\ \A v \in DOMAIN snapshotFile : snapshotFile'[v] = snapshotFile[v]
       /\ \A a \in Apps : \A v \in DOMAIN appFile[a] : appFile'[a][v] = appFile[a][v]]_vars

(* timestamp.json, the one file that is replaced, moves on by its own version and
   never back to an older snapshot: clients refuse it otherwise, for good. *)
TimestampAdvances ==
    [][timestampFile' # timestampFile =>
         /\ timestampFile'.version > timestampFile.version
         /\ Served => timestampFile'.snapshot > timestampFile.snapshot]_vars

(* When an operation returns without an error, clients are served its result,
   whatever crashes and failures came before it. *)
ReportedIsPublished ==
    [][\A w \in Writers, a \in Apps :
         job[w].app = a /\ (WriteTimestamp(w) \/ SkipTimestamp(w)) =>
           /\ a \in listed'
           /\ snapshotFile[timestampFile'.snapshot][a] = Len(appFile[a])
           /\ job[w].op = "add_release" => job[w].release \in View(a)'.releases
           /\ job[w].op = "set_current" => job[w].release = View(a)'.pointer]_vars

(* The files, their order and the crashes implement the atomic catalogue. *)
Published == INSTANCE Catalogue WITH
    listed <- listed, catalogue <- [a \in Apps |-> View(a)]
PublishesAtomically == Published!Spec
=============================================================================
