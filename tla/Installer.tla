----------------------------- MODULE Installer -----------------------------
(***************************************************************************)
(* The A/B installation on a client machine (dist-core-rs/src/install.rs): *)
(* version slots, the staging directory and the pointer file current.json, *)
(* used by three processes: the updater, which stages and activates, the   *)
(* launcher, which is run at every start, and the application.  A library  *)
(* call is split where it touches the file system: it reads the pointer,   *)
(* decides, and replaces the pointer later, with no lock in between.       *)
(*                                                                         *)
(* How the data is abstracted:                                             *)
(*   - A directory is absent, partial (being filled, or half removed) or   *)
(*     complete; is_dir is true of the last two.                           *)
(*   - Of the staging directories the one staged last is followed: stage    *)
(*     removes what an earlier update left, and nothing else reads it.     *)
(*   - attempts stops at MaxAttempts: it is only ever compared with it.    *)
(*   - What the launched application does with its life is two events: it  *)
(*     calls confirm_healthy, if its version can start, and it ends.       *)
(***************************************************************************)
EXTENDS Naturals

CONSTANTS
    Versions,     \* versions the server ever offers
    Healthy,      \* versions that start
    MaxAttempts,  \* MAX_LAUNCH_ATTEMPTS
    MaxFaults     \* bound: processes killed in the middle

None == "none"

ASSUME InstallerAssumption ==
    /\ None \notin Versions
    /\ Healthy \subseteq Versions
    /\ MaxAttempts \in Nat \ {0}
    /\ MaxFaults \in Nat

VARIABLES
    slot,      \* slot[v]: directory versions/<v>
    staging,   \* directory staging/<v> of the version v that was staged last
    pointer,   \* current.json, or NotInstalled
    pc,        \* pc[p]: what process p does next
    copy,      \* copy[p]: the pointer as p has read it
    target,    \* the version the updater is installing
    running,   \* the version of the application that runs, or None
    tries,     \* history: launches of the active version since it was activated,
               \* put back to 0 when it is confirmed
    lost,      \* history: a pointer was written over that its writer had not read
    torn,      \* history: versions the pointer names in spite of their slot: commit_slot
               \* began to remove it under the pointer, or activate took it half removed
    faults     \* how much of MaxFaults is used

vars == <<slot, staging, pointer, pc, copy, target, running, tries, lost, torn, faults>>

-----------------------------------------------------------------------------
(* Types *)

Process == {"updater", "launcher", "app"}
Directory == {"absent", "partial", "complete"}
Pointer == [active: Versions, previous: Versions \cup {None},
            health: {"probation", "confirmed"}, attempts: 0..MaxAttempts]
NotInstalled == [active |-> None, previous |-> None, health |-> None, attempts |-> 0]
Pc == {"idle", "staged", "filled", "replace", "committed", "activate", "prune",
       "rollback", "revert", "launch", "confirm"}

TypeOK ==
    /\ slot \in [Versions -> Directory]
    /\ staging \in Directory
    /\ pointer \in Pointer \cup {NotInstalled}
    /\ pc \in [Process -> Pc]
    /\ copy \in [Process -> Pointer \cup {NotInstalled}]
    /\ target \in Versions \cup {None}
    /\ running \in Versions \cup {None}
    /\ tries \in 0..(MaxAttempts + 1)
    /\ lost \in BOOLEAN
    /\ torn \subseteq Versions
    /\ faults \in 0..MaxFaults

-----------------------------------------------------------------------------

Installed == pointer # NotInstalled
IsDir(v) == slot[v] # "absent"

Goto(p, next) == pc' = [pc EXCEPT ![p] = next]
Holding(p, ptr) == copy' = [copy EXCEPT ![p] = ptr]
Return(p) == Goto(p, "idle") /\ Holding(p, NotInstalled)

(* write_pointer: the file is replaced, whatever it holds by then. *)
WritePointer(p, ptr) ==
    /\ pointer' = ptr
    /\ lost' = (lost \/ copy[p] # pointer)
    /\ Return(p)

Init ==
    /\ slot = [v \in Versions |-> "absent"]
    /\ staging = "absent"
    /\ pointer = NotInstalled
    /\ pc = [p \in Process |-> "idle"]
    /\ copy = [p \in Process |-> NotInstalled]
    /\ target = None
    /\ running = None
    /\ tries = 0
    /\ lost = FALSE
    /\ torn = {}
    /\ faults = 0

-----------------------------------------------------------------------------
(* The updater: stage, fill, commit_slot, activate; and prune, clean_staging *)

First(v) == [active |-> v, previous |-> None, health |-> "confirmed", attempts |-> 0]

Confirmed(ptr) == [active |-> ptr.active, previous |-> ptr.previous,
                   health |-> "confirmed", attempts |-> 0]
Probation(v, previous) == [active |-> v, previous |-> previous,
                           health |-> "probation", attempts |-> 0]

(* activate: what a pointer becomes. *)
Activated(ptr, v) ==
    IF ptr = NotInstalled THEN First(v)
    ELSE IF ptr.active = v THEN Confirmed(ptr)
    ELSE Probation(v, ptr.active)

Stage(v) ==
    /\ pc["updater"] = "idle"
    /\ staging' = "partial"
    /\ target' = v
    /\ Goto("updater", "staged")
    /\ UNCHANGED <<slot, pointer, copy, running, tries, lost, torn, faults>>

(* The caller downloads, verifies and unpacks. *)
Fill ==
    /\ pc["updater"] = "staged"
    /\ staging' = "complete"
    /\ Goto("updater", "filled")
    /\ UNCHANGED <<slot, pointer, copy, target, running, tries, lost, torn, faults>>

(* commit_slot removes what is in the way, file by file, ... *)
ReplaceSlot ==
    /\ pc["updater"] = "filled"
    /\ IsDir(target)
    /\ slot' = [slot EXCEPT ![target] = "partial"]
    /\ torn' = IF target \in {pointer.active, pointer.previous} THEN torn \cup {target} ELSE torn
    /\ Goto("updater", "replace")
    /\ UNCHANGED <<staging, pointer, copy, target, running, tries, lost, faults>>

(* ... and renames the staging directory into place. *)
CommitSlot ==
    /\ \/ pc["updater"] = "filled" /\ ~IsDir(target)
       \/ pc["updater"] = "replace"
    /\ slot' = [slot EXCEPT ![target] = staging]
    /\ staging' = "absent"
    /\ torn' = torn \ {target}
    /\ Goto("updater", "committed")
    /\ UNCHANGED <<pointer, copy, target, running, tries, lost, faults>>

(* Mutant: no look at the slot. *)
ActivateUnchecked ==
    /\ pc["updater"] = "committed"
    /\ Holding("updater", pointer)
    /\ Goto("updater", "activate")
    /\ UNCHANGED <<slot, staging, pointer, target, running, tries, lost, torn, faults>>

(* activate asks for a directory and no more: one that is half removed will do. *)
Activate ==
    /\ pc["updater"] = "committed"
    /\ IsDir(target)
    /\ Holding("updater", pointer)
    /\ Goto("updater", "activate")
    /\ UNCHANGED <<slot, staging, pointer, target, running, tries, lost, torn, faults>>

(* An updater that was killed after commit_slot goes on with activate: what it
   committed is whole, or prune has removed it since, or begun to. *)
Resume(v) ==
    /\ pc["updater"] = "idle"
    /\ target' = v
    /\ Goto("updater", "committed")
    /\ UNCHANGED <<slot, staging, pointer, copy, running, tries, lost, torn, faults>>

(* The slot went away since it was committed: MissingSlot. *)
ActivateRefused ==
    /\ pc["updater"] = "committed"
    /\ ~IsDir(target)
    /\ Goto("updater", "idle")
    /\ target' = None
    /\ UNCHANGED <<slot, staging, pointer, copy, running, tries, lost, torn, faults>>

ActivateWrite ==
    /\ pc["updater"] = "activate"
    /\ WritePointer("updater", Activated(copy["updater"], target))
    /\ torn' = IF slot[target] = "partial" THEN torn \cup {target} ELSE torn
    /\ tries' = 0
    /\ target' = None
    /\ UNCHANGED <<slot, staging, running, faults>>

(* Mutant: SLOTS_RETAINED of one, the active version's. *)
KeptActiveOnly == {copy["updater"].active}
Kept == {copy["updater"].active, copy["updater"].previous}

Prune ==
    /\ pc["updater"] = "idle"
    /\ Installed
    /\ Holding("updater", pointer)
    /\ Goto("updater", "prune")
    /\ UNCHANGED <<slot, staging, pointer, target, running, tries, lost, torn, faults>>

(* A slot that cannot be removed, or not entirely, is skipped. *)
PruneSlot(v) ==
    /\ pc["updater"] = "prune"
    /\ v \notin Kept
    /\ IsDir(v)
    /\ \E left \in {"partial", "absent"} : slot' = [slot EXCEPT ![v] = left]
    /\ UNCHANGED <<staging, pointer, pc, copy, target, running, tries, lost, torn, faults>>

PruneDone ==
    /\ pc["updater"] = "prune"
    /\ Return("updater")
    /\ UNCHANGED <<slot, staging, pointer, target, running, tries, lost, torn, faults>>

CleanStaging ==
    /\ pc["updater"] = "idle"
    /\ staging' = "absent"
    /\ UNCHANGED <<slot, pointer, pc, copy, target, running, tries, lost, torn, faults>>

-----------------------------------------------------------------------------
(* The launcher *)

Counted(n, most) == IF n < most THEN n + 1 ELSE n

UsedUp == pointer.health = "probation" /\ pointer.attempts >= MaxAttempts

(* begin_launch: one more attempt is recorded before anything is started, ... *)
BeginLaunch ==
    /\ pc["launcher"] = "idle"
    /\ Installed
    /\ ~UsedUp
    /\ Holding("launcher", pointer)
    /\ Goto("launcher", "launch")
    /\ UNCHANGED <<slot, staging, pointer, target, running, tries, lost, torn, faults>>

(* ... or, when they are used up, rollback, which reads the pointer again. *)
BeginRollback ==
    /\ pc["launcher"] = "idle"
    /\ Installed
    /\ UsedUp
    /\ Goto("launcher", "rollback")
    /\ UNCHANGED <<slot, staging, pointer, copy, target, running, tries, lost, torn, faults>>

(* The application may offer to go back, and call rollback by itself. *)
RequestRollback ==
    /\ pc["app"] = "idle"
    /\ Installed
    /\ running # None
    /\ Goto("app", "rollback")
    /\ UNCHANGED <<slot, staging, pointer, copy, target, running, tries, lost, torn, faults>>

(* Mutant: there is no check that there is anything to go back to. *)
RollbackUnchecked(p) ==
    /\ pc[p] = "rollback"
    /\ Holding(p, pointer)
    /\ Goto(p, "revert")
    /\ UNCHANGED <<slot, staging, pointer, target, running, tries, lost, torn, faults>>

Rollback(p) ==
    /\ pc[p] = "rollback"
    /\ pointer.previous # None
    /\ IsDir(pointer.previous)
    /\ Holding(p, pointer)
    /\ Goto(p, "revert")
    /\ UNCHANGED <<slot, staging, pointer, target, running, tries, lost, torn, faults>>

(* NoPreviousVersion or MissingSlot: nothing is launched. *)
RollbackRefused(p) ==
    /\ pc[p] = "rollback"
    /\ ~(pointer.previous # None /\ IsDir(pointer.previous))
    /\ Goto(p, "idle")
    /\ UNCHANGED <<slot, staging, pointer, copy, target, running, tries, lost, torn, faults>>

(* resolve: what was written is started if it is there. *)
Started(p, v) == running' = IF p = "launcher" /\ IsDir(v) THEN v ELSE running

Revert(p) ==
    /\ pc[p] = "revert"
    /\ WritePointer(p, First(copy[p].previous))
    /\ Started(p, copy[p].previous)
    /\ tries' = 0
    /\ UNCHANGED <<slot, staging, target, torn, faults>>

Attempted(ptr) == [ptr EXCEPT !.attempts = Counted(@, MaxAttempts)]

(* Mutant: the attempt is recorded by the application, once it has started. *)
LaunchUnrecorded ==
    /\ pc["launcher"] = "launch"
    /\ WritePointer("launcher", copy["launcher"])
    /\ Started("launcher", copy["launcher"].active)
    /\ tries' = IF pointer'.health = "confirmed" THEN 0 ELSE Counted(tries, MaxAttempts + 1)
    /\ UNCHANGED <<slot, staging, target, torn, faults>>

Launch ==
    /\ pc["launcher"] = "launch"
    /\ WritePointer("launcher", Attempted(copy["launcher"]))
    /\ Started("launcher", copy["launcher"].active)
    /\ tries' = IF pointer'.health = "confirmed" THEN 0 ELSE Counted(tries, MaxAttempts + 1)
    /\ UNCHANGED <<slot, staging, target, torn, faults>>

-----------------------------------------------------------------------------
(* The application *)

(* confirm_healthy says nothing of the version that calls it. *)
Confirm ==
    /\ pc["app"] = "idle"
    /\ running \in Healthy
    /\ Installed
    /\ Holding("app", pointer)
    /\ Goto("app", "confirm")
    /\ UNCHANGED <<slot, staging, pointer, target, running, tries, lost, torn, faults>>

ConfirmWrite ==
    /\ pc["app"] = "confirm"
    /\ WritePointer("app", Confirmed(copy["app"]))
    /\ tries' = 0
    /\ UNCHANGED <<slot, staging, target, running, torn, faults>>

Exit ==
    /\ pc["app"] = "idle"
    /\ running # None
    /\ running' = None
    /\ UNCHANGED <<slot, staging, pointer, pc, copy, target, tries, lost, torn, faults>>

-----------------------------------------------------------------------------

(* Power is lost, or the process is killed: a removal stops anywhere. *)
Kill(p) ==
    /\ pc[p] # "idle"
    /\ faults < MaxFaults
    /\ faults' = faults + 1
    /\ Return(p)
    /\ IF p = "updater"
       THEN /\ target' = None
            /\ \/ UNCHANGED slot
               \/ pc[p] = "replace" /\ slot' = [slot EXCEPT ![target] = "absent"]
       ELSE UNCHANGED <<slot, target>>
    /\ running' = IF p = "app" THEN None ELSE running
    /\ UNCHANGED <<staging, pointer, tries, lost, torn>>

Updater ==
    \/ Fill \/ ReplaceSlot \/ CommitSlot \/ Activate \/ ActivateRefused \/ ActivateWrite
    \/ Prune \/ PruneDone \/ CleanStaging
    \/ \E v \in Versions : Stage(v) \/ Resume(v) \/ PruneSlot(v)
Launcher ==
    \/ BeginLaunch \/ BeginRollback \/ Launch
    \/ Rollback("launcher") \/ RollbackRefused("launcher") \/ Revert("launcher")
App ==
    \/ Confirm \/ ConfirmWrite \/ RequestRollback \/ Exit
    \/ Rollback("app") \/ RollbackRefused("app") \/ Revert("app")

Next == Updater \/ Launcher \/ App \/ \E p \in Process : Kill(p)

Spec == Init /\ [][Next]_vars

-----------------------------------------------------------------------------
(* Properties.  Calls overlap freely.  What the code cannot promise is named by two
   histories: after a lost update anything may be in the pointer, and a torn version is
   one whose directory commit_slot took away, or activate did not look into. *)

(* Wherever an update, a launch or a removal is interrupted, what the pointer
   names can be run (install.rs: "every step is ordered so that an interruption
   leaves a usable install"), torn versions apart. *)
UsableInstall ==
    ~lost /\ Installed => slot[pointer.active] = "complete" \/ pointer.active \in torn

(* A version on probation can be left: its predecessor is there, complete, for
   as long as the probation lasts (SLOTS_RETAINED: "one spare is what rollback
   needs"), unless the predecessor itself is torn. *)
RollbackReady ==
    ~lost /\ pointer.health = "probation" =>
        /\ pointer.previous # None
        /\ slot[pointer.previous] = "complete" \/ pointer.previous \in torn

(* A version that does not confirm itself is started MAX_LAUNCH_ATTEMPTS times at
   the most before it is rolled back, killed launches included: "a version that
   hangs or crashes still burns an attempt" (begin_launch). *)
TriesBounded == ~lost => tries <= MaxAttempts

(* Once every call has returned or was killed, what the pointer names can be run:
   the claim of install.rs:17 as it stands.  It does not hold: commit_slot removes the
   slot of the active version when that is what is installed again. *)
InterruptedIsUsable ==
    (\A p \in Process : pc[p] = "idle") /\ Installed => slot[pointer.active] = "complete"
=============================================================================
