-------------------------- MODULE InstallerProofs --------------------------
(***************************************************************************)
(* Theorems about Installer, for every set of versions, every number of    *)
(* attempts and of kills, with calls that overlap in every way.            *)
(***************************************************************************)
EXTENDS Installer, TLAPS

USE InstallerAssumption DEF Process

-----------------------------------------------------------------------------
(* Types.  TypeOK becomes inductive with three facts: an updater at work has a
   target, a process about to change a pointer has read one, and one about to go
   back has read one with a predecessor. *)

Updating == pc["updater"] \in {"staged", "filled", "replace", "committed", "activate"}
Changing(p) == pc[p] \in {"revert", "launch", "confirm"}

TypeInv ==
    /\ TypeOK
    /\ Updating => target \in Versions
    /\ \A p \in Process : Changing(p) => copy[p] \in Pointer
    /\ \A p \in Process : pc[p] = "revert" => copy[p].previous \in Versions

LEMMA TypeInit == Init => TypeInv
<1> SUFFICES ASSUME Init PROVE TypeInv
  OBVIOUS
<1>1. lost \in BOOLEAN /\ torn \subseteq Versions
  BY Zenon DEF Init
<1>2. TypeOK
  BY <1>1 DEF Init, TypeOK, Directory, Pc
<1> QED BY <1>2 DEF Init, TypeInv, Updating, Changing

(* What activate, confirm_healthy, begin_launch and rollback write, given a
   pointer that is typed. *)
LEMMA PointerTypes ==
    /\ \A v \in Versions : First(v) \in Pointer
    /\ \A v \in Versions, ptr \in Pointer \cup {NotInstalled} : Activated(ptr, v) \in Pointer
    /\ \A ptr \in Pointer :
          /\ Confirmed(ptr) \in Pointer
          /\ Attempted(ptr) \in Pointer
          /\ ptr # NotInstalled
          /\ ptr.previous # None => ptr.previous \in Versions
  BY DEF First, Confirmed, Probation, Activated, Attempted, Counted, Pointer, NotInstalled, None

LEMMA UpdaterTypes == TypeInv /\ Updater => TypeInv'
<1> SUFFICES ASSUME TypeInv, Updater PROVE TypeInv'
  OBVIOUS
<1> USE DEF TypeInv, TypeOK, Updating, Changing, Pc, Directory, Goto, Holding, Return
<1>1. CASE Fill
  BY <1>1 DEF Fill
<1>2. CASE ReplaceSlot
  BY <1>2 DEF ReplaceSlot
<1>3. CASE CommitSlot
  BY <1>3 DEF CommitSlot
<1>4. CASE Activate
  BY <1>4 DEF Activate
<1>5. CASE ActivateRefused
  BY <1>5 DEF ActivateRefused
<1>6. CASE ActivateWrite
  <2>1. Activated(copy["updater"], target) \in Pointer
    BY <1>6, PointerTypes DEF ActivateWrite
  <2> QED BY <1>6, <2>1 DEF ActivateWrite, WritePointer
<1>7. CASE Prune
  BY <1>7 DEF Prune
<1>8. CASE PruneDone
  BY <1>8 DEF PruneDone
<1>9. CASE CleanStaging
  BY <1>9 DEF CleanStaging
<1>10. ASSUME NEW v \in Versions, Stage(v) \/ Resume(v) \/ PruneSlot(v) PROVE TypeInv'
  <2>1. CASE Stage(v)
    BY <2>1 DEF Stage
  <2>2. CASE Resume(v)
    BY <2>2 DEF Resume
  <2>3. CASE PruneSlot(v)
    BY <2>3 DEF PruneSlot
  <2> QED BY <1>10, <2>1, <2>2, <2>3
<1> QED BY <1>1, <1>2, <1>3, <1>4, <1>5, <1>6, <1>7, <1>8, <1>9, <1>10 DEF Updater

LEMMA LauncherTypes == TypeInv /\ (Launcher \/ App) => TypeInv'
<1> SUFFICES ASSUME TypeInv, Launcher \/ App PROVE TypeInv'
  OBVIOUS
<1> USE DEF TypeInv, TypeOK, Updating, Changing, Pc, Goto, Holding, Return
<1>1. CASE BeginLaunch
  BY <1>1 DEF BeginLaunch, Installed
<1>2. CASE BeginRollback
  BY <1>2 DEF BeginRollback
<1>3. ASSUME NEW p \in {"launcher", "app"}, Rollback(p) PROVE TypeInv'
  <2>1. pointer \in Pointer /\ pointer.previous \in Versions
    BY <1>3, PointerTypes DEF Rollback, NotInstalled
  <2> QED BY <1>3, <2>1 DEF Rollback
<1>4. ASSUME NEW p \in {"launcher", "app"}, RollbackRefused(p) PROVE TypeInv'
  BY <1>4 DEF RollbackRefused
<1>5. ASSUME NEW p \in {"launcher", "app"}, Revert(p) PROVE TypeInv'
  <2>1. copy[p].previous \in Versions /\ First(copy[p].previous) \in Pointer
    BY <1>5, PointerTypes DEF Revert
  <2> QED BY <1>5, <2>1 DEF Revert, WritePointer, Started
<1>6. CASE Launch
  <2>1. copy["launcher"] \in Pointer /\ Attempted(copy["launcher"]) \in Pointer
    BY <1>6, PointerTypes DEF Launch
  <2>2. copy["launcher"].active \in Versions
    BY <2>1 DEF Pointer
  <2>3. tries' \in 0..(MaxAttempts + 1)
    BY <1>6 DEF Launch, Counted
  <2> QED BY <1>6, <2>1, <2>2, <2>3 DEF Launch, WritePointer, Started
<1>7. CASE Confirm
  BY <1>7 DEF Confirm, Installed
<1>8. CASE RequestRollback
  BY <1>8 DEF RequestRollback
<1>9. CASE ConfirmWrite
  <2>1. Confirmed(copy["app"]) \in Pointer
    BY <1>9, PointerTypes DEF ConfirmWrite
  <2> QED BY <1>9, <2>1 DEF ConfirmWrite, WritePointer
<1>10. CASE Exit
  BY <1>10 DEF Exit
<1> QED BY <1>1, <1>2, <1>3, <1>4, <1>5, <1>6, <1>7, <1>8, <1>9, <1>10 DEF Launcher, App

LEMMA KillTypes == ASSUME TypeInv, NEW p \in Process, Kill(p) PROVE TypeInv'
<1> USE DEF TypeInv, TypeOK, Updating, Changing, Pc, Directory, Goto, Holding, Return
<1>1. CASE p = "updater"
  BY <1>1 DEF Kill
<1>2. CASE p # "updater"
  BY <1>2 DEF Kill
<1> QED BY <1>1, <1>2

LEMMA TypeStep == TypeInv /\ [Next]_vars => TypeInv'
<1> SUFFICES ASSUME TypeInv, [Next]_vars PROVE TypeInv'
  OBVIOUS
<1>1. CASE UNCHANGED vars
  BY <1>1 DEF vars, TypeInv, TypeOK, Updating, Changing
<1> QED BY <1>1, UpdaterTypes, LauncherTypes, KillTypes DEF Next

(* Every file, pointer and local has its type: above all, no pointer is ever
   written that names no version (install.rs, rollback and activate). *)
THEOREM TypeCorrect == Spec => []TypeOK
<1>1. TypeInv => TypeOK
  BY DEF TypeInv
<1> QED BY <1>1, TypeInit, TypeStep, PTL DEF Spec

-----------------------------------------------------------------------------
(* Safety.  As long as no update was lost, a writer has read the pointer that it
   writes over, so that what it writes is as sound as what is there.  The updater's
   own part is that it has a directory to activate (Ready), and that prune keeps what
   the pointer names even if others have written it since (KeepsNamed). *)

Roles ==
    /\ pc["updater"] \in {"idle", "staged", "filled", "replace", "committed", "activate", "prune"}
    /\ pc["launcher"] \in {"idle", "rollback", "revert", "launch"}
    /\ pc["app"] \in {"idle", "rollback", "revert", "confirm"}

Whole(v) == slot[v] = "complete" \/ v \in torn

(* Both slots of a pointer are whole, and one on probation has both. *)
Sound(ptr) ==
    /\ ptr # NotInstalled => Whole(ptr.active)
    /\ ptr.previous # None => Whole(ptr.previous)
    /\ ptr.health = "probation" => ptr.previous # None

Ready ==
    /\ pc["updater"] \in {"filled", "replace"} => staging = "complete"
    /\ pc["updater"] = "replace" => slot[target] = "partial"
    /\ pc["updater"] = "activate" => IsDir(target)
KeepsNamed ==
    ~lost /\ pc["updater"] = "prune" => {pointer.active, pointer.previous} \subseteq Kept \cup {None}

Slots == Roles /\ (~lost => Sound(pointer)) /\ Ready /\ KeepsNamed

(* While a version is on probation, its launches are among the recorded attempts. *)
Counts ==
    /\ ~lost => tries <= IF pointer.health = "probation" THEN pointer.attempts ELSE 0
    /\ pc["launcher"] = "launch" /\ copy["launcher"].health = "probation" =>
           copy["launcher"].attempts < MaxAttempts

LEMMA SafeInit == Init => Slots /\ Counts
  BY DEF Init, Slots, Roles, Sound, Ready, KeepsNamed, Counts, NotInstalled, None

(* A step of the launcher or the application leaves the directories as they are. *)
LEMMA SameSlots ==
    ASSUME UNCHANGED <<slot, torn>>
    PROVE  \A ptr : Sound(ptr)' <=> Sound(ptr)
  BY DEF Sound, Whole

(* What activate writes, given that the version's directory is there. *)
LEMMA SoundActivation ==
    ASSUME TypeInv, Slots, ActivateWrite, ~lost'
    PROVE  Sound(pointer)'
<1>1. copy["updater"] = pointer /\ ~lost /\ pointer' = Activated(pointer, target)
  BY DEF ActivateWrite, WritePointer
<1>2. Sound(pointer)
  BY <1>1 DEF Slots
<1>3. \A v \in Versions : Whole(v) => Whole(v)'
  BY DEF ActivateWrite, Whole
<1>4. PICK v \in Versions : v = target /\ Whole(v)'
  <2>1. target \in Versions /\ slot[target] \in {"partial", "complete"}
    BY DEF ActivateWrite, Slots, Ready, IsDir, TypeInv, TypeOK, Updating, Directory
  <2>2. slot' = slot /\ (slot[target] = "partial" => target \in torn')
    BY DEF ActivateWrite
  <2> QED BY <2>1, <2>2 DEF Whole
<1>5. pointer # NotInstalled => pointer \in Pointer
  BY DEF TypeInv, TypeOK
<1>6. CASE pointer = NotInstalled
  BY <1>1, <1>4, <1>6 DEF Activated, First, Sound, None
<1>7. CASE pointer \in Pointer
  <2>1. PICK a \in Versions : a = pointer.active /\ Whole(a)'
    BY <1>2, <1>3, <1>7, PointerTypes DEF Sound, Pointer
  <2>2. PICK b \in Versions \cup {None} : b = pointer.previous /\ (b # None => Whole(b)')
    BY <1>2, <1>3, <1>7, PointerTypes DEF Sound, Pointer
  <2>3. a # None /\ v # None /\ pointer # NotInstalled
    BY <1>7, PointerTypes
  <2>4. CASE pointer.active = v
    BY <1>1, <1>4, <2>1, <2>2, <2>3, <2>4 DEF Activated, Confirmed, Sound
  <2>5. CASE pointer.active # v
    BY <1>1, <1>4, <2>1, <2>3, <2>5 DEF Activated, Probation, Sound
  <2> QED BY <2>4, <2>5
<1> QED BY <1>5, <1>6, <1>7

LEMMA SlotsByUpdater == TypeInv /\ Slots /\ Updater => Slots'
<1> SUFFICES ASSUME TypeInv, Slots, Updater PROVE Slots'
  OBVIOUS
<1> USE DEF TypeInv, TypeOK, Slots, Roles, Sound, Whole, Updating, Ready, KeepsNamed, Kept,
            Goto, Holding, Return, Directory, Pc, None, NotInstalled, IsDir
<1>1. CASE Fill
  BY <1>1 DEF Fill
<1>2. CASE ReplaceSlot
  BY <1>2 DEF ReplaceSlot
<1>3. CASE CommitSlot
  BY <1>3 DEF CommitSlot
<1>4. CASE Activate
  BY <1>4 DEF Activate
<1>5. CASE ActivateRefused
  BY <1>5 DEF ActivateRefused
<1>6. CASE ActivateWrite
  <2>1. ~lost' => Sound(pointer)'
    BY <1>6, SoundActivation
  <2> HIDE DEF Sound, Whole
  <2> QED BY <1>6, <2>1 DEF ActivateWrite, WritePointer
<1>7. CASE Prune
  BY <1>7 DEF Prune
<1>8. CASE PruneDone
  BY <1>8 DEF PruneDone
<1>9. CASE CleanStaging
  BY <1>9 DEF CleanStaging
<1>10. ASSUME NEW v \in Versions, Stage(v) \/ Resume(v) \/ PruneSlot(v) PROVE Slots'
  <2>1. CASE Stage(v)
    BY <2>1 DEF Stage
  <2>2. CASE Resume(v)
    BY <2>2 DEF Resume
  <2>3. CASE PruneSlot(v)
    <3>1. ~lost => v # pointer.active /\ v # pointer.previous
      BY <2>3 DEF PruneSlot
    <3> QED BY <2>3, <3>1 DEF PruneSlot
  <2> QED BY <1>10, <2>1, <2>2, <2>3
<1> QED BY <1>1, <1>2, <1>3, <1>4, <1>5, <1>6, <1>7, <1>8, <1>9, <1>10 DEF Updater

LEMMA SlotsByLauncher == TypeInv /\ Slots /\ (Launcher \/ App) => Slots'
<1> SUFFICES ASSUME TypeInv, Slots, Launcher \/ App PROVE Slots'
  OBVIOUS
<1>1. UNCHANGED <<slot, torn, staging, target>>
  BY DEF Launcher, App, BeginLaunch, BeginRollback, Rollback, RollbackRefused, Revert, Launch,
         Confirm, ConfirmWrite, RequestRollback, Exit
<1>2. /\ pc'["updater"] = pc["updater"]
      /\ copy'["updater"] = copy["updater"]
  BY DEF Launcher, App, BeginLaunch, BeginRollback, Rollback, RollbackRefused, Revert, Launch,
         Confirm, ConfirmWrite, RequestRollback, Exit, WritePointer, Goto, Holding, Return,
         TypeInv, TypeOK
<1>3. Roles'
  BY DEF Launcher, App, BeginLaunch, BeginRollback, Rollback, RollbackRefused, Revert, Launch,
         Confirm, ConfirmWrite, RequestRollback, Exit, WritePointer, Goto, Return,
         TypeInv, TypeOK, Slots, Roles
<1>4. Ready'
  BY <1>1, <1>2 DEF Slots, Ready, IsDir
<1>5. CASE UNCHANGED <<pointer, lost>>
  BY <1>1, <1>2, <1>3, <1>4, <1>5, SameSlots DEF Slots, KeepsNamed, Kept
<1>6. CASE /\ lost' \/ pointer \in Pointer
           /\ lost' \/ pointer' \in {Attempted(pointer), Confirmed(pointer)}
           /\ lost' \/ ~lost
  BY <1>1, <1>2, <1>3, <1>4, <1>6
     DEF Slots, Sound, Whole, KeepsNamed, Kept, Attempted, Confirmed, Pointer, NotInstalled
<1>7. CASE /\ lost' \/ (pointer \in Pointer /\ pointer.previous \in Versions)
           /\ lost' \/ pointer' = First(pointer.previous)
           /\ lost' \/ ~lost
  BY <1>1, <1>2, <1>3, <1>4, <1>7
     DEF Slots, Sound, Whole, KeepsNamed, Kept, First, Pointer, NotInstalled, None
<1>8. CASE Launch
  <2>1. copy["launcher"] \in Pointer
    BY <1>8 DEF Launch, TypeInv, Changing
  <2> QED BY <1>6, <1>8, <2>1 DEF Launch, WritePointer
<1>9. CASE ConfirmWrite
  <2>1. copy["app"] \in Pointer
    BY <1>9 DEF ConfirmWrite, TypeInv, Changing
  <2> QED BY <1>6, <1>9, <2>1 DEF ConfirmWrite, WritePointer
<1>10. ASSUME NEW p \in {"launcher", "app"}, Revert(p) PROVE Slots'
  <2>1. copy[p] \in Pointer /\ copy[p].previous \in Versions
    BY <1>10 DEF Revert, TypeInv, Changing
  <2>2. lost' \/ (~lost /\ copy[p] = pointer /\ pointer' = First(copy[p].previous))
    BY <1>10 DEF Revert, WritePointer
  <2>3. lost' \/ (pointer \in Pointer /\ pointer.previous \in Versions)
    BY <2>1, <2>2
  <2>4. (lost' \/ pointer' = First(pointer.previous)) /\ (lost' \/ ~lost)
    BY <2>2
  <2> QED BY <1>7, <2>3, <2>4
<1> QED BY <1>5, <1>8, <1>9, <1>10
        DEF Launcher, App, BeginLaunch, BeginRollback, Rollback, RollbackRefused,
            Confirm, RequestRollback, Exit

LEMMA SlotsByKill == ASSUME TypeInv, Slots, NEW p \in Process, Kill(p) PROVE Slots'
<1> USE DEF TypeInv, TypeOK, Slots, Roles, Sound, Whole, Ready, KeepsNamed, Kept, Updating, IsDir,
            Goto, Holding, Return, Directory, Pc, None, NotInstalled
<1>1. CASE p = "updater" /\ UNCHANGED slot
  BY <1>1 DEF Kill
<1>2. CASE p = "updater" /\ pc[p] = "replace" /\ slot' = [slot EXCEPT ![target] = "absent"]
  BY <1>2 DEF Kill
<1>3. CASE p # "updater"
  BY <1>3 DEF Kill
<1> QED BY <1>1, <1>2, <1>3 DEF Kill

LEMMA SlotsStep == TypeInv /\ Slots /\ [Next]_vars => Slots'
<1> SUFFICES ASSUME TypeInv, Slots, [Next]_vars PROVE Slots'
  OBVIOUS
<1>1. CASE UNCHANGED vars
  BY <1>1 DEF vars, Slots, Roles, Sound, Whole, Ready, KeepsNamed, Kept, IsDir
<1> QED BY <1>1, SlotsByUpdater, SlotsByLauncher, SlotsByKill DEF Next

LEMMA SlotsAlways == Spec => [](TypeInv /\ Slots)
  BY TypeInit, SafeInit, TypeStep, SlotsStep, PTL DEF Spec

(* Until an update of the pointer is lost, what it names can be run at every moment,
   whatever overlaps and whatever is killed, but for a version whose own directory was
   removed under it or was activated half removed (install.rs, "Crash consistency"). *)
THEOREM AlwaysUsable == Spec => []UsableInstall
<1>1. Slots => UsableInstall
  BY DEF Slots, Sound, Whole, UsableInstall, Installed
<1> QED BY <1>1, SlotsAlways, PTL

(* With the same exceptions, the predecessor of a version on probation is there and
   whole: prune and the next update leave it alone (install.rs, prune). *)
THEOREM AlwaysRevertible == Spec => []RollbackReady
<1>1. Slots => RollbackReady
  BY DEF Slots, Sound, Whole, RollbackReady
<1> QED BY <1>1, SlotsAlways, PTL

(* Only a launch adds to tries, and it writes an attempt with it. *)
LEMMA CountsStep == TypeInv /\ Slots /\ Counts /\ [Next]_vars => Counts'
<1> SUFFICES ASSUME TypeInv, Slots, Counts, [Next]_vars PROVE Counts'
  OBVIOUS
<1> USE DEF TypeInv, TypeOK, Slots, Roles, Counts, Goto, Holding, Return, Pc
<1>1. CASE Updater
  <2>1. CASE ActivateWrite
    <3>1. Activated(copy["updater"], target) \in Pointer
      BY <2>1, PointerTypes DEF ActivateWrite, Updating
    <3> QED BY <2>1, <3>1 DEF ActivateWrite, WritePointer, Pointer
  <2>2. CASE Fill \/ ReplaceSlot \/ CommitSlot \/ Activate \/ ActivateRefused \/ Prune
             \/ PruneDone \/ CleanStaging
    BY <2>2 DEF Fill, ReplaceSlot, CommitSlot, Activate, ActivateRefused, Prune, PruneDone,
                CleanStaging
  <2>3. ASSUME NEW v \in Versions, Stage(v) \/ Resume(v) \/ PruneSlot(v) PROVE Counts'
    BY <2>3 DEF Stage, Resume, PruneSlot
  <2> QED BY <1>1, <2>1, <2>2, <2>3 DEF Updater
<1>2. CASE BeginLaunch
  <2>1. pointer \in Pointer
    BY <1>2 DEF BeginLaunch, Installed
  <2> QED BY <1>2, <2>1 DEF BeginLaunch, UsedUp, Pointer
<1>3. CASE Launch
  <2>1. copy["launcher"] \in Pointer
    BY <1>3 DEF Launch, Changing
  <2>2. ~lost' => copy["launcher"] = pointer /\ ~lost
    BY <1>3 DEF Launch, WritePointer
  <2>3. pc'["launcher"] = "idle" /\ pointer' = Attempted(copy["launcher"])
    BY <1>3 DEF Launch, WritePointer
  <2>4. tries' = IF pointer'.health = "confirmed" THEN 0 ELSE Counted(tries, MaxAttempts + 1)
    BY <1>3 DEF Launch
  <2> QED BY <1>3, <2>1, <2>2, <2>3, <2>4 DEF Launch, Attempted, Counted, Pointer
<1>4. ASSUME NEW p \in {"launcher", "app"}, Rollback(p) \/ RollbackRefused(p) PROVE Counts'
  BY <1>4 DEF Rollback, RollbackRefused
<1>5. ASSUME NEW p \in {"launcher", "app"}, Revert(p) PROVE Counts'
  BY <1>5 DEF Revert, WritePointer, First
<1>6. CASE Confirm
  BY <1>6 DEF Confirm
<1>7. CASE ConfirmWrite
  BY <1>7 DEF ConfirmWrite, WritePointer, Confirmed
<1>8. CASE BeginRollback \/ RequestRollback \/ Exit
  BY <1>8 DEF BeginRollback, RequestRollback, Exit
<1>9. ASSUME NEW p \in Process, Kill(p) PROVE Counts'
  BY <1>9 DEF Kill
<1>10. CASE UNCHANGED vars
  BY <1>10 DEF vars
<1> QED BY <1>1, <1>2, <1>3, <1>4, <1>5, <1>6, <1>7, <1>8, <1>9, <1>10 DEF Next, Launcher, App

(* Until an update of the pointer is lost, a version on probation is started
   MAX_LAUNCH_ATTEMPTS times at the most (install.rs, begin_launch). *)
THEOREM TriesAreBounded == Spec => []TriesBounded
<1>1. TypeInv /\ Counts => TriesBounded
  BY DEF TypeInv, TypeOK, Counts, TriesBounded, Pointer, NotInstalled
<1> QED BY <1>1, TypeInit, SafeInit, TypeStep, SlotsStep, CountsStep, PTL DEF Spec
=============================================================================
