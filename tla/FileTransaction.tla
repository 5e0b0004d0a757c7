-------------------------- MODULE FileTransaction --------------------------
(***************************************************************************)
(* applyFileTransaction (packages/cli/src/setup/transaction/apply.ts):     *)
(* installs a plan of file writes and deletes one after the other, lets    *)
(* the caller verify the result, and undoes what it did, last change       *)
(* first, if anything fails.                                               *)
(*                                                                         *)
(* Other programs share the files.  An editor knows nothing of the         *)
(* transaction; an updater (a proxy that stores a refreshed token)         *)
(* respects the lock of a private file.  Node has no conditional rename or *)
(* unlink, so a file may change between the last look at it and its        *)
(* replacement; the checks narrow that race and do not close it.           *)
(*                                                                         *)
(* An action is one file operation and the code up to the next one.  The   *)
(* lock of a private file is that of PrivateLock, reduced to its promise.  *)
(* A crash is no action: it leaves the files as they are in some state, so *)
(* what holds in every state holds after it.                               *)
(***************************************************************************)
EXTENDS Naturals, Sequences, FiniteSets

CONSTANTS
    Plans,      \* plans the transaction may be given
    Paths,
    MaxWrites,  \* bound: changes that other programs make
    MaxFaults,  \* bound: I/O errors and lock timeouts the transaction meets
    None

(* A planned change: the file existed when the plan was made (it has a     *)
(* "before" snapshot), it is deleted rather than written, it is private.   *)
PlannedChange == [path : Paths, exists : BOOLEAN, delete : BOOLEAN, private : BOOLEAN]

(* validatePlan: no target twice, and a delete has a snapshot.  *)
ValidPlan(plan) ==
    /\ \A i, j \in 1..Len(plan) : plan[i].path = plan[j].path => i = j
    /\ \A i \in 1..Len(plan) : plan[i].delete => plan[i].exists

ASSUME TransactionAssumption ==
    /\ Plans \subseteq Seq(PlannedChange)
    /\ \A plan \in Plans : ValidPlan(plan)
    /\ MaxWrites \in Nat
    /\ MaxFaults \in Nat

(* What a snapshot tells apart: the content, and one write of it from      *)
(* another (inode and time); `serial` numbers the writes of others.        *)
FileSnapshot == [content : {"before", "planned", "restored", "updated", "edited"},
                 serial  : 0..MaxWrites]

ASSUME NoneAssumption == None \notin FileSnapshot \union {"transaction", "updater"}

Own(content) == [content |-> content, serial |-> 0]

VARIABLES
    plan,
    pc,        \* the next file operation
    at,        \* the change it belongs to
    cause,     \* whose rollback runs: of a sync, a release or the transaction
    file,      \* what is at each path
    installed, \* the journal's snapshot of each written path
    saved,     \* paths whose content was backed up
    holder,    \* who holds the lock of each path
    accepted,  \* the snapshot acceptInstalledUpdate read
    broken,    \* paths whose rollback threw
    aborted,   \* the signal aborted
    updater,   \* the updater: its next step, its path, the snapshot it read
    touched,   \* paths that the editor changed
    raced,     \* paths it changed between the last check and the operation
    writes,    \* changes other programs made
    faults     \* I/O errors the transaction met

vars == <<plan, pc, at, cause, file, installed, saved, holder, accepted, broken, aborted,
          updater, touched, raced, writes, faults>>
othersVars == <<updater, touched, raced, writes>>

Forward == {"validating", "backup", "begin", "lock", "precheck", "check", "rename", "unlink",
            "sync", "release", "abandon", "abandon again"}
Verifying == {"verify", "accept lock", "accept", "validate", "accept again", "accept release",
              "accept retry", "refuse", "refuse retry"}
Backward == {"undo", "undo lock", "undo check", "undo recheck", "undo apply", "undo sync",
             "undo release", "undo retry"}
Ended == {"returned", "thrown"}

TypeOK ==
    /\ plan \in Plans
    /\ pc \in Forward \union Verifying \union Backward \union Ended
    /\ at \in 0..(Len(plan) + 1)
    /\ cause \in {"sync", "release", "transaction"}
    /\ file \in [Paths -> FileSnapshot \union {None}]
    /\ installed \in [Paths -> FileSnapshot \union {None}]
    /\ saved \subseteq Paths
    /\ holder \in [Paths -> {"transaction", "updater", None}]
    /\ accepted \in FileSnapshot \union {None}
    /\ broken \subseteq Paths
    /\ aborted \in BOOLEAN
    /\ updater \in [step : {"idle", "read", "locked", "written"}, path : Paths \union {None},
                    base : FileSnapshot \union {None}]
    /\ touched \subseteq Paths
    /\ raced \subseteq touched
    /\ writes \in 0..MaxWrites
    /\ faults \in 0..MaxFaults

Before(change) == IF change.exists THEN Own("before") ELSE None

Idle == [step |-> "idle", path |-> None, base |-> None]

Init ==
    /\ plan \in Plans
    /\ pc = "validating"
    /\ at = 1
    /\ cause = "transaction"
    /\ file = [p \in Paths |-> IF \E i \in 1..Len(plan) : plan[i].path = p /\ plan[i].exists
                               THEN Own("before") ELSE None]
    /\ installed = [p \in Paths |-> None]
    /\ saved = {}
    /\ holder = [p \in Paths |-> None]
    /\ accepted = None
    /\ broken = {}
    /\ aborted = FALSE
    /\ updater = Idle
    /\ touched = {}
    /\ raced = {}
    /\ writes = 0
    /\ faults = 0

-----------------------------------------------------------------------------
Change == plan[at]
Target == plan[at].path

Goto(step) == pc' = step /\ at' = at

(* A file operation fails on its own account. *)
Fault == faults < MaxFaults /\ faults' = faults + 1

Sets(snapshot) == file' = [file EXCEPT ![Target] = snapshot]

(* The original error reaches the transaction: it undoes what the journal  *)
(* holds, the changes before this one.                                     *)
Unwind ==
    /\ pc' = "undo"
    /\ at' = at - 1
    /\ cause' = "transaction"

(* The change was made: it is journaled and the loop goes on. *)
Journal(snapshot) ==
    /\ installed' = [installed EXCEPT ![Target] = snapshot]
    /\ pc' = "begin"
    /\ at' = at + 1

(* The operation on a file fails with nothing to undo: a private file's    *)
(* lock is released first.                                                 *)
Failed == IF Change.private THEN Goto("abandon") /\ UNCHANGED cause ELSE Unwind

(* validateTarget: the file is as the plan found it. *)
AsPlanned == file[Target] = Before(Change)

-----------------------------------------------------------------------------
(* Before the first change: validate every target, back up every file.     *)

ValidateTargets ==
    /\ pc = "validating"
    /\ IF at > Len(plan)
       THEN IF aborted THEN Goto("thrown") ELSE pc' = "backup" /\ at' = 1
       ELSE IF AsPlanned THEN pc' = pc /\ at' = at + 1 ELSE Goto("thrown")
    /\ UNCHANGED <<plan, cause, file, installed, saved, holder, accepted, broken, aborted,
                   othersVars, faults>>

(* Mutation: files to be deleted are not backed up. *)
CreateBackupsOfWrites ==
    /\ pc = "backup"
    /\ IF at > Len(plan)
       THEN pc' = "begin" /\ at' = 1 /\ UNCHANGED <<saved, faults>>
       ELSE \/ /\ saved' = IF Change.exists /\ ~ Change.delete THEN saved \union {Target} ELSE saved
               /\ pc' = pc /\ at' = at + 1
               /\ UNCHANGED faults
            \/ Fault /\ Goto("thrown") /\ UNCHANGED saved
    /\ UNCHANGED <<plan, cause, file, installed, holder, accepted, broken, aborted, othersVars>>

CreateBackups ==
    /\ pc = "backup"
    /\ IF at > Len(plan)
       THEN pc' = "begin" /\ at' = 1 /\ UNCHANGED <<saved, faults>>
       ELSE \/ /\ saved' = IF Change.exists THEN saved \union {Target} ELSE saved
               /\ pc' = pc /\ at' = at + 1
               /\ UNCHANGED faults
            \/ Fault /\ Goto("thrown") /\ UNCHANGED saved
    /\ UNCHANGED <<plan, cause, file, installed, holder, accepted, broken, aborted, othersVars>>

-----------------------------------------------------------------------------
(* Installing.                                                             *)

(* Mutation: an abort is noticed before the last change was journaled. *)
BeginUnjournaled ==
    /\ pc = "begin"
    /\ IF aborted
       THEN pc' = "undo" /\ at' = (IF at > 2 THEN at - 2 ELSE 0) /\ cause' = "transaction"
       ELSE /\ IF at > Len(plan) THEN pc' = "verify" /\ at' = 1
               ELSE Goto(IF Change.private THEN "lock" ELSE "check")
            /\ UNCHANGED cause
    /\ UNCHANGED <<plan, file, installed, saved, holder, accepted, broken, aborted,
                   othersVars, faults>>

Begin ==
    /\ pc = "begin"
    /\ IF aborted THEN Unwind
       ELSE /\ IF at > Len(plan) THEN pc' = "verify" /\ at' = 1
               ELSE Goto(IF Change.private THEN "lock" ELSE "check")
            /\ UNCHANGED cause
    /\ UNCHANGED <<plan, file, installed, saved, holder, accepted, broken, aborted,
                   othersVars, faults>>

(* withPrivateFileLock waits, and gives up after its timeout: at once if   *)
(* the lock is one this transaction could not release, and at the price of *)
(* a fault otherwise.                                                      *)
Takes(next) ==
    /\ holder[Target] = None
    /\ holder' = [holder EXCEPT ![Target] = "transaction"]
    /\ Goto(next)

TakesNot ==
    /\ UNCHANGED holder
    /\ \/ holder[Target] = "transaction" /\ UNCHANGED faults
       \/ Fault

Lock ==
    /\ pc = "lock"
    /\ \/ Takes(IF Change.delete THEN "check" ELSE "precheck") /\ UNCHANGED <<cause, faults>>
       \/ TakesNot /\ Unwind
    /\ UNCHANGED <<plan, file, installed, saved, accepted, broken, aborted, othersVars>>

(* writePrivateFileAtomically looks before it writes the temporary file... *)
Precheck ==
    /\ pc = "precheck"
    /\ IF AsPlanned THEN Goto("check") /\ UNCHANGED cause ELSE Failed
    /\ UNCHANGED <<plan, file, installed, saved, holder, accepted, broken, aborted,
                   othersVars, faults>>

(* ... and every change looks right before the rename or the unlink.  *)
Check ==
    /\ pc = "check"
    /\ \/ /\ AsPlanned
          /\ Goto(IF Change.delete THEN "unlink" ELSE "rename")
          /\ UNCHANGED <<cause, faults>>
       \/ ~ AsPlanned /\ Failed /\ UNCHANGED faults
       \/ Fault /\ Failed
    /\ raced' = raced \ {Target}
    /\ UNCHANGED <<plan, file, installed, saved, holder, accepted, broken, aborted,
                   updater, touched, writes>>

Rename ==
    /\ pc = "rename"
    /\ \/ /\ Sets(Own("planned"))
          /\ IF Change.private THEN Goto("sync") /\ UNCHANGED installed
             ELSE Journal(Own("planned"))
          /\ UNCHANGED <<cause, faults>>
       \/ Fault /\ Failed /\ UNCHANGED <<file, installed>>
    /\ UNCHANGED <<plan, saved, holder, accepted, broken, aborted, othersVars>>

Unlink ==
    /\ pc = "unlink"
    /\ \/ /\ file[Target] # None
          /\ Sets(None)
          /\ Goto("sync")
          /\ UNCHANGED <<cause, faults>>
       \/ file[Target] = None /\ Failed /\ UNCHANGED <<file, faults>>
       \/ Fault /\ Failed /\ UNCHANGED file
    /\ UNCHANGED <<plan, installed, saved, holder, accepted, broken, aborted, othersVars>>

(* The directory is synced; if that fails the change is undone at once. *)
Sync ==
    /\ pc = "sync"
    /\ \/ /\ IF Change.private THEN Goto("release") /\ UNCHANGED installed ELSE Journal(None)
          /\ UNCHANGED <<cause, faults>>
       \/ Fault /\ Goto("undo check") /\ cause' = "sync" /\ UNCHANGED installed
    /\ UNCHANGED <<plan, file, saved, holder, accepted, broken, aborted, othersVars>>

(* The lock is released; if that fails the change is undone, still under   *)
(* the lock, unless the lock is no longer ours.                            *)
Release ==
    /\ pc = "release"
    /\ \/ /\ holder' = [holder EXCEPT ![Target] = None]
          /\ Journal(IF Change.delete THEN None ELSE Own("planned"))
          /\ UNCHANGED <<cause, faults, broken>>
       \/ /\ Fault
          /\ Goto("undo check")
          /\ cause' = "release"
          /\ UNCHANGED <<holder, installed, broken>>
    /\ UNCHANGED <<plan, file, saved, accepted, aborted, othersVars>>

(* Mutation: the release is not tried again. *)
AbandonOnce ==
    /\ pc \in {"abandon", "abandon again"}
    /\ \/ holder' = [holder EXCEPT ![Target] = None] /\ Unwind /\ UNCHANGED faults
       \/ Fault /\ UNCHANGED holder /\ Unwind
    /\ UNCHANGED <<plan, file, installed, saved, accepted, broken, aborted, othersVars>>

(* A release on behalf of an error: tried twice, then left behind. *)
Abandon ==
    /\ pc \in {"abandon", "abandon again"}
    /\ \/ holder' = [holder EXCEPT ![Target] = None] /\ Unwind /\ UNCHANGED faults
       \/ /\ Fault
          /\ UNCHANGED holder
          /\ IF pc = "abandon" THEN Goto("abandon again") /\ UNCHANGED cause ELSE Unwind
    /\ UNCHANGED <<plan, file, installed, saved, accepted, broken, aborted, othersVars>>

-----------------------------------------------------------------------------
(* Verifying.  The caller verifies one selection after the other and may   *)
(* report, through acceptInstalledUpdate, that a private file it installed *)
(* was changed on purpose: tokens rotate while a server is contacted.      *)

Verify ==
    /\ pc = "verify"
    /\ IF at > Len(plan)
       THEN IF aborted THEN Unwind ELSE Goto("returned") /\ UNCHANGED cause
       ELSE \/ pc' = pc /\ at' = at + 1 /\ UNCHANGED cause
            \/ Change.private /\ ~ Change.delete /\ Goto("accept lock") /\ UNCHANGED cause
    /\ UNCHANGED <<plan, file, installed, saved, holder, accepted, broken, aborted,
                   othersVars, faults>>

(* verify() rejects: every change is undone. *)
Rejected ==
    /\ pc' = "undo"
    /\ at' = Len(plan)
    /\ cause' = "transaction"

VerifyFails ==
    /\ pc = "verify"
    /\ Rejected
    /\ UNCHANGED <<plan, file, installed, saved, holder, accepted, broken, aborted,
                   othersVars, faults>>

AcceptLock ==
    /\ pc = "accept lock"
    /\ \/ Takes("accept") /\ UNCHANGED <<cause, faults>>
       \/ TakesNot /\ Rejected
    /\ UNCHANGED <<plan, file, installed, saved, accepted, broken, aborted, othersVars>>

(* The file is read, the caller's check decides, the file is read again. *)
Accept ==
    /\ pc = "accept"
    /\ accepted' = file[Target]
    /\ Goto(IF file[Target] = None THEN "refuse" ELSE "validate")
    /\ UNCHANGED <<plan, cause, file, installed, saved, holder, broken, aborted, othersVars,
                   faults>>

(* The check passes only a profile of the same identity. *)
ValidateUpdate ==
    /\ pc = "validate"
    /\ \/ accepted.content \in {"planned", "updated"} /\ file[Target] = accepted
          /\ Goto("accept again")
       \/ Goto("refuse")
    /\ UNCHANGED <<plan, cause, file, installed, saved, holder, accepted, broken, aborted,
                   othersVars, faults>>

AcceptAgain ==
    /\ pc = "accept again"
    /\ Goto(IF file[Target] = accepted THEN "accept release" ELSE "refuse")
    /\ UNCHANGED <<plan, cause, file, installed, saved, holder, accepted, broken, aborted,
                   othersVars, faults>>

(* The journal learns the new snapshot even if the lock cannot be released. *)
AcceptRelease ==
    /\ pc \in {"accept release", "accept retry"}
    /\ installed' = [installed EXCEPT ![Target] = accepted]
    /\ \/ /\ holder' = [holder EXCEPT ![Target] = None]
          /\ IF pc = "accept release" THEN pc' = "verify" /\ at' = at + 1 /\ UNCHANGED cause
             ELSE Rejected
          /\ UNCHANGED faults
       \/ /\ Fault
          /\ IF pc = "accept release" THEN Goto("accept retry") /\ UNCHANGED cause ELSE Rejected
          /\ UNCHANGED holder
    /\ UNCHANGED <<plan, file, saved, accepted, broken, aborted, othersVars>>

Refuse ==
    /\ pc \in {"refuse", "refuse retry"}
    /\ \/ holder' = [holder EXCEPT ![Target] = None] /\ Rejected /\ UNCHANGED faults
       \/ /\ Fault
          /\ UNCHANGED holder
          /\ IF pc = "refuse" THEN Goto("refuse retry") /\ UNCHANGED cause ELSE Rejected
    /\ UNCHANGED <<plan, file, installed, saved, accepted, broken, aborted, othersVars>>

-----------------------------------------------------------------------------
(* Undoing one change: rollback, rollbackPrivateWrite and rollbackDelete.  *)

(* The rollback of a change is over.  What follows depends on its cause:   *)
(* the transaction goes on with the change before, a change that failed    *)
(* releases its lock, a release that failed is tried once more.            *)
Undone ==
    IF cause = "transaction" /\ ~ Change.private
    THEN pc' = "undo" /\ at' = at - 1 /\ UNCHANGED cause
    ELSE IF cause = "transaction" THEN Goto("undo release") /\ UNCHANGED cause
    ELSE IF cause = "release" THEN Goto("abandon again") /\ UNCHANGED cause
    ELSE Failed

(* It threw: the error is reported with the original one. *)
Breaks == broken' = broken \union {Target} /\ Undone

Undo ==
    /\ pc = "undo"
    /\ Goto(IF at = 0 THEN "thrown" ELSE IF Change.private THEN "undo lock" ELSE "undo check")
    /\ UNCHANGED <<plan, cause, file, installed, saved, holder, accepted, broken, aborted,
                   othersVars, faults>>

UndoLock ==
    /\ pc = "undo lock"
    /\ \/ Takes("undo check") /\ UNCHANGED <<broken, faults>>
       \/ /\ TakesNot
          /\ broken' = broken \union {Target}
          /\ pc' = "undo" /\ at' = at - 1
    /\ UNCHANGED <<plan, cause, file, installed, saved, accepted, aborted, othersVars>>

(* What a rollback expects to find: what was installed or accepted there. *)
Installed == IF Change.delete THEN None
             ELSE IF cause = "transaction" THEN installed[Target] ELSE Own("planned")

(* validateInstalled for a write.  A delete looks twice: a file that is    *)
(* there again is left alone, one that appears meanwhile is an error.      *)
UndoCheck ==
    /\ pc = "undo check"
    /\ \/ /\ file[Target] = Installed
          /\ Goto(IF Change.delete THEN "undo recheck" ELSE "undo apply")
          /\ UNCHANGED <<cause, broken, faults>>
       \/ /\ file[Target] # Installed
          /\ IF Change.delete THEN Undone /\ UNCHANGED broken ELSE Breaks
          /\ UNCHANGED faults
       \/ Fault /\ Breaks
    /\ raced' = raced \ {Target}
    /\ UNCHANGED <<plan, file, installed, saved, holder, accepted, aborted,
                   updater, touched, writes>>

(* Mutation: the target is not looked at again before the rename. *)
UndoRecheckBlind ==
    /\ pc = "undo recheck"
    /\ Goto("undo apply")
    /\ UNCHANGED <<cause, broken, faults>>
    /\ raced' = raced \ {Target}
    /\ UNCHANGED <<plan, file, installed, saved, holder, accepted, aborted,
                   updater, touched, writes>>

UndoRecheck ==
    /\ pc = "undo recheck"
    /\ \/ /\ file[Target] = None
          /\ Goto("undo apply")
          /\ UNCHANGED <<cause, broken, faults>>
       \/ file[Target] # None /\ Breaks /\ UNCHANGED faults
       \/ Fault /\ Breaks
    /\ raced' = raced \ {Target}
    /\ UNCHANGED <<plan, file, installed, saved, holder, accepted, aborted,
                   updater, touched, writes>>

(* The old content is renamed into place, or the new file unlinked; only   *)
(* an unlink without a lock puts up with a file that is gone already.      *)
UndoApply ==
    /\ pc = "undo apply"
    /\ \/ /\ Change.exists \/ ~ Change.private \/ file[Target] # None
          /\ Sets(IF Change.exists THEN Own("restored") ELSE None)
          /\ IF Change.private \/ Change.delete THEN Goto("undo sync") /\ UNCHANGED cause
             ELSE Undone
          /\ UNCHANGED <<broken, faults>>
       \/ /\ ~ Change.exists /\ Change.private /\ file[Target] = None
          /\ Breaks
          /\ UNCHANGED <<file, faults>>
       \/ Fault /\ Breaks /\ UNCHANGED file
    /\ UNCHANGED <<plan, installed, saved, holder, accepted, aborted, othersVars>>

UndoSync ==
    /\ pc = "undo sync"
    /\ \/ Undone /\ UNCHANGED <<broken, faults>>
       \/ Fault /\ Breaks
    /\ UNCHANGED <<plan, file, installed, saved, holder, accepted, aborted, othersVars>>

UndoRelease ==
    /\ pc \in {"undo release", "undo retry"}
    /\ \/ /\ holder' = [holder EXCEPT ![Target] = None]
          /\ pc' = "undo" /\ at' = at - 1
          /\ UNCHANGED <<broken, faults>>
       \/ /\ Fault
          /\ UNCHANGED holder
          /\ broken' = broken \union {Target}
          /\ IF pc = "undo release" THEN Goto("undo retry") ELSE pc' = "undo" /\ at' = at - 1
    /\ UNCHANGED <<plan, cause, file, installed, saved, accepted, aborted, othersVars>>

-----------------------------------------------------------------------------
(* Everybody else.                                                         *)

Others == <<plan, pc, at, cause, installed, saved, accepted, broken, aborted, faults>>

Writes == writes < MaxWrites /\ writes' = writes + 1

(* The editor saves or deletes a file, whatever is going on.  *)
Edit(p) ==
    /\ pc \notin Ended
    /\ Writes
    /\ \E s \in {[content |-> "edited", serial |-> writes'], None} \ {file[p]} :
         file' = [file EXCEPT ![p] = s]
    /\ touched' = touched \union {p}
    /\ raced' = IF pc \in {"rename", "unlink", "undo apply"} /\ Target = p
                THEN raced \union {p} ELSE raced
    /\ UNCHANGED <<Others, holder, updater>>

(* The updater reads a private file, and later replaces what it read, in   *)
(* writePrivateFileAtomically: under the lock, if nothing changed.         *)
UpdaterReads(p) ==
    /\ pc \notin Ended
    /\ updater = Idle
    /\ writes < MaxWrites
    /\ \E i \in 1..Len(plan) : plan[i].path = p /\ plan[i].private
    /\ file[p] # None
    /\ updater' = [step |-> "read", path |-> p, base |-> file[p]]
    /\ UNCHANGED <<Others, file, holder, touched, raced, writes>>

UpdaterLocks ==
    /\ updater.step = "read"
    /\ holder[updater.path] = None
    /\ holder' = [holder EXCEPT ![updater.path] = "updater"]
    /\ updater' = [updater EXCEPT !.step = "locked"]
    /\ UNCHANGED <<Others, file, touched, raced, writes>>

UpdaterWrites ==
    /\ updater.step = "locked"
    /\ file[updater.path] = updater.base
    /\ Writes
    /\ file' = [file EXCEPT ![updater.path] = [content |-> "updated", serial |-> writes']]
    /\ updater' = [updater EXCEPT !.step = "written"]
    /\ UNCHANGED <<Others, holder, touched, raced>>

UpdaterReleases ==
    /\ updater.step \in {"locked", "written"}
    /\ holder' = [holder EXCEPT ![updater.path] = None]
    /\ updater' = Idle
    /\ UNCHANGED <<Others, file, touched, raced, writes>>

UpdaterGivesUp ==
    /\ updater.step = "read"
    /\ updater' = Idle
    /\ UNCHANGED <<Others, file, holder, touched, raced, writes>>

(* The signal is looked at in these places only. *)
Abort ==
    /\ pc \in {"validating", "begin", "verify"}
    /\ ~ aborted
    /\ aborted' = TRUE
    /\ UNCHANGED <<plan, pc, at, cause, file, installed, saved, holder, accepted, broken,
                   othersVars, faults>>

-----------------------------------------------------------------------------
Installs ==
    \/ ValidateTargets \/ CreateBackups \/ Begin \/ Lock \/ Precheck \/ Check
    \/ Rename \/ Unlink \/ Sync \/ Release \/ Abandon

Verifies ==
    \/ Verify \/ VerifyFails \/ AcceptLock \/ Accept \/ ValidateUpdate \/ AcceptAgain
    \/ AcceptRelease \/ Refuse

Undoes ==
    \/ Undo \/ UndoLock \/ UndoCheck \/ UndoRecheck \/ UndoApply \/ UndoSync \/ UndoRelease

Updates ==
    \/ \E p \in Paths : UpdaterReads(p)
    \/ UpdaterLocks \/ UpdaterWrites \/ UpdaterReleases \/ UpdaterGivesUp

Next ==
    \/ Installs \/ Verifies \/ Undoes
    \/ Updates \/ Abort
    \/ \E p \in Paths : Edit(p)

Spec == Init /\ [][Next]_vars

-----------------------------------------------------------------------------
(* Properties.                                                             *)

Restored(change) ==
    IF change.exists
    THEN file[change.path] \in {Own("before"), Own("restored")}
    ELSE file[change.path] = None

Applied(change) ==
    file[change.path] = IF change.delete THEN None ELSE Own("planned")

(* Somebody else's work is at the path: the editor was there, or the       *)
(* updater wrote what the transaction did not accept.                      *)
Foreign(p) ==
    \/ p \in touched
    \/ /\ file[p] # None
       /\ file[p].content = "updated"
       /\ file[p] # installed[p]

(* All or nothing: a transaction that returns has made every change, and   *)
(* one that throws has unmade every change except those whose rollback it  *)
(* reports; in between there is only the work of others.                   *)
AllOrNothing ==
    \A i \in 1..Len(plan) : LET p == plan[i].path IN
        /\ pc = "returned" => Applied(plan[i]) \/ Foreign(p) \/ file[p] = installed[p]
        /\ pc = "thrown" => Restored(plan[i]) \/ Foreign(p) \/ p \in broken

(* Failures are contained: a rollback that fails stops no other, so every  *)
(* path that is not restored took a fault or a write of somebody else, and *)
(* a lock stays behind only if its release failed twice.                   *)
FaultsAreContained ==
    pc \in {"returned", "thrown"} =>
        /\ Cardinality(broken) <= faults + writes
        /\ 2 * Cardinality({p \in Paths : holder[p] = "transaction"}) <= faults

(* What the plan replaces or deletes is in a backup at every moment, so    *)
(* also after a crash.                                                     *)
BackedUp ==
    \A i \in 1..Len(plan) : LET p == plan[i].path IN
        plan[i].exists /\ p \notin touched /\ (file[p] = None \/ file[p] = Own("planned"))
        => p \in saved

(* A step of the transaction replaces or removes what somebody else wrote  *)
(* only in the admitted cases: what the editor saved, if it was saved      *)
(* after the last look at the file; what an updater wrote, if exactly that *)
(* was accepted before, so between programs that use the lock there is no  *)
(* race.                                                                   *)
OthersWorkSurvives ==
    [][\A p \in Paths :
        /\ writes' = writes
        /\ file[p] # None
        /\ file'[p] # file[p]
        => /\ file[p].content = "edited" => p \in raced
           /\ file[p].content = "updated" => installed[p] = file[p]]_vars
=============================================================================
