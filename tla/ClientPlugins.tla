--------------------------- MODULE ClientPlugins ---------------------------
(***************************************************************************)
(* The registry of client plugins (packages/cli/src/client-plugins.ts):    *)
(* commands of several processes install, remove and load adapters below   *)
(* one directory.  An installed adapter is a container, named after its    *)
(* package, that points to a module graph beside it.  Every entry to the   *)
(* registry takes its lock, completes or reverts an interrupted promotion  *)
(* from the journal, and sweeps module graphs that nobody needs.           *)
(*                                                                         *)
(* An action is one file operation and the code up to the next one; rm of  *)
(* a directory is two, since it is not atomic.  The lock is that of        *)
(* PrivateLock, reduced to its promise: one live process holds it, and a   *)
(* dead one loses it.                                                      *)
(***************************************************************************)
EXTENDS Naturals, FiniteSets

CONSTANTS
    Processes,        \* each runs one command; its new container has its name
    Packages,         \* a package names the container it came with at first
    MaxFaults,        \* bound: I/O errors and lock timeouts
    PointersReadable, \* reading a pointer in the sweep never fails
    None

ASSUME PluginsAssumption ==
    /\ Processes \intersect Packages = {}
    /\ None \notin Processes \union Packages
    /\ MaxFaults \in Nat
    /\ PointersReadable \in BOOLEAN

Containers == Processes \union Packages

Commands == [kind : {"install", "remove", "load"}, package : Packages]

(* The journal of a promotion: the target, and what it replaces. *)
Journals == [package : Packages, backup : Containers \union {None}]

ASSUME NoneAssumption == None \notin Journals

VARIABLES
    command,   \* what each process was started for
    pc,        \* its next file operation
    entry,     \* which visit to the registry that belongs to
    status,    \* what recovery found on this visit
    aside,     \* the container it moves out of the way or drops
    outcome,   \* what the command reported
    holder,    \* who took the registry's lock last
    journal,
    place,     \* where each container is
    debris,    \* containers whose removal has begun
    graph,     \* where the module graph of each container is
    leases,    \* lease files: <<process, container>>
    confirmed, \* promotions that a recovery completed
    faults

vars == <<command, pc, entry, status, aside, outcome, holder, journal, place, debris,
          graph, leases, confirmed, faults>>
files == <<journal, place, debris, graph, leases, confirmed>>

Entries == {"first", "promote", "confirm", "cleanup", "load", "unload", "remove", "after"}
Recovering == {"recover", "judge", "remove target", "put back", "check restored", "clear",
               "drop backup", "sweep"}
Operating == {"conflict", "move graph", "point", "journal", "move old", "move new", "accept",
              "take back", "give back", "unjournal", "load", "unload", "find", "move away",
              "bring back"}
Releasing == {"release", "fail"}
Outside == {"enter", "stage", "unstage", "use", "discard", "ended", "crashed"}

TypeOK ==
    /\ command \in [Processes -> Commands]
    /\ pc \in [Processes -> Recovering \union Operating \union Releasing \union Outside]
    /\ entry \in [Processes -> Entries]
    /\ status \in [Processes -> {"none", "completed", "reverted"}]
    /\ aside \in [Processes -> Containers \union {None}]
    /\ outcome \in [Processes -> {"none", "installed", "removed", "loaded", "failed"}]
    /\ holder \in Processes \union {None}
    /\ journal \in Journals \union {None}
    /\ place \in [Containers -> {"nowhere", "stage", "active", "backup", "inactive"}]
    /\ debris \subseteq Containers
    /\ graph \in [Containers -> {"nowhere", "stage", "root"}]
    /\ leases \subseteq Processes \X Containers
    /\ confirmed \subseteq Processes
    /\ faults \in 0..MaxFaults

FirstEntry == [install |-> "first", remove |-> "remove", load |-> "load"]

Init ==
    /\ command \in [Processes -> Commands]
    /\ pc = [p \in Processes |-> "enter"]
    /\ entry = [p \in Processes |-> FirstEntry[command[p].kind]]
    /\ status = [p \in Processes |-> "none"]
    /\ aside = [p \in Processes |-> None]
    /\ outcome = [p \in Processes |-> "none"]
    /\ holder = None
    /\ journal = None
    /\ \E installed \in SUBSET Packages :
         /\ place = [c \in Containers |-> IF c \in installed THEN "active" ELSE "nowhere"]
         /\ graph = [c \in Containers |-> IF c \in installed THEN "root" ELSE "nowhere"]
    /\ debris = {}
    /\ leases = {}
    /\ confirmed = {}
    /\ faults = 0

-----------------------------------------------------------------------------
PackageOf(c) == IF c \in Packages THEN c ELSE command[c].package

Active(package) == {c \in Containers : place[c] = "active" /\ PackageOf(c) = package}

Alive(p) == pc[p] \notin {"ended", "crashed"}

Locked == holder # None /\ Alive(holder)

(* The structure a loader accepts: metadata, pointer and module graph. *)
Whole(c) == c \notin debris /\ graph[c] = "root"

Goto(p, step) == pc' = [pc EXCEPT ![p] = step]

(* A file operation fails on its own account. *)
Fault == faults < MaxFaults /\ faults' = faults + 1

Moves(c, to) == place' = [place EXCEPT ![c] = to]

(* A rename that is synced: done, failed before, or failed after the rename. *)
Renames(p, c, to, done, failed, halfway) ==
    \/ Moves(c, to) /\ Goto(p, done) /\ UNCHANGED faults
    \/ Fault /\ Goto(p, failed) /\ UNCHANGED place
    \/ Fault /\ Moves(c, to) /\ Goto(p, halfway)

(* rm -r of a container: it is broken before it is gone. *)
Deletes(p, c, done, failed) ==
    /\ debris' = debris \union {c}
    /\ \/ c \notin debris /\ UNCHANGED <<pc, place, faults>>
       \/ c \in debris /\ Moves(c, "nowhere") /\ Goto(p, done) /\ UNCHANGED faults
       \/ Fault /\ Goto(p, failed) /\ UNCHANGED place

-----------------------------------------------------------------------------
(* withClientPluginRegistry: the lock, then recovery, then the sweep.      *)

(* The visit is over; a visit that failed may end the command.  *)
Continue(p, step, next, result) ==
    /\ Goto(p, step)
    /\ entry' = [entry EXCEPT ![p] = next]
    /\ outcome' = [outcome EXCEPT ![p] = result]

AfterFailure(p) ==
    \/ /\ entry[p] \in {"promote", "confirm"}
       /\ Continue(p, "unstage", "cleanup", "failed")
    \/ /\ entry[p] = "after"
       /\ Continue(p, "ended", "after", "removed")
    \/ /\ entry[p] \notin {"promote", "confirm", "after"}
       /\ Continue(p, "ended", entry[p], "failed")

(* withInstalledClientAdapters leaves without recovery and sweep.  *)
Enter(p) ==
    /\ pc[p] = "enter"
    /\ \/ /\ ~ Locked
          /\ holder' = p
          /\ Goto(p, IF entry[p] = "unload" THEN "unload" ELSE "recover")
          /\ UNCHANGED <<entry, outcome, faults>>
       \/ Fault /\ AfterFailure(p) /\ UNCHANGED holder
    /\ UNCHANGED <<command, status, aside, files>>

(* The journal is read, and the directories it names are looked for. *)
RecoverClientPluginPromotion(p) ==
    /\ pc[p] = "recover"
    /\ \/ journal = None /\ Goto(p, "sweep")
       \/ /\ journal # None
          /\ LET target == Active(journal.package) # {}
                 update == journal.backup # None
                 backup == update /\ place[journal.backup] = "backup"
             IN \/ target /\ (backup \/ ~ update) /\ Goto(p, "judge")
                \/ target /\ update /\ ~ backup /\ Goto(p, "check restored")
                \/ ~ target /\ backup /\ Goto(p, "put back")
                \/ ~ target /\ ~ update /\ Goto(p, "clear")
                \/ ~ target /\ update /\ ~ backup /\ Goto(p, "fail")
    /\ status' = [status EXCEPT ![p] = "none"]
    /\ UNCHANGED <<command, entry, aside, outcome, holder, files, faults>>

RecoveryFails(p) ==
    /\ pc[p] = "recover"
    /\ Fault
    /\ Goto(p, "fail")
    /\ UNCHANGED <<command, entry, status, aside, outcome, holder, files>>

(* Mutation: the backup is dropped before the journal is cleared. *)
JudgeDropsFirst(p) ==
    /\ pc[p] = "judge"
    /\ status' = [status EXCEPT ![p] = "completed"]
    /\ aside' = [aside EXCEPT ![p] = journal.backup]
    /\ Goto(p, IF journal.backup = None THEN "clear" ELSE "drop backup")
    /\ UNCHANGED <<command, entry, outcome, holder, files, faults>>

(* The promotion is completed if the new adapter loads.  One that its own  *)
(* promoter accepted and waits for fails to load for an I/O error only.    *)
Judge(p) ==
    /\ pc[p] = "judge"
    /\ \E c \in Active(journal.package) :
         \/ /\ Whole(c)
            /\ status' = [status EXCEPT ![p] = "completed"]
            /\ Goto(p, "clear")
            /\ UNCHANGED faults
         \/ /\ IF c \in Processes /\ entry[c] = "confirm" /\ Whole(c)
               THEN Fault ELSE UNCHANGED faults
            /\ Goto(p, "remove target")
            /\ UNCHANGED status
    /\ UNCHANGED <<command, entry, aside, outcome, holder, files>>

RemoveTarget(p) ==
    /\ pc[p] = "remove target"
    /\ \E c \in Active(journal.package) :
         Deletes(p, c, IF journal.backup = None THEN "clear" ELSE "put back", "fail")
    /\ status' = [status EXCEPT ![p] = "reverted"]
    /\ UNCHANGED <<command, entry, aside, outcome, holder, journal, graph, leases, confirmed>>

PutBack(p) ==
    /\ pc[p] = "put back"
    /\ Renames(p, journal.backup, "active", "check restored", "fail", "fail")
    /\ UNCHANGED <<command, entry, status, aside, outcome, holder, journal, debris, graph,
                   leases, confirmed>>

CheckRestored(p) ==
    /\ pc[p] = "check restored"
    /\ status' = [status EXCEPT ![p] = "reverted"]
    /\ IF \A c \in Active(journal.package) : Whole(c)
       THEN \/ Goto(p, "clear") /\ UNCHANGED faults
            \/ Fault /\ Goto(p, "fail")
       ELSE Goto(p, "fail") /\ UNCHANGED faults
    /\ UNCHANGED <<command, entry, aside, outcome, holder, files>>

(* clearPromotionJournal: unlink and sync. *)
Clears(p, done, failed) ==
    /\ \/ journal' = None /\ Goto(p, done) /\ UNCHANGED faults
       \/ journal' \in {None, journal} /\ Fault /\ Goto(p, failed)
    /\ confirmed' = IF journal # None /\ journal' = None /\ status[p] = "completed"
                    THEN confirmed \union (Active(journal.package) \intersect Processes)
                    ELSE confirmed

(* Mutation: the backup is forgotten with the journal. *)
ClearKeepsBackup(p) ==
    /\ pc[p] = "clear"
    /\ Clears(p, "sweep", "fail")
    /\ UNCHANGED <<command, entry, status, aside, outcome, holder, place, debris, graph, leases>>

Clear(p) ==
    /\ pc[p] = "clear"
    /\ aside' = [aside EXCEPT ![p] = IF status[p] = "completed" THEN journal.backup
                                           ELSE None]
    /\ Clears(p, IF status[p] = "completed" /\ journal.backup # None THEN "drop backup"
                 ELSE "sweep", "fail")
    /\ UNCHANGED <<command, entry, status, outcome, holder, place, debris, graph, leases>>

(* A backup that cannot be removed is reported as a warning. *)
DropBackup(p) ==
    /\ pc[p] = "drop backup"
    /\ Deletes(p, aside[p], "sweep", "sweep")
    /\ UNCHANGED <<command, entry, status, aside, outcome, holder, journal, graph, leases,
                   confirmed>>

(* Mutation: leases are not looked at. *)
NeedlessUnleased(unread) ==
    {c \in Containers : graph[c] = "root" /\ (place[c] = "active" => c \in unread \union debris)}

(* Module graphs that no lease of a live process and no active container   *)
(* refers to, as far as the pointers could be read.                        *)
Needless(unread) ==
    {c \in Containers :
        /\ graph[c] = "root"
        /\ \A lease \in leases : lease[2] = c => ~ Alive(lease[1])
        /\ place[c] = "active" => c \in unread \union debris}

LiveLeases == {lease \in leases : Alive(lease[1])}

Operation(p) ==
    CASE entry[p] = "promote" -> "conflict"
      [] entry[p] = "load"    -> "load"
      [] entry[p] = "remove"  -> "find"
      [] OTHER                -> "release"

(* Every removal is tried; only the directory itself must be readable.  *)
SweepUnreferencedModuleGraphs(p) ==
    /\ pc[p] = "sweep"
    /\ \E unread \in IF PointersReadable THEN {{}} ELSE SUBSET Containers :
       \E removed \in SUBSET Needless(unread) :
         /\ graph' = [c \in Containers |-> IF c \in removed THEN "nowhere" ELSE graph[c]]
         /\ \/ /\ unread = {} /\ removed = Needless({})
               /\ leases' = LiveLeases
               /\ Goto(p, Operation(p))
               /\ UNCHANGED faults
            \/ /\ Fault
               /\ leases' \in {LiveLeases, leases}
               /\ \E step \in {Operation(p), "fail"} : Goto(p, step)
    /\ UNCHANGED <<command, entry, status, aside, outcome, holder, journal, place, debris,
                   confirmed>>

-----------------------------------------------------------------------------
(* The end of a visit.  The lock is released; if that fails, what the      *)
(* visit did is rolled back under the lock.                                *)

AfterSuccess(p) ==
    \/ entry[p] = "first"   /\ Continue(p, "stage", "promote", "none")
    \/ entry[p] = "promote" /\ Continue(p, "enter", "confirm", "none")
    \/ entry[p] = "confirm" /\ Continue(p, "unstage", "cleanup",
                                 IF status[p] = "reverted" THEN "failed" ELSE "installed")
    \/ entry[p] = "load"    /\ Continue(p, "use", "unload", "loaded")
    \/ entry[p] = "remove"  /\ Continue(p, "discard", "after", "none")
    \/ entry[p] = "after"   /\ Continue(p, "ended", "after", "removed")
    \/ /\ entry[p] \in {"cleanup", "unload"}
       /\ Continue(p, "ended", entry[p], outcome[p])

(* Local variables that are not needed any more. *)
Forgets(p) ==
    /\ status' = [status EXCEPT ![p] = "none"]
    /\ aside' = [aside EXCEPT ![p] = None]

RollBack(p) ==
    CASE entry[p] = "promote" -> "take back"
      [] entry[p] = "load"    -> "unload"
      [] entry[p] = "remove"  -> "bring back"
      [] OTHER                -> "fail"

Release(p) ==
    /\ pc[p] = "release"
    /\ \/ /\ holder' = None
          /\ AfterSuccess(p)
          /\ IF entry[p] = "remove" THEN UNCHANGED <<status, aside>> ELSE Forgets(p)
          /\ UNCHANGED faults
       \/ /\ Fault
          /\ Goto(p, RollBack(p))
          /\ UNCHANGED <<holder, entry, outcome, status, aside>>
    /\ UNCHANGED <<command, files>>

(* A release on behalf of an error leaves the lock behind if it fails.  *)
Fail(p) ==
    /\ pc[p] = "fail"
    /\ \/ holder' = None /\ UNCHANGED faults
       \/ Fault /\ UNCHANGED holder
    /\ AfterFailure(p)
    /\ Forgets(p)
    /\ UNCHANGED <<command, files>>

-----------------------------------------------------------------------------
(* installClientAdapter: stage, promote, confirm.                          *)

(* npm fills a private directory, and the adapter in it is loaded.  *)
Stage(p) ==
    /\ pc[p] = "stage"
    /\ \/ /\ Moves(p, "stage")
          /\ graph' = [graph EXCEPT ![p] = "stage"]
          /\ Goto(p, "enter")
          /\ UNCHANGED <<entry, outcome>>
       \/ Continue(p, "unstage", "cleanup", "failed") /\ UNCHANGED <<place, graph>>
    /\ UNCHANGED <<command, status, aside, holder, journal, debris, leases, confirmed, faults>>

(* The stage is removed; a failed command then visits the registry again.  *)
Unstage(p) ==
    /\ pc[p] = "unstage"
    /\ \/ /\ place' = [place EXCEPT ![p] = IF @ = "stage" THEN "nowhere" ELSE @]
          /\ graph' = [graph EXCEPT ![p] = IF @ = "stage" THEN "nowhere" ELSE @]
          /\ Goto(p, IF outcome[p] = "failed" THEN "enter" ELSE "ended")
          /\ UNCHANGED faults
       \/ Fault /\ Goto(p, "ended") /\ UNCHANGED <<place, graph>>
    /\ UNCHANGED <<command, entry, status, aside, outcome, holder, journal, debris, leases,
                   confirmed>>

Promoting == <<command, entry, status, outcome, holder, debris, leases, confirmed>>

(* Its id may be that of another adapter.  *)
AssertNoConflict(p) ==
    /\ pc[p] = "conflict"
    /\ \E step \in {"move graph", "fail"} : Goto(p, step)
    /\ UNCHANGED <<Promoting, aside, journal, place, graph, faults>>

MoveGraph(p) ==
    /\ pc[p] = "move graph"
    /\ \/ graph' = [graph EXCEPT ![p] = "root"] /\ Goto(p, "point") /\ UNCHANGED faults
       \/ Fault /\ graph' \in {graph, [graph EXCEPT ![p] = "root"]} /\ Goto(p, "fail")
    /\ UNCHANGED <<Promoting, aside, journal, place>>

(* The pointer is written, and the target is looked for. *)
WritePointer(p) ==
    /\ pc[p] = "point"
    /\ \/ Goto(p, "journal") /\ UNCHANGED faults
       \/ Fault /\ Goto(p, "fail")
    /\ \E old \in IF Active(command[p].package) = {} THEN {None} ELSE Active(command[p].package) :
         aside' = [aside EXCEPT ![p] = old]
    /\ UNCHANGED <<Promoting, journal, place, graph>>

(* Mutation: the journal names no backup. *)
WriteJournalForgetful(p) ==
    /\ pc[p] = "journal"
    /\ journal' = [package |-> command[p].package, backup |-> None]
    /\ Goto(p, IF aside[p] = None THEN "move new" ELSE "move old")
    /\ UNCHANGED <<Promoting, aside, place, graph, faults>>

WriteJournal(p) ==
    /\ pc[p] = "journal"
    /\ LET new == [package |-> command[p].package, backup |-> aside[p]]
       IN \/ /\ journal' = new
             /\ Goto(p, IF aside[p] = None THEN "move new" ELSE "move old")
             /\ UNCHANGED faults
          \/ Fault /\ journal' \in {new, journal} /\ Goto(p, "fail")
    /\ UNCHANGED <<Promoting, aside, place, graph>>

MoveOld(p) ==
    /\ pc[p] = "move old"
    /\ Renames(p, aside[p], "backup", "move new", "unjournal", "give back")
    /\ UNCHANGED <<Promoting, aside, journal, graph>>

GiveBackIfMoved(p) == IF aside[p] = None THEN "unjournal" ELSE "give back"

MoveNew(p) ==
    /\ pc[p] = "move new"
    /\ Renames(p, p, "active", "accept", GiveBackIfMoved(p), "take back")
    /\ UNCHANGED <<Promoting, aside, journal, graph>>

(* Mutation: a rejected adapter stays where it is. *)
AcceptForgets(p) ==
    /\ pc[p] = "accept"
    /\ \E step \in {"release", "unjournal"} : Goto(p, step)
    /\ UNCHANGED <<Promoting, aside, journal, place, graph, faults>>

(* The adapter is loaded from where it is now. *)
Accept(p) ==
    /\ pc[p] = "accept"
    /\ \E step \in {"release", "take back"} : Goto(p, step)
    /\ UNCHANGED <<Promoting, aside, journal, place, graph, faults>>

(* The promotion is undone, in the order in which it was done. *)
TakeBack(p) ==
    /\ pc[p] = "take back"
    /\ \/ Moves(p, "stage") /\ Goto(p, GiveBackIfMoved(p)) /\ UNCHANGED faults
       \/ Fault /\ Goto(p, "fail") /\ UNCHANGED place
    /\ UNCHANGED <<Promoting, aside, journal, graph>>

GiveBack(p) ==
    /\ pc[p] = "give back"
    /\ Renames(p, aside[p], "active", "unjournal", "fail", "fail")
    /\ UNCHANGED <<Promoting, aside, journal, graph>>

Unjournal(p) ==
    /\ pc[p] = "unjournal"
    /\ \/ journal' = None /\ UNCHANGED faults
       \/ Fault /\ journal' \in {None, journal}
    /\ Goto(p, "fail")
    /\ UNCHANGED <<Promoting, aside, place, graph>>

-----------------------------------------------------------------------------
(* withInstalledClientAdapters: load under leases, use, drop the leases.   *)

Own(p) == {p} \X Containers

(* Adapters that do not load are reported as unavailable.  *)
Load(p) ==
    /\ pc[p] = "load"
    /\ \E loaded \in SUBSET {c \in Containers : place[c] = "active" /\ Whole(c)} :
         leases' = leases \union ({p} \X loaded)
    /\ \/ Goto(p, "release") /\ UNCHANGED faults
       \/ Fault /\ Goto(p, "unload")
    /\ UNCHANGED <<command, entry, status, aside, outcome, holder, journal, place, debris,
                   graph, confirmed>>

Use(p) ==
    /\ pc[p] = "use"
    /\ Goto(p, "enter")
    /\ UNCHANGED <<command, entry, status, aside, outcome, holder, files, faults>>

Unload(p) ==
    /\ pc[p] = "unload"
    /\ \/ /\ leases' = leases \ Own(p)
          /\ Goto(p, IF entry[p] = "unload" THEN "release" ELSE "fail")
          /\ UNCHANGED faults
       \/ /\ Fault
          /\ \E dropped \in SUBSET (leases \intersect Own(p)) : leases' = leases \ dropped
          /\ Goto(p, "fail")
    /\ UNCHANGED <<command, entry, status, aside, outcome, holder, journal, place, debris,
                   graph, confirmed>>

-----------------------------------------------------------------------------
(* removeClientAdapter: rename, and only then delete.                      *)

Removing == <<command, entry, status, outcome, holder, journal, graph, leases, confirmed>>

Find(p) ==
    /\ pc[p] = "find"
    /\ \/ \E c \in Active(command[p].package) :
            aside' = [aside EXCEPT ![p] = c] /\ Goto(p, "move away") /\ UNCHANGED faults
       \/ /\ IF Active(command[p].package) = {} THEN UNCHANGED faults ELSE Fault
          /\ Goto(p, "fail")
          /\ UNCHANGED aside
    /\ UNCHANGED <<Removing, place, debris>>

MoveAway(p) ==
    /\ pc[p] = "move away"
    /\ Renames(p, aside[p], "inactive", "release", "fail", "bring back")
    /\ UNCHANGED <<Removing, aside, debris>>

BringBack(p) ==
    /\ pc[p] = "bring back"
    /\ Renames(p, aside[p], "active", "fail", "fail", "fail")
    /\ UNCHANGED <<Removing, aside, debris>>

Discard(p) ==
    /\ pc[p] = "discard"
    /\ Deletes(p, aside[p], "enter", "enter")
    /\ aside' = [aside EXCEPT ![p] = IF pc'[p] = "enter" THEN None ELSE @]
    /\ UNCHANGED Removing

-----------------------------------------------------------------------------
(* The process dies.  A lock it holds can be taken from then on.  *)
Crash(p) ==
    /\ Alive(p)
    /\ Goto(p, "crashed")
    /\ Forgets(p)
    /\ UNCHANGED <<command, entry, outcome, holder, files, faults>>

Recovers(p) ==
    \/ RecoverClientPluginPromotion(p) \/ RecoveryFails(p) \/ Judge(p) \/ RemoveTarget(p)
    \/ PutBack(p) \/ CheckRestored(p) \/ Clear(p) \/ DropBackup(p)
    \/ SweepUnreferencedModuleGraphs(p)

Installs(p) ==
    \/ Stage(p) \/ Unstage(p) \/ AssertNoConflict(p) \/ MoveGraph(p) \/ WritePointer(p)
    \/ WriteJournal(p) \/ MoveOld(p) \/ MoveNew(p) \/ Accept(p) \/ TakeBack(p)
    \/ GiveBack(p) \/ Unjournal(p)

Loads(p) == Load(p) \/ Use(p) \/ Unload(p)

Removes(p) == Find(p) \/ MoveAway(p) \/ BringBack(p) \/ Discard(p)

Next ==
    \E p \in Processes :
        \/ Enter(p) \/ Release(p) \/ Fail(p)
        \/ Recovers(p) \/ Installs(p) \/ Loads(p) \/ Removes(p)
        \/ Crash(p)

Spec == Init /\ [][Next]_vars

-----------------------------------------------------------------------------
(* Properties.                                                             *)

(* An adapter that was installed and that nobody removes is never lost,    *)
(* whatever crashes and fails: a complete container of its package is      *)
(* active or is the backup that the journal names.                         *)
AdapterSurvives ==
    \A package \in Packages :
        /\ place[package] # "nowhere" \/ package \in debris
        /\ \A p \in Processes : command[p] # [kind |-> "remove", package |-> package]
        => \E c \in Containers :
             /\ PackageOf(c) = package
             /\ Whole(c)
             /\ \/ place[c] = "active"
                \/ place[c] = "backup" /\ journal # None /\ journal.backup = c

(* Between visits the registry is whole or has a way to become so.  With   *)
(* no promotion to recover a package has one active container at most, and *)
(* that is complete with its module graph; otherwise, whatever the journal *)
(* says, its recovery has a way to go that no file's state refuses.        *)
WholeOrRecoverable ==
    /\ ~ Locked /\ journal = None =>
        \A package \in Packages :
            /\ Cardinality(Active(package)) <= 1
            /\ \A c \in Active(package) : Whole(c)
    /\ ~ Locked /\ journal # None =>
        LET target == Active(journal.package)
            backup == {c \in {journal.backup} \ {None} : place[c] = "backup"}
        IN /\ journal.backup # None => target \union backup # {}
           /\ \A c \in backup : Whole(c)
           /\ journal.backup # None /\ backup = {} => \A c \in target : Whole(c)

(* What a running program has loaded stays on disk, although others update *)
(* and remove adapters meanwhile: it may still import from there.          *)
LeasedGraphsStay ==
    \A lease \in leases : Alive(lease[1]) => graph[lease[2]] = "root"

(* Without I/O errors a command that says "installed" tells the truth,     *)
(* whichever process recovers its promotion; one that says "failed" does   *)
(* if no process crashes either.                                           *)
HonestOutcome ==
    \A p \in Processes : faults = 0 =>
        /\ outcome[p] = "installed" => p \in confirmed
        /\ outcome[p] = "failed" /\ (\A q \in Processes : pc[q] # "crashed") =>
             place[p] # "active"

(* Commands that end without errors and crashes leave nothing behind but   *)
(* active containers, their module graphs, and what a program had loaded.  *)
NothingLeftBehind ==
    faults = 0 /\ (\A p \in Processes : pc[p] = "ended") =>
        /\ journal = None
        /\ leases = {}
        /\ \A c \in Containers :
             /\ place[c] \in {"active", "nowhere"}
             /\ graph[c] = "root" =>
                  \/ place[c] = "active"
                  \/ \E p \in Processes : outcome[p] = "loaded"
=============================================================================
