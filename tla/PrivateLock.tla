---------------------------- MODULE PrivateLock ----------------------------
(***************************************************************************)
(* withPrivateFileLock (packages/cli/src/setup/transaction/                *)
(* private-lock.ts): the advisory lock file that serialises every private  *)
(* read-modify-write of the command line programs, between calls of one    *)
(* process and between processes.                                          *)
(*                                                                         *)
(* The lock is a file created with link(2), so at most one call succeeds   *)
(* and its content is complete from the start.  It names the owner's       *)
(* process; a waiter that finds the process gone removes the file while it *)
(* holds the directory <lock>.reap.  An action is one file system call     *)
(* with the code that follows it up to the next one.                       *)
(***************************************************************************)
EXTENDS Naturals

CONSTANTS
    Calls,      \* calls of withPrivateFileLock, each with a token of its own
    Processes,
    ProcessOf,  \* the process that makes each call
    Undoable,   \* the calls given a rollback option
    Container,  \* owners are recorded with their process start identity
    Readable,   \* reading a live process's identity from /proc never fails
    MaxFaults,  \* bound: I/O errors that one call meets
    None

ASSUME LockAssumption ==
    /\ ProcessOf \in [Calls -> Processes]
    /\ Undoable \subseteq Calls
    /\ Container \in BOOLEAN
    /\ Readable \in BOOLEAN
    /\ MaxFaults \in Nat
    /\ None \notin Calls

VARIABLES
    pc,        \* what each call does next
    lock,      \* the call whose token the lock file holds
    reaper,    \* the call that made the .reap directory
    seen,      \* the lock file a waiter found first
    failing,   \* calls that hold an error to throw
    stopped,   \* calls whose signal, or 30 s timeout, aborted
    effective, \* calls whose operation completed and was not rolled back
    faults,    \* I/O errors each call met
    alive,     \* processes that did not crash
    reused     \* dead processes whose pid was given to another process

vars == <<pc, lock, reaper, seen, failing, stopped, effective, faults, alive, reused>>
processVars == <<alive, reused>>

Acquiring == {"check", "link", "linked", "undo", "exists", "stat", "read", "judge", "mkdir",
              "restat", "reread", "rejudge", "reap", "unmark", "wait"}
Releasing == {"validate", "unlink", "recover", "rollback", "again", "unlink again"}
Ended == {"returned", "thrown", "crashed"}

TypeOK ==
    /\ pc \in [Calls -> Acquiring \union Releasing \union Ended \union {"operation"}]
    /\ lock \in Calls \union {None}
    /\ reaper \in Calls \union {None}
    /\ seen \in [Calls -> Calls \union {None}]
    /\ failing \subseteq Calls
    /\ stopped \subseteq Calls
    /\ effective \subseteq Calls
    /\ faults \in [Calls -> 0..MaxFaults]
    /\ alive \subseteq Processes
    /\ reused \subseteq Processes \ alive

Init ==
    /\ pc = [c \in Calls |-> "check"]
    /\ lock = None
    /\ reaper = None
    /\ seen = [c \in Calls |-> None]
    /\ failing = {}
    /\ stopped = {}
    /\ effective = {}
    /\ faults = [c \in Calls |-> 0]
    /\ alive = Processes
    /\ reused = {}

-----------------------------------------------------------------------------
At(c, step) == pc[c] = step

Goto(c, step) == pc' = [pc EXCEPT ![c] = step]

(* A file system call, or the operation, fails on its own account. *)
Fault(c) ==
    /\ faults[c] < MaxFaults
    /\ faults' = [faults EXCEPT ![c] = @ + 1]

Throws(c) == failing' = failing \union {c}

(* privateLockOwnerIsAlive.  Outside a container the pid is all there is;  *)
(* inside, an identity that cannot be read is taken for a different one.   *)
LooksAlive(c) ==
    \/ ProcessOf[c] \in alive
    \/ ~ Container /\ ProcessOf[c] \in reused

Verdicts(c) ==
    {LooksAlive(c)} \union IF Container /\ ~ Readable THEN {FALSE} ELSE {}

-----------------------------------------------------------------------------
(* acquirePrivateLock and tryAcquirePrivateLock.                           *)

(* The loop starts with the abort check; then the owner file is written. *)
Check(c) ==
    /\ At(c, "check")
    /\ Goto(c, IF c \in stopped THEN "thrown" ELSE "link")
    /\ UNCHANGED <<lock, reaper, seen, failing, stopped, effective, faults, processVars>>

Link(c) ==
    /\ At(c, "link")
    /\ IF lock = None
       THEN Goto(c, "linked") /\ lock' = c
       ELSE Goto(c, "exists") /\ UNCHANGED lock
    /\ UNCHANGED <<reaper, seen, failing, stopped, effective, faults, processVars>>

LinkFails(c) ==
    /\ At(c, "link")
    /\ Fault(c)
    /\ Goto(c, "thrown")
    /\ UNCHANGED <<lock, reaper, seen, failing, stopped, effective, processVars>>

(* The temporary name is removed.  A call that was cancelled meanwhile     *)
(* releases the lock it just took instead of running its operation.        *)
Acquired(c) ==
    /\ At(c, "linked")
    /\ IF c \in stopped
       THEN Goto(c, "validate") /\ Throws(c)
       ELSE Goto(c, "operation") /\ UNCHANGED failing
    /\ UNCHANGED <<lock, reaper, seen, stopped, effective, faults, processVars>>

CleanupFails(c) ==
    /\ At(c, "linked")
    /\ Fault(c)
    /\ Goto(c, "undo")
    /\ UNCHANGED <<lock, reaper, seen, failing, stopped, effective, processVars>>

Undo(c) ==
    /\ At(c, "undo")
    /\ Goto(c, "thrown")
    /\ \/ lock' = None /\ UNCHANGED faults
       \/ Fault(c) /\ UNCHANGED lock
    /\ UNCHANGED <<reaper, seen, failing, stopped, effective, processVars>>

Taken(c) ==
    /\ At(c, "exists")
    /\ \/ Goto(c, "stat") /\ UNCHANGED faults
       \/ Goto(c, "thrown") /\ Fault(c)
    /\ UNCHANGED <<lock, reaper, seen, failing, stopped, effective, processVars>>

(* Mutation: the loop is re-entered without looking at the signal. *)
WaitUnaware(c) ==
    /\ At(c, "wait")
    /\ Goto(c, "link")
    /\ UNCHANGED <<lock, reaper, seen, failing, stopped, effective, faults, processVars>>

(* The delay ends, or is cut short by the signal. *)
Wait(c) ==
    /\ At(c, "wait")
    /\ Goto(c, IF c \in stopped THEN "thrown" ELSE "check")
    /\ UNCHANGED <<lock, reaper, seen, failing, stopped, effective, faults, processVars>>

-----------------------------------------------------------------------------
(* recoverDeadPrivateLock.  readPrivateLock is an lstat and a read that    *)
(* must see the same file.                                                 *)

Stat(c) ==
    /\ At(c, "stat")
    /\ Goto(c, IF lock = None THEN "wait" ELSE "read")
    /\ seen' = [seen EXCEPT ![c] = lock]
    /\ UNCHANGED <<lock, reaper, failing, stopped, effective, faults, processVars>>

Read(c) ==
    /\ At(c, "read")
    /\ Goto(c, IF lock = None THEN "wait" ELSE IF lock = seen[c] THEN "judge" ELSE "thrown")
    /\ UNCHANGED <<lock, reaper, seen, failing, stopped, effective, faults, processVars>>

Judge(c) ==
    /\ At(c, "judge")
    /\ \E living \in Verdicts(seen[c]) : Goto(c, IF living THEN "wait" ELSE "mkdir")
    /\ UNCHANGED <<lock, reaper, seen, failing, stopped, effective, faults, processVars>>

(* Mutation: mkdir accepts a directory that exists. *)
MakeReaperShared(c) ==
    /\ At(c, "mkdir")
    /\ Goto(c, "restat")
    /\ reaper' = c
    /\ UNCHANGED <<lock, seen, failing, stopped, effective, faults, processVars>>

(* mkdir is atomic: the one call that made .reap may remove the lock. *)
MakeReaper(c) ==
    /\ At(c, "mkdir")
    /\ IF reaper = None
       THEN Goto(c, "restat") /\ reaper' = c
       ELSE Goto(c, "thrown") /\ UNCHANGED reaper
    /\ UNCHANGED <<lock, seen, failing, stopped, effective, faults, processVars>>

(* mkdir fails, or the chmod after it: that leaves .reap behind for good. *)
MakeReaperFails(c) ==
    /\ At(c, "mkdir")
    /\ Fault(c)
    /\ Goto(c, "thrown")
    /\ reaper' \in {reaper} \union (IF reaper = None THEN {c} ELSE {})
    /\ UNCHANGED <<lock, seen, failing, stopped, effective, processVars>>

(* Mutation: what the name holds by now is not compared with what it held. *)
RereadUnchecked(c) ==
    /\ At(c, "reread")
    /\ Goto(c, "reap")
    /\ UNCHANGED <<lock, reaper, seen, failing, stopped, effective, faults, processVars>>

(* The lock file is read again: gone, changed, or still the one found. *)
Restat(c) ==
    /\ At(c, "restat")
    /\ Goto(c, IF lock = None THEN "unmark" ELSE "reread")
    /\ UNCHANGED <<lock, reaper, seen, failing, stopped, effective, faults, processVars>>

Reread(c) ==
    /\ At(c, "reread")
    /\ IF lock \in {None, seen[c]}
       THEN Goto(c, IF lock = None THEN "unmark" ELSE "rejudge") /\ UNCHANGED failing
       ELSE Goto(c, "unmark") /\ Throws(c)
    /\ UNCHANGED <<lock, reaper, seen, stopped, effective, faults, processVars>>

Rejudge(c) ==
    /\ At(c, "rejudge")
    /\ \E living \in Verdicts(seen[c]) : Goto(c, IF living THEN "unmark" ELSE "reap")
    /\ UNCHANGED <<lock, reaper, seen, failing, stopped, effective, faults, processVars>>

(* unlink removes whatever file has the name of the lock by now. *)
Reap(c) ==
    /\ At(c, "reap")
    /\ Goto(c, "unmark")
    /\ IF lock = None THEN Throws(c) ELSE UNCHANGED failing
    /\ lock' = None
    /\ UNCHANGED <<reaper, seen, stopped, effective, faults, processVars>>

(* An I/O error before the directory is held, and one while it is. *)
ReadFails(c) ==
    /\ pc[c] \in {"stat", "read"}
    /\ Fault(c)
    /\ Goto(c, "thrown")
    /\ UNCHANGED <<lock, reaper, seen, failing, stopped, effective, processVars>>

ReapFails(c) ==
    /\ pc[c] \in {"restat", "reread", "reap"}
    /\ Fault(c)
    /\ Goto(c, "unmark")
    /\ Throws(c)
    /\ UNCHANGED <<lock, reaper, seen, stopped, effective, processVars>>

Unmark(c) ==
    /\ At(c, "unmark")
    /\ \/ /\ reaper' = None
          /\ Goto(c, IF c \in failing THEN "thrown" ELSE "wait")
          /\ UNCHANGED faults
       \/ /\ Fault(c)
          /\ Goto(c, "thrown")
          /\ UNCHANGED reaper
    /\ UNCHANGED <<lock, seen, failing, stopped, effective, processVars>>

Recover(c) ==
    \/ Stat(c) \/ Read(c) \/ Judge(c) \/ ReadFails(c)
    \/ MakeReaper(c) \/ MakeReaperFails(c)
    \/ Restat(c) \/ Reread(c) \/ Rejudge(c) \/ Reap(c) \/ ReapFails(c)
    \/ Unmark(c)

-----------------------------------------------------------------------------
(* The operation runs under the lock, and the lock is released.            *)

Completes(c) ==
    /\ At(c, "operation")
    /\ Goto(c, "validate")
    /\ effective' = effective \union {c}
    /\ UNCHANGED <<lock, reaper, seen, failing, stopped, faults, processVars>>

Fails(c) ==
    /\ At(c, "operation")
    /\ Goto(c, "validate")
    /\ Throws(c)
    /\ UNCHANGED <<lock, reaper, seen, stopped, effective, faults, processVars>>

(* releasePrivateLock: the file must still be the one the call linked. *)
Validate(c) ==
    /\ At(c, "validate")
    /\ \/ lock = c /\ Goto(c, "unlink") /\ UNCHANGED faults
       \/ lock # c /\ Goto(c, "recover") /\ UNCHANGED faults
       \/ Fault(c) /\ Goto(c, "recover")
    /\ UNCHANGED <<lock, reaper, seen, failing, stopped, effective, processVars>>

Unlink(c) ==
    /\ At(c, "unlink")
    /\ lock # None
    /\ lock' = None
    /\ Goto(c, IF c \in failing THEN "thrown" ELSE "returned")
    /\ UNCHANGED <<reaper, seen, failing, stopped, effective, faults, processVars>>

UnlinkFails(c) ==
    /\ At(c, "unlink")
    /\ \/ lock = None /\ UNCHANGED faults
       \/ Fault(c)
    /\ Goto(c, "recover")
    /\ UNCHANGED <<lock, reaper, seen, failing, stopped, effective, processVars>>

Rolls(c) == c \in Undoable /\ c \in effective

(* Mutations: the lock is released a second time only after a rollback, and *)
(* nothing is rolled back.                                                  *)
RecoverOnce(c) ==
    /\ At(c, "recover")
    /\ Goto(c, IF Rolls(c) THEN "rollback" ELSE "thrown")
    /\ UNCHANGED <<lock, reaper, seen, failing, stopped, effective, faults, processVars>>

RecoverForward(c) ==
    /\ At(c, "recover")
    /\ Goto(c, "again")
    /\ UNCHANGED <<lock, reaper, seen, failing, stopped, effective, faults, processVars>>

(* The release failed.  An operation that completed is undone if it can    *)
(* be, after the lock was found to be its own still.                       *)
RecoverRelease(c) ==
    /\ At(c, "recover")
    /\ \/ Rolls(c) /\ lock = c /\ Goto(c, "rollback") /\ UNCHANGED faults
       \/ Rolls(c) /\ lock # c /\ Goto(c, "again") /\ UNCHANGED faults
       \/ Rolls(c) /\ Fault(c) /\ Goto(c, "again")
       \/ ~ Rolls(c) /\ Goto(c, "again") /\ UNCHANGED faults
    /\ UNCHANGED <<lock, reaper, seen, failing, stopped, effective, processVars>>

RollBack(c) ==
    /\ At(c, "rollback")
    /\ Goto(c, "again")
    /\ \/ effective' = effective \ {c} /\ UNCHANGED faults
       \/ Fault(c) /\ UNCHANGED effective
    /\ UNCHANGED <<lock, reaper, seen, failing, stopped, processVars>>

(* The second release; the call throws whatever comes of it. *)
ValidateAgain(c) ==
    /\ At(c, "again")
    /\ \/ lock = c /\ Goto(c, "unlink again") /\ UNCHANGED faults
       \/ lock # c /\ Goto(c, "thrown") /\ UNCHANGED faults
       \/ Fault(c) /\ Goto(c, "thrown")
    /\ UNCHANGED <<lock, reaper, seen, failing, stopped, effective, processVars>>

UnlinkAgain(c) ==
    /\ At(c, "unlink again")
    /\ Goto(c, "thrown")
    /\ \/ lock' = None /\ UNCHANGED faults
       \/ Fault(c) /\ UNCHANGED lock
    /\ UNCHANGED <<reaper, seen, failing, stopped, effective, processVars>>

Release(c) ==
    \/ Validate(c) \/ Unlink(c) \/ UnlinkFails(c)
    \/ RecoverRelease(c) \/ RollBack(c)
    \/ ValidateAgain(c) \/ UnlinkAgain(c)

Acquire(c) ==
    \/ Check(c) \/ Link(c) \/ LinkFails(c) \/ Taken(c) \/ Wait(c)
    \/ Acquired(c) \/ CleanupFails(c) \/ Undo(c)

Operate(c) == Completes(c) \/ Fails(c)

-----------------------------------------------------------------------------
(* What happens to a call and to its process from outside.                 *)

(* The caller's signal aborts, or the timeout of acquirePrivateLock fires. *)
Stop(c) ==
    /\ pc[c] \in Acquiring
    /\ c \notin stopped
    /\ stopped' = stopped \union {c}
    /\ UNCHANGED <<pc, lock, reaper, seen, failing, effective, faults, processVars>>

(* A process dies with all its calls; its files stay. *)
Crash(p) ==
    /\ p \in alive
    /\ alive' = alive \ {p}
    /\ pc' = [c \in Calls |->
          IF ProcessOf[c] = p /\ pc[c] \notin Ended THEN "crashed" ELSE pc[c]]
    /\ UNCHANGED <<lock, reaper, seen, failing, stopped, effective, faults, reused>>

PidReused(p) ==
    /\ p \notin alive \union reused
    /\ reused' = reused \union {p}
    /\ UNCHANGED <<pc, lock, reaper, seen, failing, stopped, effective, faults, alive>>

Step(c) == Acquire(c) \/ Recover(c) \/ Operate(c) \/ Release(c)

Next ==
    \/ \E c \in Calls : Step(c) \/ Stop(c)
    \/ \E p \in Processes : Crash(p) \/ PidReused(p)

(* File system calls return, the operation ends, and the timeout fires. *)
Spec == Init /\ [][Next]_vars /\ \A c \in Calls : WF_vars(Step(c)) /\ WF_vars(Stop(c))

-----------------------------------------------------------------------------
(* Properties.                                                             *)

(* What the caller passed in runs now: its operation or its rollback.      *)
Critical(c) == pc[c] \in {"operation", "rollback"}

(* Two calls are never in their operation, or rolling it back, at once,    *)
(* also while crashed owners are recovered and cancelled calls release.    *)
MutualExclusion == \A c, d \in Calls : Critical(c) /\ Critical(d) => c = d

(* A lock file disappears only by the call that owns it, or after the      *)
(* process that owns it died: recovery never takes a live call's lock.     *)
LiveLocksAreKept ==
    [][\A c \in Calls :
          lock = c /\ lock' # c => pc'[c] # pc[c] \/ ProcessOf[c] \notin alive]_vars

(* One I/O error does not leave the lock behind: a call that ended while   *)
(* its process lives on still owns the lock only after two errors.         *)
OneFaultReleases ==
    \A c \in Calls :
        lock = c /\ pc[c] \in {"returned", "thrown"} => faults[c] > 1

(* A call that reports failure has had no effect: after one I/O error, an  *)
(* operation that can be rolled back and was reported as failed is undone. *)
OneFaultIsUndone ==
    \A c \in Undoable :
        pc[c] = "thrown" /\ c \in effective => faults[c] > 1

(* Every call ends: in success, in an error, or with its process.          *)
EveryCallEnds == \A c \in Calls : <>(pc[c] \in Ended)
=============================================================================
