------------------------- MODULE PrivateLockProofs -------------------------
(***************************************************************************)
(* The lock excludes, for any number of calls and processes, whatever      *)
(* crashes, cancellations and I/O errors happen.                           *)
(*                                                                         *)
(* The argument: between link and unlink the lock file is the call's own.  *)
(* Only a call that holds .reap removes another's lock; when it does, the  *)
(* file is still the one whose owner it found dead, because the two others *)
(* that could have removed it, that owner and a second holder of .reap, do *)
(* not exist.  A dead owner is in no step that relies on the lock.         *)
(***************************************************************************)
EXTENDS PrivateLock, TLAPS

Steps == Acquiring \union Releasing \union Ended \union {"operation"}

Owning == {"linked", "undo", "operation", "validate", "unlink", "recover", "rollback",
           "again", "unlink again"}
Reaping == {"restat", "reread", "rejudge", "reap", "unmark"}

-----------------------------------------------------------------------------
(* Types.                                                                  *)

LEMMA GotoStep ==
    ASSUME TypeOK, NEW c \in Calls, NEW step \in Steps, Goto(c, step)
    PROVE  /\ pc' \in [Calls -> Steps]
           /\ pc'[c] = step
           /\ \A d \in Calls : d # c => pc'[d] = pc[d]
  BY DEF TypeOK, Goto, Steps

LEMMA Moved ==
    ASSUME TypeOK, NEW c \in Calls, NEW step, Goto(c, step)
    PROVE  pc'[c] = step
  BY DEF TypeOK, Goto

LEMMA FaultStep ==
    ASSUME TypeOK, NEW c \in Calls, Fault(c)
    PROVE  /\ faults' \in [Calls -> 0..MaxFaults]
           /\ faults[c] \in Nat
           /\ faults'[c] = faults[c] + 1
           /\ \A d \in Calls : d # c => faults'[d] = faults[d]
  BY LockAssumption DEF TypeOK, Fault

(* What a step of a call does to pc, to the types, and to other calls.     *)
LEMMA TypeStep ==
    ASSUME TypeOK, NEW c \in Calls, Step(c)
    PROVE  /\ TypeOK'
           /\ alive' = alive
           /\ \A d \in Calls : d # c => pc'[d] = pc[d]
<1> DEFINE Types == /\ pc' \in [Calls -> Steps]
                    /\ \A d \in Calls : d # c => pc'[d] = pc[d]
                    /\ lock' \in Calls \union {None}
                    /\ reaper' \in Calls \union {None}
                    /\ seen' \in [Calls -> Calls \union {None}]
                    /\ failing' \subseteq Calls
                    /\ effective' \subseteq Calls
                    /\ faults' \in [Calls -> 0..MaxFaults]
                    /\ UNCHANGED <<stopped, alive, reused>>
<1>0. /\ lock \in Calls \union {None}
      /\ reaper \in Calls \union {None}
      /\ seen \in [Calls -> Calls \union {None}]
      /\ failing \subseteq Calls
      /\ effective \subseteq Calls
      /\ faults \in [Calls -> 0..MaxFaults]
  BY DEF TypeOK
<1> USE <1>0, GotoStep, FaultStep
    DEF Throws, processVars, Steps, Acquiring, Releasing, Ended
<1>1. CASE Check(c)
  <2>1. Types
    BY <1>1 DEF Check
  <2> QED
    BY <2>1 DEF TypeOK
<1>2. CASE Link(c)
  <2>1. Types
    BY <1>2 DEF Link
  <2> QED
    BY <2>1 DEF TypeOK
<1>3. CASE LinkFails(c)
  <2>1. Types
    BY <1>3 DEF LinkFails
  <2> QED
    BY <2>1 DEF TypeOK
<1>4. CASE Taken(c)
  <2>1. Types
    BY <1>4 DEF Taken
  <2> QED
    BY <2>1 DEF TypeOK
<1>5. CASE Wait(c)
  <2>1. Types
    BY <1>5 DEF Wait
  <2> QED
    BY <2>1 DEF TypeOK
<1>6. CASE Acquired(c)
  <2>1. Types
    BY <1>6 DEF Acquired
  <2> QED
    BY <2>1 DEF TypeOK
<1>7. CASE CleanupFails(c)
  <2>1. Types
    BY <1>7 DEF CleanupFails
  <2> QED
    BY <2>1 DEF TypeOK
<1>8. CASE Undo(c)
  <2>1. Types
    BY <1>8 DEF Undo
  <2> QED
    BY <2>1 DEF TypeOK
<1>9. CASE Stat(c)
  <2>1. Types
    BY <1>9 DEF Stat
  <2> QED
    BY <2>1 DEF TypeOK
<1>10. CASE Read(c)
  <2>1. Types
    BY <1>10 DEF Read
  <2> QED
    BY <2>1 DEF TypeOK
<1>11. CASE Judge(c)
  <2>1. Types
    BY <1>11 DEF Judge
  <2> QED
    BY <2>1 DEF TypeOK
<1>12. CASE ReadFails(c)
  <2>1. Types
    BY <1>12 DEF ReadFails
  <2> QED
    BY <2>1 DEF TypeOK
<1>13. CASE MakeReaper(c)
  <2>1. Types
    BY <1>13 DEF MakeReaper
  <2> QED
    BY <2>1 DEF TypeOK
<1>14. CASE MakeReaperFails(c)
  <2>1. Types
    BY <1>14 DEF MakeReaperFails
  <2> QED
    BY <2>1 DEF TypeOK
<1>15. CASE Restat(c)
  <2>1. Types
    BY <1>15 DEF Restat
  <2> QED
    BY <2>1 DEF TypeOK
<1>16. CASE Reread(c)
  <2>0. /\ \E step \in {"unmark", "rejudge"} : Goto(c, step)
        /\ failing' \in {failing, failing \union {c}}
        /\ UNCHANGED <<lock, reaper, seen, stopped, effective, faults, alive, reused>>
    BY <1>16 DEF Reread
  <2>1. Types
    BY <2>0
  <2> QED
    BY <2>1 DEF TypeOK
<1>17. CASE Rejudge(c)
  <2>1. Types
    BY <1>17 DEF Rejudge
  <2> QED
    BY <2>1 DEF TypeOK
<1>18. CASE Reap(c)
  <2>1. Types
    BY <1>18 DEF Reap
  <2> QED
    BY <2>1 DEF TypeOK
<1>19. CASE ReapFails(c)
  <2>1. Types
    BY <1>19 DEF ReapFails
  <2> QED
    BY <2>1 DEF TypeOK
<1>20. CASE Unmark(c)
  <2>1. Types
    BY <1>20 DEF Unmark
  <2> QED
    BY <2>1 DEF TypeOK
<1>21. CASE Completes(c)
  <2>1. Types
    BY <1>21 DEF Completes
  <2> QED
    BY <2>1 DEF TypeOK
<1>22. CASE Fails(c)
  <2>1. Types
    BY <1>22 DEF Fails
  <2> QED
    BY <2>1 DEF TypeOK
<1>23. CASE Validate(c)
  <2>1. Types
    BY <1>23 DEF Validate
  <2> QED
    BY <2>1 DEF TypeOK
<1>24. CASE Unlink(c)
  <2>1. Types
    BY <1>24 DEF Unlink
  <2> QED
    BY <2>1 DEF TypeOK
<1>25. CASE UnlinkFails(c)
  <2>1. Types
    BY <1>25 DEF UnlinkFails
  <2> QED
    BY <2>1 DEF TypeOK
<1>26. CASE RecoverRelease(c)
  <2>1. Types
    BY <1>26 DEF RecoverRelease
  <2> QED
    BY <2>1 DEF TypeOK
<1>27. CASE RollBack(c)
  <2>1. Types
    BY <1>27 DEF RollBack
  <2> QED
    BY <2>1 DEF TypeOK
<1>28. CASE ValidateAgain(c)
  <2>1. Types
    BY <1>28 DEF ValidateAgain
  <2> QED
    BY <2>1 DEF TypeOK
<1>29. CASE UnlinkAgain(c)
  <2>1. Types
    BY <1>29 DEF UnlinkAgain
  <2> QED
    BY <2>1 DEF TypeOK
<1> QED
  BY <1>1, <1>2, <1>3, <1>4, <1>5, <1>6, <1>7, <1>8, <1>9, <1>10, <1>11, <1>12, <1>13, <1>14, <1>15, <1>16, <1>17, <1>18, <1>19, <1>20, <1>21, <1>22, <1>23, <1>24, <1>25, <1>26, <1>27, <1>28, <1>29
     DEF Step, Acquire, Recover, Operate, Release

LEMMA OutsideTypes ==
    ASSUME TypeOK, (\E c \in Calls : Stop(c)) \/ \E p \in Processes : Crash(p) \/ PidReused(p)
    PROVE  TypeOK'
<1>1. ASSUME NEW c \in Calls, Stop(c) PROVE TypeOK'
  BY <1>1 DEF Stop, TypeOK, processVars
<1>2. ASSUME NEW p \in Processes, Crash(p) PROVE TypeOK'
  BY <1>2 DEF Crash, TypeOK, Ended
<1>3. ASSUME NEW p \in Processes, PidReused(p) PROVE TypeOK'
  BY <1>3 DEF PidReused, TypeOK
<1> QED
  BY <1>1, <1>2, <1>3

THEOREM Typing == Spec => []TypeOK
<1>1. Init => TypeOK
  BY LockAssumption DEF Init, TypeOK, Acquiring
<1>2. TypeOK /\ [Next]_vars => TypeOK'
  <2> SUFFICES ASSUME TypeOK, [Next]_vars PROVE TypeOK'
    OBVIOUS
  <2>1. CASE UNCHANGED vars
    BY <2>1 DEF vars, TypeOK
  <2> QED
    BY <2>1, TypeStep, OutsideTypes DEF Next
<1> QED
  BY <1>1, <1>2, PTL DEF Spec

-----------------------------------------------------------------------------
(* Exclusion.                                                              *)

(* Owners read from /proc are right; outside a container nothing is read. *)
Trusted == Readable \/ ~ Container

Owns == \A c \in Calls : pc[c] \in Owning => lock = c

Reaps == \A c \in Calls : pc[c] \in Reaping => reaper = c

Living == \A c \in Calls : pc[c] \notin Ended => ProcessOf[c] \in alive

Found == \A c \in Calls :
    pc[c] \in {"read", "judge", "mkdir", "restat", "reread", "rejudge", "reap"} =>
        seen[c] \in Calls

FoundDead == \A c \in Calls :
    pc[c] \in {"mkdir", "restat", "reread", "rejudge", "reap"} =>
        ProcessOf[seen[c]] \notin alive

Same == \A c \in Calls : pc[c] \in {"rejudge", "reap"} => lock = seen[c]

Exclusive == Owns /\ Reaps /\ Living /\ Found /\ FoundDead /\ Same

(* What one step of a call does to the lock, to .reap and to what it saw.  *)
LockEffect(c) ==
    \/ lock' = lock /\ (pc'[c] \in Owning => pc[c] \in Owning)
    \/ lock = None /\ lock' = c /\ pc'[c] = "linked"
    \/ pc[c] \in Owning /\ lock' = None /\ pc'[c] \in Ended
    \/ pc[c] = "reap" /\ lock' = None /\ pc'[c] = "unmark"

ReaperEffect(c) ==
    \/ reaper' = reaper /\ (pc'[c] \in Reaping => pc[c] \in Reaping)
    \/ reaper = None /\ reaper' = c
    \/ pc[c] = "unmark" /\ reaper' = None /\ pc'[c] \notin Reaping

SeenEffect(c) ==
    /\ \/ seen' = seen
       \/ pc[c] = "stat" /\ seen' = [seen EXCEPT ![c] = lock]
    /\ pc'[c] = "read" => lock # None /\ seen'[c] = lock
    /\ pc'[c] = "judge" => pc[c] = "read"
    /\ pc'[c] = "mkdir" => pc[c] = "judge" /\ ProcessOf[seen[c]] \notin alive
    /\ pc'[c] = "restat" => pc[c] = "mkdir"
    /\ pc'[c] = "reread" => pc[c] = "restat"
    /\ pc'[c] = "rejudge" => pc[c] = "reread" /\ lock = seen[c]
    /\ pc'[c] = "reap" => pc[c] = "rejudge"

LEMMA Effects ==
    ASSUME Trusted, TypeOK, NEW c \in Calls, Step(c)
    PROVE  LockEffect(c) /\ ReaperEffect(c) /\ SeenEffect(c)
           /\ pc[c] \notin Ended
<1>0. /\ seen \in [Calls -> Calls \union {None}]
      /\ None \notin Calls
      /\ lock \in Calls \union {None}
  BY LockAssumption DEF TypeOK
<1> USE <1>0, Moved
    DEF At, Ended, Owning, Reaping, LockEffect, ReaperEffect, SeenEffect
<1>1. CASE Check(c)
  BY <1>1 DEF Check
<1>2. CASE Link(c)
  BY <1>2 DEF Link
<1>3. CASE LinkFails(c)
  BY <1>3 DEF LinkFails
<1>4. CASE Taken(c)
  BY <1>4 DEF Taken
<1>5. CASE Wait(c)
  BY <1>5 DEF Wait
<1>6. CASE Acquired(c)
  BY <1>6 DEF Acquired
<1>7. CASE CleanupFails(c)
  BY <1>7 DEF CleanupFails
<1>8. CASE Undo(c)
  BY <1>8 DEF Undo
<1>9. CASE Stat(c)
  BY <1>9 DEF Stat
<1>10. CASE Read(c)
  BY <1>10 DEF Read
<1>11. CASE Judge(c)
  BY <1>11 DEF Judge, Verdicts, LooksAlive, Trusted
<1>12. CASE ReadFails(c)
  BY <1>12 DEF ReadFails
<1>13. CASE MakeReaper(c)
  BY <1>13 DEF MakeReaper
<1>14. CASE MakeReaperFails(c)
  BY <1>14 DEF MakeReaperFails
<1>15. CASE Restat(c)
  BY <1>15 DEF Restat
<1>16. CASE Reread(c)
  <2>1. \/ lock = None /\ Goto(c, "unmark")
        \/ lock = seen[c] /\ lock # None /\ Goto(c, "rejudge")
        \/ Goto(c, "unmark")
    BY <1>16 DEF Reread
  <2> QED
    BY <1>16, <2>1 DEF Reread
<1>17. CASE Rejudge(c)
  BY <1>17 DEF Rejudge, Verdicts, LooksAlive, Trusted
<1>18. CASE Reap(c)
  BY <1>18 DEF Reap
<1>19. CASE ReapFails(c)
  BY <1>19 DEF ReapFails
<1>20. CASE Unmark(c)
  BY <1>20 DEF Unmark
<1>21. CASE Completes(c)
  BY <1>21 DEF Completes
<1>22. CASE Fails(c)
  BY <1>22 DEF Fails
<1>23. CASE Validate(c)
  BY <1>23 DEF Validate
<1>24. CASE Unlink(c)
  BY <1>24 DEF Unlink
<1>25. CASE UnlinkFails(c)
  BY <1>25 DEF UnlinkFails
<1>26. CASE RecoverRelease(c)
  BY <1>26 DEF RecoverRelease
<1>27. CASE RollBack(c)
  BY <1>27 DEF RollBack
<1>28. CASE ValidateAgain(c)
  BY <1>28 DEF ValidateAgain
<1>29. CASE UnlinkAgain(c)
  BY <1>29 DEF UnlinkAgain
<1> QED
  BY <1>1, <1>2, <1>3, <1>4, <1>5, <1>6, <1>7, <1>8, <1>9, <1>10, <1>11, <1>12, <1>13, <1>14, <1>15, <1>16, <1>17, <1>18, <1>19, <1>20, <1>21, <1>22, <1>23, <1>24, <1>25, <1>26, <1>27, <1>28, <1>29
     DEF Step, Acquire, Recover, Operate, Release

LEMMA ExclusiveStep ==
    ASSUME Trusted, TypeOK, Exclusive, NEW c \in Calls, Step(c)
    PROVE  Exclusive'
<1>1. LockEffect(c) /\ ReaperEffect(c) /\ SeenEffect(c)
  BY Effects
<1>2. alive' = alive /\ \A d \in Calls : d # c => pc'[d] = pc[d]
  BY TypeStep
<1>3. ProcessOf[c] \in alive
  BY Effects DEF Exclusive, Living
<1>4. /\ seen \in [Calls -> Calls \union {None}]
      /\ lock \in Calls \union {None}
      /\ None \notin Calls
  BY LockAssumption DEF TypeOK
<1>5. \A d \in Calls : d # c => seen'[d] = seen[d]
  BY <1>1, <1>4 DEF SeenEffect
(* The lock of a call that still relies on it is not taken: it was neither *)
(* found dead nor released by a call that holds another one.               *)
<1>6. ASSUME NEW d \in Calls, d # c, lock = d, pc[d] \in Owning PROVE lock' = lock
  <2>1. pc[c] \in Owning => lock = c
    BY DEF Exclusive, Owns
  <2>2. pc[c] = "reap" => lock = seen[c] /\ ProcessOf[seen[c]] \notin alive
    BY DEF Exclusive, Same, FoundDead
  <2>3. ProcessOf[d] \in alive
    BY <1>6 DEF Exclusive, Living, Owning, Ended
  <2> QED
    BY <1>1, <1>4, <1>6, <2>1, <2>2, <2>3 DEF LockEffect
<1>7. Owns'
  <2>1. pc'[c] \in Owning => lock' = c
    BY <1>1 DEF LockEffect, Exclusive, Owns, Owning, Ended
  <2>2. ASSUME NEW d \in Calls, d # c, pc'[d] \in Owning PROVE lock' = d
    BY <1>2, <1>6, <2>2 DEF Exclusive, Owns
  <2> QED
    BY <2>1, <2>2 DEF Owns
<1>8. Reaps'
  BY <1>1, <1>2, <1>4 DEF ReaperEffect, Exclusive, Reaps, Reaping
<1>9. Living'
  BY <1>2, <1>3 DEF Exclusive, Living
<1>10. Found'
  BY <1>1, <1>2, <1>4, <1>5 DEF SeenEffect, Exclusive, Found
<1>11. FoundDead'
  BY <1>1, <1>2, <1>4, <1>5 DEF SeenEffect, Exclusive, FoundDead, Found
(* Nor is a file that another call is about to remove: it is not the lock  *)
(* of a live process, and .reap is held by that call alone.                *)
<1>12. Same'
  <2>1. pc'[c] \in {"rejudge", "reap"} => lock' = seen'[c]
    <3>1. pc'[c] \in {"rejudge", "reap"} => lock = seen[c] /\ seen'[c] = seen[c]
      BY <1>1 DEF SeenEffect, Exclusive, Same
    <3>2. pc'[c] \in {"rejudge", "reap"} => lock' = lock
      BY <1>1 DEF LockEffect, SeenEffect, Owning, Ended
    <3> QED
      BY <3>1, <3>2
  <2>2. ASSUME NEW d \in Calls, d # c, pc'[d] \in {"rejudge", "reap"} PROVE lock' = seen'[d]
    <3>1. /\ lock = seen[d]
          /\ seen'[d] = seen[d]
          /\ seen[d] \in Calls
          /\ ProcessOf[seen[d]] \notin alive
          /\ reaper = d
      BY <1>2, <1>5, <2>2 DEF Exclusive, Same, Found, FoundDead, Reaps, Reaping
    <3>2. pc[c] \notin Owning
      BY <1>3, <3>1 DEF Exclusive, Owns
    <3>3. pc[c] # "reap"
      BY <2>2, <3>1 DEF Exclusive, Reaps, Reaping
    <3> QED
      BY <1>1, <1>4, <3>1, <3>2, <3>3 DEF LockEffect
  <2> QED
    BY <2>1, <2>2 DEF Same
<1> QED
  BY <1>7, <1>8, <1>9, <1>10, <1>11, <1>12 DEF Exclusive

LEMMA ExclusiveOutside ==
    ASSUME TypeOK, Exclusive,
           \/ \E c \in Calls : Stop(c)
           \/ \E p \in Processes : Crash(p) \/ PidReused(p)
    PROVE  Exclusive'
<1>1. ASSUME NEW c \in Calls, Stop(c) PROVE Exclusive'
  BY <1>1 DEF Stop, processVars, Exclusive, Owns, Reaps, Living, Found, FoundDead, Same
<1>2. ASSUME NEW p \in Processes, PidReused(p) PROVE Exclusive'
  BY <1>2 DEF PidReused, Exclusive, Owns, Reaps, Living, Found, FoundDead, Same
<1>3. ASSUME NEW p \in Processes, Crash(p) PROVE Exclusive'
  <2>1. /\ alive' = alive \ {p}
        /\ UNCHANGED <<lock, reaper, seen>>
    BY <1>3 DEF Crash
  <2>2. ASSUME NEW c \in Calls
        PROVE  \/ pc'[c] = "crashed"
               \/ pc'[c] = pc[c] /\ (pc[c] \in Ended \/ ProcessOf[c] # p)
    BY <1>3 DEF Crash
  <2>3. Owns' /\ Reaps'
    BY <2>1, <2>2 DEF Exclusive, Owns, Reaps, Owning, Reaping
  <2>4. Living'
    BY <2>1, <2>2 DEF Exclusive, Living, Ended
  <2>5. Found' /\ FoundDead' /\ Same'
    BY <2>1, <2>2 DEF Exclusive, Found, FoundDead, Same
  <2> QED
    BY <2>3, <2>4, <2>5 DEF Exclusive
<1> QED
  BY <1>1, <1>2, <1>3

LEMMA AlwaysExclusive ==
    ASSUME Trusted
    PROVE  Spec => []Exclusive
<1>1. Init => Exclusive
  BY LockAssumption DEF Init, Exclusive, Owns, Reaps, Living, Found, FoundDead, Same,
     Owning, Reaping
<1>2. TypeOK /\ Exclusive /\ [Next]_vars => Exclusive'
  <2> SUFFICES ASSUME TypeOK, Exclusive, [Next]_vars PROVE Exclusive'
    OBVIOUS
  <2>1. CASE UNCHANGED vars
    BY <2>1 DEF vars, Exclusive, Owns, Reaps, Living, Found, FoundDead, Same
  <2> QED
    BY <2>1, ExclusiveStep, ExclusiveOutside DEF Next
<1> QED
  BY <1>1, <1>2, Typing, PTL DEF Spec

(* Two calls are never in their operation or its rollback at once.         *)
THEOREM Exclusion ==
    ASSUME Trusted
    PROVE  Spec => []MutualExclusion
<1>1. TypeOK /\ Exclusive => MutualExclusion
  BY DEF Exclusive, Owns, Owning, MutualExclusion, Critical
<1> QED
  BY <1>1, Typing, AlwaysExclusive, PTL

(* Nobody but its owner removes the lock of a live process.                *)
THEOREM LiveLocks ==
    ASSUME Trusted
    PROVE  Spec => LiveLocksAreKept
<1> DEFINE Kept == \A c \in Calls :
        lock = c /\ lock' # c => pc'[c] # pc[c] \/ ProcessOf[c] \notin alive
<1>1. TypeOK /\ Exclusive /\ [Next]_vars => [Kept]_vars
  <2> SUFFICES ASSUME TypeOK, Exclusive, Next PROVE Kept
    BY DEF Kept
  <2>1. ASSUME NEW d \in Calls, Step(d) PROVE Kept
    <3> SUFFICES ASSUME NEW c \in Calls, lock = c, lock' # c, ProcessOf[c] \in alive
                 PROVE  pc'[c] # pc[c]
      OBVIOUS
    <3>1. LockEffect(d)
      BY <2>1, Effects
    <3>2. lock # None
      BY LockAssumption
    <3>3. pc[d] # "reap"
      BY DEF Exclusive, Same, FoundDead
    <3>4. pc[d] \in Owning /\ pc'[d] \in Ended
      BY <3>1, <3>2, <3>3 DEF LockEffect
    <3>5. d = c
      BY <3>4 DEF Exclusive, Owns
    <3> QED
      BY <3>4, <3>5 DEF Owning, Ended
  <2>2. ASSUME \/ \E c \in Calls : Stop(c)
               \/ \E p \in Processes : Crash(p) \/ PidReused(p)
        PROVE  Kept
    BY <2>2 DEF Stop, Crash, PidReused
  <2> QED
    BY <2>1, <2>2 DEF Next
<1> QED
  BY <1>1, Typing, AlwaysExclusive, PTL DEF Spec, LiveLocksAreKept

-----------------------------------------------------------------------------
(* I/O errors.  What a call owes after each step: the errors it must have  *)
(* met to be where it is, with its lock in place or its operation done.    *)

Owes(c) ==
    /\ c \in failing => pc[c] \in Ended \union {"unmark", "validate", "unlink", "recover",
                                 "rollback", "again", "unlink again"}
    /\ c \in effective => /\ c \notin failing
                          /\ pc[c] \in Ended \union {"validate", "unlink", "recover",
                                 "rollback", "again", "unlink again"}
    /\ pc[c] \in {"undo", "recover", "rollback", "again", "unlink again"} => faults[c] > 0
    /\ pc[c] \in {"again", "unlink again", "thrown"} /\ c \in Undoable /\ c \in effective
          => faults[c] > 1
    /\ lock = c => \/ pc[c] \in Owning \union {"crashed"}
                   \/ pc[c] = "thrown" /\ faults[c] > 1

Ledger == \A c \in Calls : Owes(c)

(* Another call's account is not touched. *)
LEMMA LedgerFrame ==
    ASSUME TypeOK, NEW c \in Calls, Step(c), NEW d \in Calls, d # c
    PROVE  /\ d \in failing' <=> d \in failing
           /\ d \in effective' <=> d \in effective
           /\ faults'[d] = faults[d]
           /\ lock' = d => lock = d
<1>1. d # None
  BY LockAssumption
<1> USE <1>1, FaultStep DEF Throws
<1>2. CASE Check(c)
  BY <1>2 DEF Check
<1>3. CASE Link(c)
  BY <1>3 DEF Link
<1>4. CASE LinkFails(c)
  BY <1>4 DEF LinkFails
<1>5. CASE Taken(c)
  BY <1>5 DEF Taken
<1>6. CASE Wait(c)
  BY <1>6 DEF Wait
<1>7. CASE Acquired(c)
  BY <1>7 DEF Acquired
<1>8. CASE CleanupFails(c)
  BY <1>8 DEF CleanupFails
<1>9. CASE Undo(c)
  BY <1>9 DEF Undo
<1>10. CASE Stat(c)
  BY <1>10 DEF Stat
<1>11. CASE Read(c)
  BY <1>11 DEF Read
<1>12. CASE Judge(c)
  BY <1>12 DEF Judge
<1>13. CASE ReadFails(c)
  BY <1>13 DEF ReadFails
<1>14. CASE MakeReaper(c)
  BY <1>14 DEF MakeReaper
<1>15. CASE MakeReaperFails(c)
  BY <1>15 DEF MakeReaperFails
<1>16. CASE Restat(c)
  BY <1>16 DEF Restat
<1>17. CASE Reread(c)
  BY <1>17 DEF Reread
<1>18. CASE Rejudge(c)
  BY <1>18 DEF Rejudge
<1>19. CASE Reap(c)
  BY <1>19 DEF Reap
<1>20. CASE ReapFails(c)
  BY <1>20 DEF ReapFails
<1>21. CASE Unmark(c)
  BY <1>21 DEF Unmark
<1>22. CASE Completes(c)
  BY <1>22 DEF Completes
<1>23. CASE Fails(c)
  BY <1>23 DEF Fails
<1>24. CASE Validate(c)
  BY <1>24 DEF Validate
<1>25. CASE Unlink(c)
  BY <1>25 DEF Unlink
<1>26. CASE UnlinkFails(c)
  BY <1>26 DEF UnlinkFails
<1>27. CASE RecoverRelease(c)
  BY <1>27 DEF RecoverRelease
<1>28. CASE RollBack(c)
  BY <1>28 DEF RollBack
<1>29. CASE ValidateAgain(c)
  BY <1>29 DEF ValidateAgain
<1>30. CASE UnlinkAgain(c)
  BY <1>30 DEF UnlinkAgain
<1> QED
  BY <1>2, <1>3, <1>4, <1>5, <1>6, <1>7, <1>8, <1>9, <1>10, <1>11, <1>12, <1>13, <1>14, <1>15, <1>16, <1>17, <1>18, <1>19, <1>20, <1>21, <1>22, <1>23, <1>24, <1>25, <1>26, <1>27, <1>28, <1>29, <1>30
     DEF Step, Acquire, Recover, Operate, Release

LEMMA LedgerOwn ==
    ASSUME TypeOK, Owns, NEW c \in Calls, Owes(c), Step(c)
    PROVE  Owes(c)'
<1>1. /\ c # None
      /\ Fault(c) => faults'[c] > 0 /\ (faults[c] > 0 => faults'[c] > 1)
      /\ faults[c] > 1 => faults[c] > 0
      /\ pc[c] \in Owning => lock = c
  BY LockAssumption, FaultStep DEF TypeOK, Owns
<1> USE <1>1, Moved DEF At, Throws, Ended, Owning, Owes
<1>2. CASE Check(c)
  BY <1>2 DEF Check
<1>3. CASE Link(c)
  BY <1>3 DEF Link
<1>4. CASE LinkFails(c)
  BY <1>4 DEF LinkFails
<1>5. CASE Taken(c)
  BY <1>5 DEF Taken
<1>6. CASE Wait(c)
  BY <1>6 DEF Wait
<1>7. CASE Acquired(c)
  BY <1>7 DEF Acquired
<1>8. CASE CleanupFails(c)
  BY <1>8 DEF CleanupFails
<1>9. CASE Undo(c)
  BY <1>9 DEF Undo
<1>10. CASE Stat(c)
  BY <1>10 DEF Stat
<1>11. CASE Read(c)
  BY <1>11 DEF Read
<1>12. CASE Judge(c)
  BY <1>12 DEF Judge
<1>13. CASE ReadFails(c)
  BY <1>13 DEF ReadFails
<1>14. CASE MakeReaper(c)
  BY <1>14 DEF MakeReaper
<1>15. CASE MakeReaperFails(c)
  BY <1>15 DEF MakeReaperFails
<1>16. CASE Restat(c)
  BY <1>16 DEF Restat
<1>17. CASE Reread(c)
  BY <1>17 DEF Reread
<1>18. CASE Rejudge(c)
  BY <1>18 DEF Rejudge
<1>19. CASE Reap(c)
  BY <1>19 DEF Reap
<1>20. CASE ReapFails(c)
  BY <1>20 DEF ReapFails
<1>21. CASE Unmark(c)
  BY <1>21 DEF Unmark
<1>22. CASE Completes(c)
  BY <1>22 DEF Completes
<1>23. CASE Fails(c)
  BY <1>23 DEF Fails
<1>24. CASE Validate(c)
  BY <1>24 DEF Validate
<1>25. CASE Unlink(c)
  BY <1>25 DEF Unlink
<1>26. CASE UnlinkFails(c)
  BY <1>26 DEF UnlinkFails
<1>27. CASE RecoverRelease(c)
  BY <1>27 DEF RecoverRelease, Rolls
<1>28. CASE RollBack(c)
  BY <1>28 DEF RollBack
<1>29. CASE ValidateAgain(c)
  BY <1>29 DEF ValidateAgain
<1>30. CASE UnlinkAgain(c)
  BY <1>30 DEF UnlinkAgain
<1> QED
  BY <1>2, <1>3, <1>4, <1>5, <1>6, <1>7, <1>8, <1>9, <1>10, <1>11, <1>12, <1>13, <1>14, <1>15, <1>16, <1>17, <1>18, <1>19, <1>20, <1>21, <1>22, <1>23, <1>24, <1>25, <1>26, <1>27, <1>28, <1>29, <1>30
     DEF Step, Acquire, Recover, Operate, Release

LEMMA AlwaysLedger ==
    ASSUME Trusted
    PROVE  Spec => []Ledger
<1>1. Init => Ledger
  BY LockAssumption DEF Init, Ledger, Owes
<1>2. TypeOK /\ Exclusive /\ Ledger /\ [Next]_vars => Ledger'
  <2> SUFFICES ASSUME TypeOK, Exclusive, Ledger, [Next]_vars PROVE Ledger'
    OBVIOUS
  <2>1. ASSUME NEW c \in Calls, Step(c) PROVE Ledger'
    <3>1. Owes(c)'
      BY <2>1, LedgerOwn DEF Ledger, Exclusive
    <3>2. ASSUME NEW d \in Calls, d # c PROVE Owes(d)'
      <4>1. pc'[d] = pc[d]
        BY <2>1, <3>2, TypeStep
      <4> QED
        BY <2>1, <3>2, <4>1, LedgerFrame DEF Ledger, Owes
    <3> QED
      BY <3>1, <3>2 DEF Ledger
  <2>2. ASSUME NEW c \in Calls, Stop(c) PROVE Ledger'
    BY <2>2 DEF Stop, processVars, Ledger, Owes
  <2>3. ASSUME NEW p \in Processes, PidReused(p) PROVE Ledger'
    BY <2>3 DEF PidReused, Ledger, Owes
  <2>4. ASSUME NEW p \in Processes, Crash(p) PROVE Ledger'
    <3>1. UNCHANGED <<lock, failing, effective, faults>>
      BY <2>4 DEF Crash
    <3>2. \A c \in Calls : pc'[c] = pc[c] \/ pc'[c] = "crashed"
      BY <2>4 DEF Crash
    <3>3. ASSUME NEW c \in Calls PROVE Owes(c)'
      <4>1. CASE pc'[c] = pc[c]
        BY <3>1, <4>1 DEF Ledger, Owes
      <4>2. CASE pc'[c] = "crashed"
        BY <3>1, <4>2 DEF Ledger, Owes, Ended
      <4> QED
        BY <3>2, <4>1, <4>2
    <3> QED
      BY <3>3 DEF Ledger
  <2>5. CASE UNCHANGED vars
    BY <2>5 DEF vars, Ledger, Owes
  <2> QED
    BY <2>1, <2>2, <2>3, <2>4, <2>5 DEF Next
<1> QED
  BY <1>1, <1>2, Typing, AlwaysExclusive, PTL DEF Spec

(* A single I/O error never leaves the lock of a call that ended behind.   *)
THEOREM Released ==
    ASSUME Trusted
    PROVE  Spec => []OneFaultReleases
<1>1. Ledger => OneFaultReleases
  BY DEF Ledger, Owes, OneFaultReleases, Owning
<1> QED
  BY <1>1, AlwaysLedger, PTL

(* Nor the effect of an operation that was reported as failed.             *)
THEOREM Undone ==
    ASSUME Trusted
    PROVE  Spec => []OneFaultIsUndone
<1>1. Ledger => OneFaultIsUndone
  BY LockAssumption DEF Ledger, Owes, OneFaultIsUndone
<1> QED
  BY <1>1, AlwaysLedger, PTL
=============================================================================
