----------------------- MODULE FileTransactionProofs -----------------------
(***************************************************************************)
(* What FileTransaction promises, for every plan, every number of paths    *)
(* and every number of faults and of writes of others.                     *)
(*                                                                         *)
(* The inductive invariant is Consistent.  Control says where the loops    *)
(* are and what a step implies about its change; Locks, that a private     *)
(* file is worked on under its lock; Dated, that a snapshot is of a write  *)
(* that happened, so that a later write is told apart from it.  Progress   *)
(* is the heart: while the transaction goes forward or backward, every     *)
(* change before `at` is kept and every one after it is back, and at `at`  *)
(* itself the pc says which.  Guarded says what is at a file that is about *)
(* to be replaced, Saved what the backups hold.                            *)
(*                                                                         *)
(* A step of the transaction is a Transacts step that touches the change   *)
(* at `at` only; how it moves `at` (Retreats, Rejects, Advances, Stays,    *)
(* Holds) then decides the Progress of all the others.                     *)
(*                                                                         *)
(* Contained, in the last part, keeps the accounts: every path that others *)
(* wrote has its write, every other path whose rollback was reported has a *)
(* fault, and every lock that was left behind has two.                     *)
(***************************************************************************)
EXTENDS FileTransaction, FiniteSetTheorems, TLAPS

Indices == 1..Len(plan)
Slots == 1..(Len(plan) + 1)
Stack == 0..Len(plan)
Marks == 0..(Len(plan) + 1)

P(i) == plan[i].path

Locked == {"precheck", "check", "rename", "unlink", "sync", "release", "abandon", "abandon again",
           "accept", "validate", "accept again", "accept release", "accept retry",
           "refuse", "refuse retry", "undo check", "undo recheck", "undo apply", "undo sync",
           "undo release", "undo retry"}
Working == Locked \union {"lock", "accept lock", "undo lock"}
Unmaking == {"undo check", "undo recheck", "undo apply"}

(* The steps of a private file, and of a write. *)
OfPrivate == {"lock", "precheck", "release", "abandon", "abandon again", "accept lock", "accept",
              "validate", "accept again", "accept release", "accept retry", "refuse",
              "refuse retry", "undo lock", "undo release", "undo retry"}
OfWrite == {"precheck", "rename", "accept lock", "accept", "validate", "accept again",
            "accept release", "accept retry", "refuse", "refuse retry"}

Steps == Forward \union Verifying \union Backward \union Ended
Causes == {"sync", "release", "transaction"}

(* Where the loops are. *)
Positions ==
    /\ pc \in Working => at \in Indices
    /\ pc \in {"validating", "backup", "begin", "verify"} => at \in Slots
    /\ pc = "undo" => at \in Stack

(* What a step implies about its change, and about whose rollback runs. *)
Modes ==
    /\ pc \in OfPrivate => Change.private
    /\ pc \in OfWrite => ~ Change.delete
    /\ pc \in {"unlink", "undo recheck"} => Change.delete
    /\ pc = "sync" => Change.private \/ Change.delete
    /\ pc \in {"undo", "undo lock", "undo release", "undo retry"} => cause = "transaction"
    /\ pc \in Unmaking \union {"undo sync"} /\ cause = "release" => Change.private
    /\ pc \in Unmaking \union {"undo sync"} /\ cause = "sync" => Change.private \/ Change.delete

Control ==
    /\ plan \in Plans
    /\ pc \in Steps
    /\ at \in Marks
    /\ cause \in Causes
    /\ Positions
    /\ Modes

-----------------------------------------------------------------------------
LEMMA PlanFacts ==
    ASSUME plan \in Plans
    PROVE  /\ Len(plan) \in Nat
           /\ \A i \in Indices : /\ plan[i] \in PlannedChange
                                 /\ P(i) \in Paths
                                 /\ plan[i].exists \in BOOLEAN
                                 /\ plan[i].delete \in BOOLEAN
                                 /\ plan[i].private \in BOOLEAN
                                 /\ plan[i].delete => plan[i].exists
           /\ \A i, j \in Indices : P(i) = P(j) => i = j
<1>1. plan \in Seq(PlannedChange) /\ ValidPlan(plan)
  BY TransactionAssumption
<1>2. Len(plan) \in Nat /\ \A i \in Indices : plan[i] \in PlannedChange
  BY <1>1 DEF Indices
<1> QED
  BY <1>1, <1>2 DEF Indices, P, PlannedChange, ValidPlan

(* The arithmetic of the loops. *)
LEMMA Counting ==
    ASSUME plan \in Plans
    PROVE  /\ 1 \in Slots /\ Len(plan) \in Stack
           /\ \A i \in Indices : /\ i \in Slots /\ i \in Stack /\ i \in Marks
                                 /\ i - 1 \in Stack /\ i + 1 \in Slots
           /\ \A i \in Slots : /\ i \in Marks /\ i - 1 \in Stack
                               /\ ~ (i > Len(plan)) => i \in Indices /\ i + 1 \in Slots
           /\ \A i \in Stack : i \in Marks /\ (i # 0 => i \in Indices)
<1>1. Len(plan) \in Nat
  BY PlanFacts
<1> QED
  BY <1>1 DEF Indices, Slots, Stack, Marks

LEMMA SamePlan ==
    ASSUME plan' = plan
    PROVE  /\ Indices' = Indices /\ Slots' = Slots /\ Stack' = Stack /\ Marks' = Marks
           /\ at' = at => Change' = Change /\ Target' = Target
  BY DEF Indices, Slots, Stack, Marks, Change, Target

(* How the composed moves go on. *)
LEMMA UnwindStep ==
    ASSUME Control, plan' = plan, at \in Slots, Unwind
    PROVE  Control' /\ pc' = "undo" /\ cause' = "transaction" /\ at' = at - 1
<1>1. pc' = "undo" /\ at' = at - 1 /\ cause' = "transaction"
  BY DEF Unwind
<1>2. at' \in Stack /\ at' \in Marks
  BY <1>1, Counting DEF Control
<1>3. Positions'
  BY <1>1, <1>2, SamePlan DEF Positions, Working, Locked
<1>4. Modes'
  BY <1>1 DEF Modes, OfPrivate, OfWrite, Unmaking
<1> QED
  BY <1>1, <1>2, <1>3, <1>4, SamePlan DEF Control, Steps, Backward, Causes

LEMMA FailedStep ==
    ASSUME Control, plan' = plan, at \in Indices, Failed
    PROVE  /\ Control'
           /\ \/ pc' = "abandon" /\ at' = at /\ Change.private
              \/ pc' = "undo" /\ at' = at - 1
<1>1. CASE Change.private
  <2>1. pc' = "abandon" /\ at' = at /\ cause' = cause
    BY <1>1 DEF Failed, Goto
  <2>2. Positions'
    BY <2>1, SamePlan DEF Positions, Working, Locked
  <2>3. Modes'
    BY <1>1, <2>1, SamePlan DEF Modes, OfPrivate, OfWrite, Unmaking
  <2> QED
    BY <1>1, <2>1, <2>2, <2>3, SamePlan, Counting DEF Control, Steps, Forward
<1>2. CASE ~ Change.private
  BY <1>2, UnwindStep, Counting DEF Failed, Control
<1> QED
  BY <1>1, <1>2

LEMMA RejectedStep ==
    ASSUME Control, plan' = plan, Rejected
    PROVE  Control' /\ pc' = "undo" /\ at' = Len(plan) /\ cause' = "transaction"
<1>1. pc' = "undo" /\ at' = Len(plan) /\ cause' = "transaction"
  BY DEF Rejected
<1>2. at' \in Stack /\ at' \in Marks
  BY <1>1, Counting DEF Control
<1>3. Positions'
  BY <1>1, <1>2, SamePlan DEF Positions, Working, Locked
<1>4. Modes'
  BY <1>1 DEF Modes, OfPrivate, OfWrite, Unmaking
<1> QED
  BY <1>1, <1>2, <1>3, <1>4, SamePlan DEF Control, Steps, Backward, Causes

LEMMA JournalStep ==
    ASSUME Control, plan' = plan, cause' = cause, at \in Indices, NEW snapshot, Journal(snapshot)
    PROVE  Control' /\ pc' = "begin" /\ at' = at + 1
<1>1. pc' = "begin" /\ at' = at + 1
  BY DEF Journal
<1>2. at' \in Slots /\ at' \in Marks
  BY <1>1, Counting DEF Control
<1>3. Positions'
  BY <1>1, <1>2, SamePlan DEF Positions, Working, Locked
<1>4. Modes'
  BY <1>1 DEF Modes, OfPrivate, OfWrite, Unmaking
<1> QED
  BY <1>1, <1>2, <1>3, <1>4, SamePlan DEF Control, Steps, Forward

(* A loop begins, or takes its next turn. *)
LEMMA LoopStep ==
    ASSUME Control, plan' = plan, cause' = cause, at' \in Slots,
           pc' \in {"validating", "backup", "begin", "verify"}
    PROVE  Control'
<1>1. Positions'
  BY SamePlan DEF Positions, Working, Locked
<1>2. Modes'
  BY DEF Modes, OfPrivate, OfWrite, Unmaking
<1> QED
  BY <1>1, <1>2, SamePlan, Counting DEF Control, Steps, Forward, Verifying

LEMMA EndStep ==
    ASSUME Control, plan' = plan, cause' = cause, at' = at, pc' \in Ended
    PROVE  Control'
<1>1. Positions'
  BY SamePlan DEF Positions, Working, Locked, Ended
<1>2. Modes'
  BY DEF Modes, OfPrivate, OfWrite, Unmaking, Ended
<1> QED
  BY <1>1, <1>2, SamePlan DEF Control, Steps

(* Another operation of the same change. *)
LEMMA NextStep ==
    ASSUME Control, plan' = plan, at' = at, at \in Indices, pc' \in Working,
           cause' \in Causes,
           pc' \in OfPrivate => Change.private,
           pc' \in OfWrite => ~ Change.delete,
           pc' \in {"unlink", "undo recheck"} => Change.delete,
           pc' = "sync" => Change.private \/ Change.delete,
           pc' \in {"undo lock", "undo release", "undo retry"} => cause' = "transaction",
           pc' \in Unmaking \union {"undo sync"} /\ cause' = "release" => Change.private,
           pc' \in Unmaking \union {"undo sync"} /\ cause' = "sync" =>
             Change.private \/ Change.delete
    PROVE  Control'
<1>1. Positions'
  BY SamePlan DEF Positions, Working, Locked
<1>2. Modes'
  BY SamePlan DEF Modes, Working, Locked
<1> QED
  BY <1>1, <1>2, SamePlan DEF Control, Steps, Forward, Verifying, Backward, Working, Locked

LEMMA UndoneStep ==
    ASSUME Control, plan' = plan, at \in Indices, Undone,
           cause = "release" => Change.private
    PROVE  /\ Control'
           /\ \/ pc' = "undo" /\ at' = at - 1
              \/ pc' \in {"undo release", "abandon", "abandon again"} /\ at' = at
                 /\ Change.private
<1>1. CASE cause = "transaction" /\ ~ Change.private
  <2>1. Unwind
    BY <1>1 DEF Undone, Unwind
  <2> QED
    BY <2>1, UnwindStep, Counting DEF Control
<1>2. CASE cause = "transaction" /\ Change.private
  <2>1. pc' = "undo release" /\ at' = at /\ cause' = cause
    BY <1>2 DEF Undone, Goto
  <2>2. Control'
    BY <1>2, <2>1, NextStep DEF Control, Working, Locked, OfPrivate, OfWrite, Unmaking
  <2> QED
    BY <1>2, <2>1, <2>2
<1>3. CASE cause = "release"
  <2>1. pc' = "abandon again" /\ at' = at /\ cause' = cause
    BY <1>3 DEF Undone, Goto
  <2>2. Control'
    BY <1>3, <2>1, NextStep DEF Control, Working, Locked, OfPrivate, OfWrite, Unmaking
  <2> QED
    BY <1>3, <2>1, <2>2
<1>4. CASE cause = "sync"
  <2>1. Failed
    BY <1>4 DEF Undone
  <2> QED
    BY <2>1, FailedStep
<1> QED
  BY <1>1, <1>2, <1>3, <1>4 DEF Control, Causes

-----------------------------------------------------------------------------
(* The files.  *)
Snapshots == FileSnapshot \union {None}

Kinds ==
    /\ file \in [Paths -> Snapshots]
    /\ installed \in [Paths -> Snapshots]
    /\ saved \subseteq Paths
    /\ holder \in [Paths -> {"transaction", "updater", None}]
    /\ accepted \in Snapshots
    /\ broken \subseteq Paths
    /\ aborted \in BOOLEAN
    /\ updater \in [step : {"idle", "read", "locked", "written"}, path : Paths \union {None},
                    base : Snapshots]
    /\ touched \subseteq Paths
    /\ raced \subseteq touched
    /\ writes \in 0..MaxWrites
    /\ faults \in 0..MaxFaults

(* The lock of a private file is held where it is worked on. *)
Locks ==
    /\ pc \in Locked /\ Change.private => holder[Target] = "transaction"
    /\ updater.step \in {"locked", "written"} => holder[updater.path] = "updater"
    /\ updater.step # "idle" =>
         /\ updater.path \in Paths
         /\ \E i \in Indices : P(i) = updater.path /\ plan[i].private

(* Snapshots are of writes that happened, and the journal's are acceptable. *)
Past(snapshot) == snapshot # None => snapshot.serial <= writes
Acceptable(snapshot) == snapshot # None => snapshot.content \in {"planned", "updated"}
Unedited(snapshot) == snapshot # None => snapshot.content # "edited"

Accepting == {"accept again", "accept release", "accept retry"}

Dated ==
    /\ \A p \in Paths :
         /\ Past(file[p]) /\ Past(installed[p])
         /\ Acceptable(installed[p])
         /\ p \in touched \/ Unedited(file[p])
    /\ Past(accepted)
    /\ pc \in Accepting =>
         /\ accepted # None /\ Acceptable(accepted)
         /\ file[Target] = accepted \/ Target \in touched
    /\ pc = "validate" => accepted # None

(* A change stays made, is unmade again, is being made or unmade.  *)
Kept(i) ==
    /\ plan[i].delete \/ installed[P(i)] # None
    /\ Foreign(P(i)) \/ file[P(i)] = (IF plan[i].delete THEN None ELSE installed[P(i)])
Back(i) == Restored(plan[i]) \/ Foreign(P(i)) \/ P(i) \in broken
Made(i) == P(i) \in touched \/ file[P(i)] = (IF plan[i].delete THEN None ELSE Own("planned"))

Whole == Verifying \union {"returned"}
Fresh == {"validating", "backup", "thrown"}
Going == (Forward \ {"validating", "backup"}) \union Backward
Pending == {"begin", "lock", "precheck", "check", "rename", "unlink", "abandon", "abandon again",
            "undo sync", "undo release", "undo retry"}

Half == \A i \in Indices : (i < at => Kept(i)) /\ (i > at => Back(i))

Progress ==
    /\ pc \in Whole => \A i \in Indices : Kept(i)
    /\ pc \in Fresh => \A i \in Indices : Back(i)
    /\ pc \in Going => Half
    /\ pc \in Pending => \A i \in Indices : i = at => Back(i)
    /\ pc \in {"sync", "release"} \/ (pc \in Unmaking /\ cause # "transaction") =>
         \A i \in Indices : i = at => Made(i)
    /\ pc \in {"undo", "undo lock"} \/ (pc \in Unmaking /\ cause = "transaction") =>
         \A i \in Indices : i = at => Kept(i)

(* What is at a file that is about to be replaced or removed. *)
Guarded ==
    pc \in {"rename", "unlink", "undo apply"} =>
        \/ Target \in raced /\ (file[Target] = None \/ file[Target].content = "edited")
        \/ file[Target] = IF pc = "undo apply" THEN Installed ELSE Before(Change)

AllSaved == \A i \in Indices : plan[i].exists => P(i) \in saved
Unchanged ==
    \A i \in Indices : plan[i].exists /\ P(i) \notin touched =>
        file[P(i)] # None /\ file[P(i)].content \in {"before", "updated"}

Saved ==
    /\ AllSaved \/ (pc \in Fresh /\ Unchanged)
    /\ pc = "backup" => \A i \in Indices : i < at /\ plan[i].exists => P(i) \in saved

Consistent == Control /\ Kinds /\ Locks /\ Dated /\ Progress /\ Guarded /\ Saved

LEMMA ConsistentIsTyped == Control /\ Kinds => TypeOK
  BY DEF Control, Kinds, TypeOK, Steps, Marks, Causes, Snapshots

-----------------------------------------------------------------------------
(* What a step of the transaction may do to the files, the journal and     *)
(* the locks.                                                              *)
Transacts ==
    /\ UNCHANGED <<plan, updater, touched, writes, aborted>>
    /\ raced' = raced \/ raced' = raced \ {Target}
    /\ faults' = faults \/ Fault
    /\ \/ file' = file
       \/ /\ at \in Indices
          /\ \E s \in {Own("planned"), Own("restored"), None} :
               file' = [file EXCEPT ![Target] = s]
    /\ \/ installed' = installed
       \/ /\ at \in Indices
          /\ \E s \in {Own("planned"), None} : installed' = [installed EXCEPT ![Target] = s]
       \/ /\ at \in Indices /\ pc \in Accepting
          /\ installed' = [installed EXCEPT ![Target] = accepted]
    /\ \/ holder' = holder
       \/ /\ at \in Indices /\ holder[Target] # "updater"
          /\ \E h \in {"transaction", None} : holder' = [holder EXCEPT ![Target] = h]
    /\ broken' = broken \/ (at \in Indices /\ broken' = broken \union {Target})
    /\ accepted' = accepted \/ (at \in Indices /\ accepted' = file[Target])
    /\ saved' = saved \/ (at \in Indices /\ saved' = saved \union {Target})

LEMMA OwnIsSnapshot ==
    \A content \in {"before", "planned", "restored"} : Own(content) \in FileSnapshot
<1>1. 0 \in 0..MaxWrites
  BY TransactionAssumption
<1> QED
  BY <1>1 DEF Own, FileSnapshot

LEMMA TargetPath ==
    ASSUME plan \in Plans, at \in Indices
    PROVE  /\ Target \in Paths /\ Target = P(at) /\ Change = plan[at]
           /\ Change.exists \in BOOLEAN /\ Change.delete \in BOOLEAN
           /\ Change.private \in BOOLEAN
           /\ \A i \in Indices : i # at => P(i) # Target
           /\ \A i \in Indices : P(i) \in Paths
<1>1. Target = P(at) /\ Change = plan[at]
  BY DEF Target, P, Change
<1> QED
  BY <1>1, PlanFacts

LEMMA KindsStep ==
    ASSUME Consistent, Transacts
    PROVE  Kinds'
<1>0. Kinds /\ Control
  BY DEF Consistent
<1>1. at \in Indices => Target \in Paths
  BY <1>0, TargetPath DEF Control
<1>2. {Own("planned"), Own("restored"), None} \subseteq Snapshots
  BY OwnIsSnapshot DEF Snapshots
<1>3. file' \in [Paths -> Snapshots]
  BY <1>0, <1>1, <1>2 DEF Kinds, Transacts
<1>4. installed' \in [Paths -> Snapshots]
  BY <1>0, <1>1, <1>2 DEF Kinds, Transacts
<1>5. holder' \in [Paths -> {"transaction", "updater", None}]
  BY <1>0, <1>1 DEF Kinds, Transacts
<1>6. saved' \subseteq Paths /\ broken' \subseteq Paths /\ accepted' \in Snapshots
  BY <1>0, <1>1 DEF Kinds, Transacts
<1>7. aborted' \in BOOLEAN
  BY <1>0, Zenon DEF Kinds, Transacts
<1>8. /\ updater' \in [step : {"idle", "read", "locked", "written"}, path : Paths \union {None},
                       base : Snapshots]
      /\ touched' \subseteq Paths /\ raced' \subseteq touched'
      /\ writes' \in 0..MaxWrites
  BY <1>0 DEF Kinds, Transacts
<1>9. faults' \in 0..MaxFaults
  BY <1>0, TransactionAssumption DEF Kinds, Transacts, Fault
<1>10. Snapshots' = Snapshots
  BY DEF Snapshots, FileSnapshot
<1> QED
  BY <1>3, <1>4, <1>5, <1>6, <1>7, <1>8, <1>9, <1>10, Zenon DEF Kinds

(* The dates of the snapshots, but for where the pc is. *)
DatedFiles ==
    /\ \A p \in Paths :
         /\ Past(file[p]) /\ Past(installed[p])
         /\ Acceptable(installed[p])
         /\ p \in touched \/ Unedited(file[p])
    /\ Past(accepted)

LEMMA DatedStep ==
    ASSUME Consistent, Transacts
    PROVE  DatedFiles'
<1>0. DatedFiles /\ Control /\ Kinds
  BY DEF Consistent, Dated, DatedFiles
<1>1. at \in Indices => Target \in Paths
  BY <1>0, TargetPath DEF Control
<1>2. writes' = writes /\ touched' = touched
  BY DEF Transacts
<1>3. \A s : Past(s)' <=> Past(s)
  BY <1>2 DEF Past
<1>4. /\ \A content : Past(Own(content))
      /\ Past(None) /\ Acceptable(None) /\ Unedited(None)
      /\ Acceptable(Own("planned")) /\ Unedited(Own("planned")) /\ Unedited(Own("restored"))
  BY <1>0 DEF Past, Acceptable, Unedited, Own, Kinds
<1>5. pc \in Accepting => Acceptable(accepted) /\ Past(accepted)
  BY DEF Consistent, Dated
<1>6. ASSUME NEW p \in Paths
      PROVE  Past(file'[p]) /\ (p \in touched \/ Unedited(file'[p]))
  <2>1. file'[p] = file[p] \/ file'[p] \in {Own("planned"), Own("restored"), None}
    BY <1>0, <1>1 DEF Transacts, Kinds
  <2> QED
    BY <1>0, <1>4, <2>1 DEF DatedFiles
<1>7. ASSUME NEW p \in Paths
      PROVE  Past(installed'[p]) /\ Acceptable(installed'[p])
  <2>1. \/ installed'[p] = installed[p] \/ installed'[p] \in {Own("planned"), None}
        \/ pc \in Accepting /\ installed'[p] = accepted
    BY <1>0, <1>1 DEF Transacts, Kinds
  <2> QED
    BY <1>0, <1>4, <1>5, <2>1 DEF DatedFiles
<1>8. Past(accepted')
  BY <1>0, <1>1 DEF Transacts, DatedFiles
<1> QED
  BY <1>2, <1>3, <1>6, <1>7, <1>8 DEF DatedFiles, Past, Acceptable, Unedited

(* The updater's lock. *)
LEMMA LocksStep ==
    ASSUME Consistent, Transacts, Control',
           pc' \in Locked /\ Change'.private => holder'[Target'] = "transaction"
    PROVE  Locks'
<1>0. Locks /\ Kinds /\ Control /\ plan' = plan /\ updater' = updater
  BY DEF Consistent, Transacts
<1>1. at \in Indices => Target \in Paths
  BY <1>0, TargetPath DEF Control
<1>2. updater.step \in {"locked", "written"} => holder'[updater.path] = "updater"
  <2>1. updater.step \in {"locked", "written"} =>
          holder[updater.path] = "updater" /\ updater.path \in Paths
    BY <1>0 DEF Locks
  <2> QED
    BY <1>0, <1>1, <2>1 DEF Transacts, Kinds
<1>3. updater.step # "idle" =>
         /\ updater.path \in Paths
         /\ \E i \in Indices : P(i)' = updater.path /\ plan[i].private
  BY <1>0 DEF Locks, P
<1> QED
  BY <1>0, <1>2, <1>3, SamePlan DEF Locks

(* The other changes are as they were. *)
Elsewhere ==
    \A i \in Indices : i # at => (Kept(i)' <=> Kept(i)) /\ (Back(i)' <=> Back(i))

LEMMA ElsewhereStep ==
    ASSUME Consistent, Transacts
    PROVE  Elsewhere
<1>0. Kinds /\ Control
  BY DEF Consistent
<1>1. CASE at \in Indices
  <2> SUFFICES ASSUME NEW i \in Indices, i # at
               PROVE  (Kept(i)' <=> Kept(i)) /\ (Back(i)' <=> Back(i))
    BY DEF Elsewhere
  <2>1. P(i) # Target /\ P(i) \in Paths /\ Target \in Paths /\ P(i)' = P(i)
    BY <1>0, <1>1, TargetPath DEF Control, P, Transacts
  <2>2. /\ file'[P(i)] = file[P(i)]
        /\ installed'[P(i)] = installed[P(i)]
        /\ P(i) \in broken' <=> P(i) \in broken
        /\ touched' = touched /\ plan' = plan
    BY <1>0, <2>1 DEF Transacts, Kinds
  <2>3. Foreign(P(i))' <=> Foreign(P(i))
    BY <2>1, <2>2 DEF Foreign
  <2>4. Restored(plan[i])' <=> Restored(plan[i])
    BY <2>1, <2>2 DEF Restored, P
  <2> QED
    BY <2>1, <2>2, <2>3, <2>4 DEF Kept, Back
<1>2. CASE at \notin Indices
  <2>1. UNCHANGED <<plan, file, installed, broken, touched>>
    BY <1>2 DEF Transacts
  <2> QED
    BY <2>1 DEF Elsewhere, Kept, Back, Foreign, Restored, P
<1> QED
  BY <1>1, <1>2

(* A step that leaves the files, the journal and the reports alone.  *)
LEMMA QuietStep ==
    ASSUME UNCHANGED <<plan, file, installed, broken, touched>>
    PROVE  /\ Elsewhere
           /\ \A i \in Indices : /\ Kept(i)' <=> Kept(i)
                                 /\ Back(i)' <=> Back(i)
                                 /\ Made(i)' <=> Made(i)
<1>1. \A i : Foreign(P(i))' <=> Foreign(P(i))
  BY DEF Foreign, P
<1>2. \A i : Restored(plan[i])' <=> Restored(plan[i])
  BY DEF Restored
<1> QED
  BY <1>1, <1>2 DEF Elsewhere, Kept, Back, Made, P

(* The arithmetic of the changes before and after this one.  *)
LEMMA Order ==
    ASSUME plan \in Plans, at \in Slots
    PROVE  /\ \A i \in Indices : /\ i < at - 1 => i < at /\ i # at
                                 /\ i > at - 1 => i = at \/ i > at
                                 /\ i = at - 1 => i < at /\ i # at
                                 /\ i < at + 1 => i = at \/ i < at
                                 /\ i > at + 1 => i > at /\ i # at
                                 /\ i = at + 1 => i > at /\ i # at
                                 /\ i < at \/ i > at => i # at
                                 /\ at > Len(plan) => i < at /\ i # at
                                 /\ ~ (i > Len(plan))
           /\ at > Len(plan) => at - 1 = Len(plan)
<1>1. Len(plan) \in Nat
  BY PlanFacts
<1> QED
  BY <1>1 DEF Indices, Slots

LEMMA Retreat ==
    ASSUME Consistent, Elsewhere, plan' = plan, pc \in Going, at \in Slots,
           pc' = "undo", at' = at - 1,
           \A i \in Indices : i = at => Back(i)'
    PROVE  Progress'
<1>0. Half /\ plan \in Plans
  BY DEF Consistent, Progress, Control
<1>1. \A i \in Indices : (i < at - 1 \/ i = at - 1) => Kept(i)'
  BY <1>0, Order DEF Half, Elsewhere
<1>2. \A i \in Indices : i > at - 1 => Back(i)'
  BY <1>0, Order DEF Half, Elsewhere
<1>3. Half' /\ \A i \in Indices : i = at' => Kept(i)'
  BY <1>1, <1>2, SamePlan DEF Half
<1> QED
  BY <1>3, SamePlan DEF Progress, Whole, Verifying, Fresh, Pending, Unmaking

LEMMA Advance ==
    ASSUME Consistent, Elsewhere, plan' = plan, pc \in Going, at \in Slots,
           pc' = "begin", at' = at + 1,
           \A i \in Indices : i = at => Kept(i)'
    PROVE  Progress'
<1>0. Half /\ plan \in Plans
  BY DEF Consistent, Progress, Control
<1>1. \A i \in Indices : i < at + 1 => Kept(i)'
  BY <1>0, Order DEF Half, Elsewhere
<1>2. \A i \in Indices : i > at + 1 \/ i = at + 1 => Back(i)'
  BY <1>0, Order DEF Half, Elsewhere
<1>3. Half' /\ \A i \in Indices : i = at' => Back(i)'
  BY <1>1, <1>2, SamePlan DEF Half
<1> QED
  BY <1>3, SamePlan DEF Progress, Whole, Verifying, Fresh, Unmaking

LEMMA Stay ==
    ASSUME Consistent, Elsewhere, plan' = plan, pc \in Going, at \in Slots,
           pc' \in Going, at' = at,
           pc' \in Pending => \A i \in Indices : i = at => Back(i)',
           pc' \in {"sync", "release"} \/ (pc' \in Unmaking /\ cause' # "transaction") =>
             \A i \in Indices : i = at => Made(i)',
           pc' \in {"undo", "undo lock"} \/ (pc' \in Unmaking /\ cause' = "transaction") =>
             \A i \in Indices : i = at => Kept(i)'
    PROVE  Progress'
<1>0. Half /\ plan \in Plans
  BY DEF Consistent, Progress, Control
<1>1. Half'
  BY <1>0, Order, SamePlan DEF Half, Elsewhere
<1>2. pc' \notin Whole /\ pc' \notin Fresh
  BY DEF Going, Whole, Fresh, Forward, Backward, Verifying
<1> QED
  BY <1>1, <1>2, SamePlan DEF Progress

LEMMA Verified ==
    ASSUME plan' = plan, pc' \in Whole, \A i \in Indices : Kept(i)'
    PROVE  Progress'
<1>1. pc' \notin Fresh /\ pc' \notin Going /\ pc' \notin Pending /\ pc' \notin Unmaking
      /\ pc' \notin {"sync", "release", "undo", "undo lock"}
  BY DEF Going, Whole, Fresh, Forward, Backward, Verifying, Pending, Unmaking
<1> QED
  BY <1>1, SamePlan DEF Progress

LEMMA Rejection ==
    ASSUME plan \in Plans, plan' = plan, pc' = "undo", at' = Len(plan),
           \A i \in Indices : Kept(i)'
    PROVE  Progress'
<1>1. \A i \in Indices : ~ (i > Len(plan))
  BY PlanFacts DEF Indices
<1>2. Half'
  BY <1>1, SamePlan DEF Half
<1> QED
  BY <1>2, SamePlan DEF Progress, Whole, Verifying, Fresh, Pending, Unmaking

-----------------------------------------------------------------------------
(* A step of the transaction keeps the invariant if, besides the control   *)
(* and the progress, what the next operation relies on is there.           *)
LEMMA Assembled ==
    ASSUME Consistent, Transacts, pc \notin Fresh, Control', Progress', Guarded',
           pc' \in Locked /\ Change'.private => holder'[Target'] = "transaction",
           pc' \in Accepting =>
             /\ accepted' # None /\ Acceptable(accepted')
             /\ file'[Target'] = accepted' \/ Target' \in touched',
           pc' = "validate" => accepted' # None
    PROVE  Consistent'
<1>1. Kinds'
  BY KindsStep
<1>2. Locks'
  BY LocksStep
<1>3. Dated'
  BY DatedStep DEF DatedFiles, Dated, Acceptable
<1>4. Saved'
  <2>1. AllSaved /\ plan' = plan /\ saved \subseteq saved'
    BY DEF Consistent, Saved, Transacts
  <2>2. AllSaved'
    BY <2>1, SamePlan DEF AllSaved, P
  <2>3. pc' = "backup" => \A i \in Indices' : i < at' /\ plan'[i].exists => P(i)' \in saved'
    BY <2>2 DEF AllSaved
  <2> QED
    BY <2>2, <2>3 DEF Saved
<1> QED
  BY <1>1, <1>2, <1>3, <1>4 DEF Consistent

(* The rollback goes on with the change before.  *)
LEMMA Retreats ==
    ASSUME Consistent, Transacts, Control', pc \in Going, at \in Slots,
           pc' = "undo", at' = at - 1,
           \A i \in Indices : i = at => Back(i)'
    PROVE  Consistent'
<1>1. Progress'
  BY ElsewhereStep, Retreat DEF Transacts
<1>2. Guarded'
  BY DEF Guarded
<1>3. pc' \notin Locked /\ pc' \notin Accepting /\ pc' # "validate" /\ pc \notin Fresh
  BY DEF Locked, Accepting, Going, Forward, Backward, Fresh
<1> QED
  BY <1>1, <1>2, <1>3, Assembled

(* The rollback begins with the last change.  *)
LEMMA Rejects ==
    ASSUME Consistent, Transacts, Control', pc \in Whole,
           pc' = "undo", at' = Len(plan),
           \A i \in Indices : Kept(i)'
    PROVE  Consistent'
<1>1. Progress'
  BY Rejection DEF Transacts, Consistent, Control
<1>2. Guarded'
  BY DEF Guarded
<1>3. pc' \notin Locked /\ pc' \notin Accepting /\ pc' # "validate" /\ pc \notin Fresh
  BY DEF Locked, Accepting, Whole, Verifying, Fresh
<1> QED
  BY <1>1, <1>2, <1>3, Assembled

(* The loop goes on with the next change.  *)
LEMMA Advances ==
    ASSUME Consistent, Transacts, Control', pc \in Going, at \in Slots,
           pc' = "begin", at' = at + 1,
           \A i \in Indices : i = at => Kept(i)'
    PROVE  Consistent'
<1>1. Progress'
  BY ElsewhereStep, Advance DEF Transacts
<1>2. Guarded'
  BY DEF Guarded
<1>3. pc' \notin Locked /\ pc' \notin Accepting /\ pc' # "validate" /\ pc \notin Fresh
  BY DEF Locked, Accepting, Going, Forward, Backward, Fresh
<1> QED
  BY <1>1, <1>2, <1>3, Assembled

(* The next operation is on the same change.  *)
LEMMA Stays ==
    ASSUME Consistent, Transacts, Control', pc \in Going, at \in Slots,
           pc' \in Going, at' = at, Guarded',
           pc' \in Locked /\ Change.private => holder'[Target] = "transaction",
           pc' \in Pending => \A i \in Indices : i = at => Back(i)',
           pc' \in {"sync", "release"} \/ (pc' \in Unmaking /\ cause' # "transaction") =>
             \A i \in Indices : i = at => Made(i)',
           pc' \in {"undo", "undo lock"} \/ (pc' \in Unmaking /\ cause' = "transaction") =>
             \A i \in Indices : i = at => Kept(i)'
    PROVE  Consistent'
<1>1. plan' = plan
  BY DEF Transacts
<1>2. Progress'
  BY <1>1, ElsewhereStep, Stay
<1>3. pc' \notin Accepting /\ pc' # "validate" /\ pc \notin Fresh
  BY DEF Accepting, Going, Forward, Backward, Fresh
<1> QED
  BY <1>1, <1>2, <1>3, SamePlan, Assembled

(* The verification goes on.  *)
LEMMA Holds ==
    ASSUME Consistent, Transacts, Control', pc \in Whole, pc' \in Whole,
           \A i \in Indices : Kept(i)',
           pc' \in Locked /\ Change'.private => holder'[Target'] = "transaction",
           pc' \in Accepting =>
             /\ accepted' # None /\ Acceptable(accepted')
             /\ file'[Target'] = accepted' \/ Target' \in touched',
           pc' = "validate" => accepted' # None
    PROVE  Consistent'
<1>1. Progress'
  BY Verified DEF Transacts
<1>2. Guarded'
  BY DEF Guarded, Whole, Verifying
<1>3. pc \notin Fresh
  BY DEF Whole, Verifying, Fresh
<1> QED
  BY <1>1, <1>2, <1>3, Assembled

-----------------------------------------------------------------------------
(* A step of the transaction that changes neither the files nor the locks. *)
Idles ==
    UNCHANGED <<plan, file, installed, saved, holder, accepted, broken, aborted, updater,
                touched, writes>>

LEMMA IdleStep ==
    ASSUME Consistent, Idles,
           raced' = raced \/ raced' = raced \ {Target},
           faults' = faults \/ Fault
    PROVE  /\ Transacts
           /\ \A i \in Indices : /\ Kept(i)' <=> Kept(i)
                                 /\ Back(i)' <=> Back(i)
                                 /\ Made(i)' <=> Made(i)
<1>1. Transacts
  BY DEF Idles, Transacts
<1>2. UNCHANGED <<plan, file, installed, broken, touched>>
  BY DEF Idles
<1> QED
  BY <1>1, <1>2, QuietStep

(* An operation fails with nothing to undo.  *)
LEMMA Fails ==
    ASSUME Consistent, Transacts, pc \in Going, pc \in Locked, at \in Indices, Failed,
           holder' = holder,
           \A i \in Indices : i = at => Back(i)'
    PROVE  Consistent'
<1>0. Control /\ Locks /\ plan' = plan /\ at \in Slots
  BY Counting DEF Consistent, Control, Transacts
<1>1. /\ Control'
      /\ \/ pc' = "abandon" /\ at' = at /\ Change.private
         \/ pc' = "undo" /\ at' = at - 1
  BY <1>0, FailedStep
<1>2. CASE pc' = "undo" /\ at' = at - 1
  BY <1>0, <1>1, <1>2, Retreats
<1>3. CASE pc' = "abandon" /\ at' = at /\ Change.private
  <2>1. holder'[Target] = "transaction"
    BY <1>0, <1>3 DEF Locks
  <2>2. Guarded' /\ pc' \in Going /\ pc' \notin Unmaking
    BY <1>3 DEF Guarded, Going, Forward, Unmaking
  <2> QED
    BY <1>0, <1>1, <1>3, <2>1, <2>2, Stays
<1> QED
  BY <1>1, <1>2, <1>3

(* The rollback of a change is over.  *)
LEMMA Ends ==
    ASSUME Consistent, Transacts, Undone, pc \in Unmaking \union {"undo sync"},
           holder' = holder,
           \A i \in Indices : i = at => Back(i)'
    PROVE  Consistent'
<1>0. Control /\ Locks /\ plan' = plan /\ pc \in Going /\ pc \in Locked
  BY DEF Consistent, Control, Transacts, Going, Backward, Locked, Unmaking
<1>1. at \in Indices /\ at \in Slots /\ (cause = "release" => Change.private)
  BY <1>0, Counting DEF Control, Positions, Working, Locked, Modes
<1>2. /\ Control'
      /\ \/ pc' = "undo" /\ at' = at - 1
         \/ pc' \in {"undo release", "abandon", "abandon again"} /\ at' = at /\ Change.private
  BY <1>0, <1>1, UndoneStep
<1>3. CASE pc' = "undo" /\ at' = at - 1
  BY <1>0, <1>1, <1>2, <1>3, Retreats
<1>4. CASE pc' \in {"undo release", "abandon", "abandon again"} /\ at' = at /\ Change.private
  <2>1. holder'[Target] = "transaction"
    BY <1>0, <1>4 DEF Locks
  <2>2. Guarded' /\ pc' \in Going /\ pc' \notin Unmaking
        /\ pc' \notin {"sync", "release", "undo", "undo lock"}
    BY <1>4 DEF Guarded, Going, Forward, Backward, Unmaking
  <2> QED
    BY <1>0, <1>1, <1>2, <1>4, <2>1, <2>2, Stays
<1> QED
  BY <1>2, <1>3, <1>4

(* ... because it threw.  *)
LEMMA Reports ==
    ASSUME at \in Indices, Breaks
    PROVE  /\ Undone /\ broken' = broken \union {Target}
           /\ \A i \in Indices : i = at => P(i) \in broken'
  BY DEF Breaks, Target, P

-----------------------------------------------------------------------------
(* What holds at an operation.  *)
LEMMA AtWork ==
    ASSUME Consistent
    PROVE  /\ pc \in Working => at \in Indices
           /\ at \in Indices => at \in Slots
           /\ pc \in {"validating", "backup", "begin", "verify"} => at \in Slots
           /\ pc \in Locked /\ Change.private => holder[Target] = "transaction"
           /\ pc \in Whole => \A i \in Indices : Kept(i)
           /\ pc \in Pending => \A i \in Indices : i = at => Back(i)
           /\ pc \in {"sync", "release"} \/ (pc \in Unmaking /\ cause # "transaction") =>
                \A i \in Indices : i = at => Made(i)
           /\ pc \in {"undo", "undo lock"} \/ (pc \in Unmaking /\ cause = "transaction") =>
                \A i \in Indices : i = at => Kept(i)
<1>1. Control /\ Locks /\ Progress
  BY DEF Consistent
<1> QED
  BY <1>1, Counting DEF Control, Positions, Locks, Progress

LEMMA BeginKeeps == Consistent /\ Begin => Consistent'
<1> SUFFICES ASSUME Consistent, Begin PROVE Consistent'
  OBVIOUS
<1>0. Control /\ pc = "begin" /\ pc \in Going /\ pc \in Pending /\ at \in Slots
  BY AtWork DEF Begin, Consistent, Going, Forward, Pending
<1>1. Idles /\ raced' = raced /\ faults' = faults /\ plan' = plan
  BY DEF Begin, Idles, othersVars
<1>2. /\ Transacts
      /\ \A i \in Indices : i = at => Back(i)'
      /\ \A i \in Indices : Kept(i)' <=> Kept(i)
  BY <1>0, <1>1, IdleStep, AtWork
<1>3. CASE aborted
  <2>1. Unwind
    BY <1>3 DEF Begin
  <2> QED
    BY <1>0, <1>1, <1>2, <2>1, UnwindStep, Retreats
<1>4. CASE ~ aborted /\ at > Len(plan)
  <2>1. pc' = "verify" /\ at' = 1 /\ cause' = cause
    BY <1>4 DEF Begin
  <2>2. at' \in Slots
    BY <1>0, <2>1, Counting DEF Control
  <2>3. Control'
    BY <1>0, <1>1, <2>1, <2>2, LoopStep
  <2>4. \A i \in Indices : Kept(i)'
    BY <1>0, <1>2, <1>4, Order DEF Consistent, Control, Progress, Half
  <2>5. Progress'
    BY <1>1, <2>1, <2>4, Verified DEF Whole, Verifying
  <2> QED
    BY <1>0, <1>2, <2>1, <2>3, <2>5, Assembled DEF Guarded, Fresh, Locked, Accepting
<1>5. CASE ~ aborted /\ ~ (at > Len(plan))
  <2>1. pc' = (IF Change.private THEN "lock" ELSE "check") /\ at' = at /\ cause' = cause
    BY <1>5 DEF Begin, Goto
  <2>2. at \in Indices
    BY <1>0, <1>5, Counting DEF Control
  <2>3. Control'
    BY <1>0, <1>1, <2>1, <2>2, NextStep DEF Control, Working, Locked, OfPrivate, OfWrite, Unmaking
  <2>4. pc' \in Going /\ pc' \in Pending /\ pc' \notin Unmaking /\ Guarded'
        /\ pc' \notin {"sync", "release", "undo", "undo lock"}
    BY <2>1 DEF Going, Forward, Pending, Unmaking, Guarded
  <2>5. pc' \in Locked => ~ Change.private
    BY <2>1 DEF Locked
  <2> QED
    BY <1>0, <1>2, <2>1, <2>3, <2>4, <2>5, Stays
<1> QED
  BY <1>3, <1>4, <1>5

LEMMA LockKeeps == Consistent /\ Lock => Consistent'
<1> SUFFICES ASSUME Consistent, Lock PROVE Consistent'
  OBVIOUS
<1>0. /\ Control /\ Kinds /\ plan' = plan
      /\ pc = "lock" /\ pc \in Going /\ pc \in Pending /\ pc \in Working
      /\ Change.private
  BY DEF Lock, Consistent, Control, Modes, OfPrivate, Going, Forward, Pending, Working
<1>1. at \in Indices /\ at \in Slots
  BY <1>0, AtWork
<1>2. Target \in Paths
  BY <1>0, <1>1, TargetPath DEF Control
<1>3. \A i \in Indices : i = at => Back(i)'
  BY <1>0, AtWork, QuietStep DEF Lock, othersVars
<1>4. CASE TakesNot /\ Unwind
  <2>1. Transacts
    BY <1>4 DEF Lock, TakesNot, Transacts, othersVars
  <2> QED
    BY <1>0, <1>1, <1>3, <1>4, <2>1, UnwindStep, Retreats
<1>5. CASE Takes(IF Change.delete THEN "check" ELSE "precheck") /\ UNCHANGED <<cause, faults>>
  <2>1. /\ pc' = (IF Change.delete THEN "check" ELSE "precheck") /\ at' = at /\ cause' = cause
        /\ holder[Target] = None /\ holder' = [holder EXCEPT ![Target] = "transaction"]
    BY <1>5 DEF Takes, Goto
  <2>2. holder[Target] # "updater"
    BY <2>1, NoneAssumption
  <2>3. Transacts
    BY <1>1, <1>5, <2>1, <2>2 DEF Lock, Transacts, othersVars
  <2>4. Control'
    BY <1>0, <1>1, <2>1, NextStep DEF Control, Working, Locked, OfPrivate, OfWrite, Unmaking
  <2>5. holder'[Target] = "transaction"
    BY <1>0, <1>2, <2>1 DEF Kinds
  <2>6. pc' \in Going /\ pc' \in Pending /\ pc' \notin Unmaking /\ Guarded'
        /\ pc' \notin {"sync", "release", "undo", "undo lock"}
    BY <2>1 DEF Going, Forward, Pending, Unmaking, Guarded
  <2> QED
    BY <1>0, <1>1, <1>3, <2>1, <2>3, <2>4, <2>5, <2>6, Stays
<1> QED
  BY <1>4, <1>5 DEF Lock

LEMMA PrecheckKeeps == Consistent /\ Precheck => Consistent'
<1> SUFFICES ASSUME Consistent, Precheck PROVE Consistent'
  OBVIOUS
<1>0. /\ Control /\ plan' = plan /\ holder' = holder
      /\ pc = "precheck" /\ pc \in Going /\ pc \in Pending /\ pc \in Working /\ pc \in Locked
  BY DEF Precheck, Consistent, Going, Forward, Pending, Working, Locked
<1>1. at \in Indices /\ at \in Slots
  BY <1>0, AtWork
<1>2. Idles /\ raced' = raced /\ faults' = faults
  BY DEF Precheck, Idles, othersVars
<1>3. Transacts /\ \A i \in Indices : i = at => Back(i)'
  BY <1>0, <1>2, IdleStep, AtWork
<1>4. CASE AsPlanned
  <2>1. pc' = "check" /\ at' = at /\ cause' = cause
    BY <1>4 DEF Precheck, Goto
  <2>2. Control'
    BY <1>0, <1>1, <2>1, NextStep DEF Control, Working, Locked, OfPrivate, OfWrite, Unmaking
  <2>3. pc' \in Going /\ pc' \in Pending /\ pc' \notin Unmaking /\ Guarded'
        /\ pc' \notin {"sync", "release", "undo", "undo lock"}
    BY <2>1 DEF Going, Forward, Pending, Unmaking, Guarded
  <2> QED
    BY <1>0, <1>1, <1>3, <2>1, <2>2, <2>3, AtWork, Stays
<1>5. CASE ~ AsPlanned
  BY <1>0, <1>1, <1>3, <1>5, Fails DEF Precheck
<1> QED
  BY <1>4, <1>5

LEMMA CheckKeeps == Consistent /\ Check => Consistent'
<1> SUFFICES ASSUME Consistent, Check PROVE Consistent'
  OBVIOUS
<1>0. /\ Control /\ plan' = plan /\ holder' = holder
      /\ pc = "check" /\ pc \in Going /\ pc \in Pending /\ pc \in Working /\ pc \in Locked
  BY DEF Check, Consistent, Going, Forward, Pending, Working, Locked
<1>1. at \in Indices /\ at \in Slots
  BY <1>0, AtWork
<1>2. Idles /\ raced' = raced \ {Target} /\ (faults' = faults \/ Fault)
  BY DEF Check, Idles
<1>3. Transacts /\ \A i \in Indices : i = at => Back(i)'
  BY <1>0, <1>2, IdleStep, AtWork
<1>4. CASE Failed
  BY <1>0, <1>1, <1>3, <1>4, Fails
<1>5. CASE /\ AsPlanned
           /\ Goto(IF Change.delete THEN "unlink" ELSE "rename")
           /\ UNCHANGED <<cause, faults>>
  <2>1. pc' = (IF Change.delete THEN "unlink" ELSE "rename") /\ at' = at /\ cause' = cause
    BY <1>5 DEF Goto
  <2>2. Control'
    BY <1>0, <1>1, <2>1, NextStep DEF Control, Working, Locked, OfPrivate, OfWrite, Unmaking
  <2>3. pc' \in Going /\ pc' \in Pending /\ pc' \notin Unmaking
        /\ pc' \notin {"sync", "release", "undo", "undo lock"}
    BY <2>1 DEF Going, Forward, Pending, Unmaking
  <2>4. file'[Target'] = Before(Change)'
    BY <1>0, <1>2, <1>5, <2>1, SamePlan DEF AsPlanned, Idles, Before
  <2>5. Guarded'
    BY <2>1, <2>4 DEF Guarded
  <2> QED
    BY <1>0, <1>1, <1>3, <2>1, <2>2, <2>3, <2>5, AtWork, Stays
<1> QED
  BY <1>4, <1>5 DEF Check

LEMMA RenameKeeps == Consistent /\ Rename => Consistent'
<1> SUFFICES ASSUME Consistent, Rename PROVE Consistent'
  OBVIOUS
<1>0. /\ Control /\ Kinds /\ plan' = plan /\ holder' = holder /\ touched' = touched
      /\ pc = "rename" /\ pc \in Going /\ pc \in Pending /\ pc \in Working /\ pc \in Locked
      /\ ~ Change.delete
  BY DEF Rename, Consistent, Control, Modes, OfWrite, Going, Forward, Pending, Working, Locked,
         othersVars
<1>1. at \in Indices /\ at \in Slots
  BY <1>0, AtWork
<1>2. Target \in Paths /\ Target = P(at) /\ Change = plan[at]
  BY <1>0, <1>1, TargetPath DEF Control
<1>3. CASE Fault /\ Failed /\ UNCHANGED <<file, installed>>
  <2>1. Idles /\ raced' = raced
    BY <1>3 DEF Rename, Idles, othersVars
  <2>2. Transacts /\ \A i \in Indices : i = at => Back(i)'
    BY <1>0, <1>3, <2>1, IdleStep, AtWork
  <2> QED
    BY <1>0, <1>1, <1>3, <2>2, Fails
<1>4. CASE /\ Sets(Own("planned"))
           /\ IF Change.private THEN Goto("sync") /\ UNCHANGED installed
              ELSE Journal(Own("planned"))
           /\ UNCHANGED <<cause, faults>>
  <2>1. /\ file' = [file EXCEPT ![Target] = Own("planned")]
        /\ file'[Target] = Own("planned")
    BY <1>0, <1>2, <1>4 DEF Sets, Kinds
  <2>2. Transacts
    BY <1>1, <1>4, <2>1 DEF Rename, Transacts, Journal, othersVars
  <2>3. CASE Change.private
    <3>1. pc' = "sync" /\ at' = at /\ cause' = cause
      BY <1>4, <2>3 DEF Goto
    <3>2. Control'
      BY <1>0, <1>1, <2>3, <3>1, NextStep
         DEF Control, Working, Locked, OfPrivate, OfWrite, Unmaking
    <3>3. pc' \in Going /\ pc' \notin Pending /\ pc' \notin Unmaking /\ Guarded'
          /\ pc' \notin {"undo", "undo lock"}
      BY <3>1 DEF Going, Forward, Pending, Unmaking, Guarded
    <3>4. \A i \in Indices : i = at => Made(i)'
      BY <1>0, <1>2, <2>1 DEF Made, P
    <3> QED
      BY <1>0, <1>1, <2>2, <3>1, <3>2, <3>3, <3>4, AtWork, Stays
  <2>4. CASE ~ Change.private
    <3>1. Journal(Own("planned")) /\ pc' = "begin" /\ at' = at + 1 /\ cause' = cause
      BY <1>4, <2>4 DEF Journal
    <3>2. Control'
      BY <1>0, <1>1, <3>1, JournalStep
    <3>3. installed'[Target] = Own("planned")
      BY <1>0, <1>2, <3>1 DEF Journal, Kinds
    <3>4. \A i \in Indices : i = at => Kept(i)'
      BY <1>0, <1>2, <2>1, <3>3, OwnIsSnapshot, NoneAssumption DEF Kept, P
    <3> QED
      BY <1>0, <1>1, <2>2, <3>1, <3>2, <3>4, Advances
  <2> QED
    BY <2>3, <2>4
<1> QED
  BY <1>3, <1>4 DEF Rename

LEMMA UnlinkKeeps == Consistent /\ Unlink => Consistent'
<1> SUFFICES ASSUME Consistent, Unlink PROVE Consistent'
  OBVIOUS
<1>0. /\ Control /\ Kinds /\ plan' = plan /\ holder' = holder /\ touched' = touched
      /\ pc = "unlink" /\ pc \in Going /\ pc \in Pending /\ pc \in Working /\ pc \in Locked
      /\ Change.delete
  BY DEF Unlink, Consistent, Control, Modes, Going, Forward, Pending, Working, Locked,
         othersVars
<1>1. at \in Indices /\ at \in Slots
  BY <1>0, AtWork
<1>2. Target \in Paths /\ Target = P(at) /\ Change = plan[at]
  BY <1>0, <1>1, TargetPath DEF Control
<1>3. CASE Failed /\ UNCHANGED file /\ (faults' = faults \/ Fault)
  <2>1. Idles /\ raced' = raced
    BY <1>3 DEF Unlink, Idles, othersVars
  <2>2. Transacts /\ \A i \in Indices : i = at => Back(i)'
    BY <1>0, <1>3, <2>1, IdleStep, AtWork
  <2> QED
    BY <1>0, <1>1, <1>3, <2>2, Fails
<1>4. CASE Sets(None) /\ Goto("sync") /\ UNCHANGED <<cause, faults>>
  <2>1. /\ file' = [file EXCEPT ![Target] = None]
        /\ file'[Target] = None
    BY <1>0, <1>2, <1>4 DEF Sets, Kinds
  <2>2. Transacts
    BY <1>1, <1>4, <2>1 DEF Unlink, Transacts, othersVars
  <2>3. pc' = "sync" /\ at' = at /\ cause' = cause
    BY <1>4 DEF Goto
  <2>4. Control'
    BY <1>0, <1>1, <2>3, NextStep DEF Control, Working, Locked, OfPrivate, OfWrite, Unmaking
  <2>5. pc' \in Going /\ pc' \notin Pending /\ pc' \notin Unmaking /\ Guarded'
        /\ pc' \notin {"undo", "undo lock"}
    BY <2>3 DEF Going, Forward, Pending, Unmaking, Guarded
  <2>6. \A i \in Indices : i = at => Made(i)'
    BY <1>0, <1>2, <2>1 DEF Made, P
  <2> QED
    BY <1>0, <1>1, <2>2, <2>3, <2>4, <2>5, <2>6, AtWork, Stays
<1> QED
  BY <1>3, <1>4 DEF Unlink

(* A fault after the change was made: it is undone at once.  *)
LEMMA UndoAtOnce ==
    ASSUME Consistent, Idles, raced' = raced, Fault, Goto("undo check"),
           pc \in {"sync", "release"},
           cause' \in {"sync", "release"},
           cause' = "release" => Change.private
    PROVE  Consistent'
<1>0. /\ Control /\ plan' = plan /\ holder' = holder
      /\ pc \in Going /\ pc \in Working /\ pc \in Locked
      /\ Change.private \/ Change.delete
      /\ pc' = "undo check" /\ at' = at
  BY DEF Idles, Consistent, Control, Modes, OfPrivate, Going, Forward, Working, Locked, Goto
<1>1. at \in Indices /\ at \in Slots
  BY <1>0, AtWork
<1>2. Transacts /\ \A i \in Indices : i = at => Made(i)'
  BY IdleStep, AtWork
<1>3. Control'
  BY <1>0, <1>1, NextStep DEF Control, Causes, Working, Locked, OfPrivate, OfWrite, Unmaking
<1>4. pc' \in Going /\ pc' \notin Pending /\ cause' # "transaction" /\ Guarded'
      /\ pc' \notin {"undo", "undo lock"}
  BY <1>0 DEF Going, Backward, Pending, Guarded
<1> QED
  BY <1>0, <1>1, <1>2, <1>3, <1>4, AtWork, Stays

LEMMA SyncKeeps == Consistent /\ Sync => Consistent'
<1> SUFFICES ASSUME Consistent, Sync PROVE Consistent'
  OBVIOUS
<1>0. /\ Control /\ Kinds /\ plan' = plan /\ holder' = holder /\ file' = file
      /\ touched' = touched
      /\ pc = "sync" /\ pc \in Going /\ pc \in Working /\ pc \in Locked
      /\ Change.private \/ Change.delete
  BY DEF Sync, Consistent, Control, Modes, Going, Forward, Working, Locked, othersVars
<1>1. at \in Indices /\ at \in Slots
  BY <1>0, AtWork
<1>2. Target \in Paths /\ Target = P(at) /\ Change = plan[at]
  BY <1>0, <1>1, TargetPath DEF Control
<1>3. \A i \in Indices : i = at => Made(i)
  BY <1>0, AtWork
<1>4. CASE Fault /\ Goto("undo check") /\ cause' = "sync" /\ UNCHANGED installed
  <2>1. Idles /\ raced' = raced
    BY <1>4 DEF Sync, Idles, othersVars
  <2> QED
    BY <1>0, <1>4, <2>1, UndoAtOnce
<1>5. CASE Change.private /\ Goto("release") /\ UNCHANGED <<installed, cause, faults>>
  <2>1. Idles /\ raced' = raced /\ faults' = faults
    BY <1>5 DEF Sync, Idles, othersVars
  <2>2. Transacts /\ \A i \in Indices : i = at => Made(i)'
    BY <1>3, <2>1, IdleStep
  <2>3. pc' = "release" /\ at' = at /\ cause' = cause
    BY <1>5 DEF Goto
  <2>4. Control'
    BY <1>0, <1>1, <1>5, <2>3, NextStep
       DEF Control, Working, Locked, OfPrivate, OfWrite, Unmaking
  <2>5. pc' \in Going /\ pc' \notin Pending /\ pc' \notin Unmaking /\ Guarded'
        /\ pc' \notin {"undo", "undo lock"}
    BY <2>3 DEF Going, Forward, Pending, Unmaking, Guarded
  <2> QED
    BY <1>0, <1>1, <2>2, <2>3, <2>4, <2>5, AtWork, Stays
<1>6. CASE ~ Change.private /\ Journal(None) /\ UNCHANGED <<cause, faults>>
  <2>1. pc' = "begin" /\ at' = at + 1 /\ Change.delete
    BY <1>0, <1>6 DEF Journal
  <2>2. Control'
    BY <1>0, <1>1, <1>6, JournalStep
  <2>3. Transacts
    BY <1>1, <1>6 DEF Sync, Transacts, Journal, othersVars
  <2>4. \A i \in Indices : i = at => Kept(i)'
    BY <1>0, <1>2, <1>3, <2>1 DEF Made, Kept, Foreign, P
  <2> QED
    BY <1>0, <1>1, <2>1, <2>2, <2>3, <2>4, Advances
<1> QED
  BY <1>4, <1>5, <1>6 DEF Sync

LEMMA ReleaseKeeps == Consistent /\ Release => Consistent'
<1> SUFFICES ASSUME Consistent, Release PROVE Consistent'
  OBVIOUS
<1>0. /\ Control /\ Kinds /\ plan' = plan /\ file' = file
      /\ touched' = touched
      /\ pc = "release" /\ pc \in Going /\ pc \in Working /\ pc \in Locked
      /\ Change.private
  BY DEF Release, Consistent, Control, Modes, OfPrivate, Going, Forward, Working, Locked,
         othersVars
<1>1. at \in Indices /\ at \in Slots
  BY <1>0, AtWork
<1>2. Target \in Paths /\ Target = P(at) /\ Change = plan[at]
  BY <1>0, <1>1, TargetPath DEF Control
<1>3. \A i \in Indices : i = at => Made(i)
  BY <1>0, AtWork
<1>4. CASE Fault /\ Goto("undo check") /\ cause' = "release"
           /\ UNCHANGED <<holder, installed, broken>>
  <2>1. Idles /\ raced' = raced
    BY <1>4 DEF Release, Idles, othersVars
  <2> QED
    BY <1>0, <1>4, <2>1, UndoAtOnce
<1>5. CASE /\ holder' = [holder EXCEPT ![Target] = None]
           /\ Journal(IF Change.delete THEN None ELSE Own("planned"))
           /\ UNCHANGED <<cause, faults, broken>>
  <2>1. pc' = "begin" /\ at' = at + 1
    BY <1>5 DEF Journal
  <2>2. Control'
    BY <1>0, <1>1, <1>5, JournalStep
  <2>3. holder[Target] # "updater"
    BY <1>0, AtWork
  <2>4. \E s \in {Own("planned"), None} : installed' = [installed EXCEPT ![Target] = s]
    BY <1>5 DEF Journal
  <2>5. Transacts
    BY <1>1, <1>5, <2>3, <2>4 DEF Release, Transacts, othersVars
  <2>6. installed'[Target] = IF Change.delete THEN None ELSE Own("planned")
    BY <1>0, <1>2, <1>5 DEF Journal, Kinds
  <2>7. \A i \in Indices : i = at => Kept(i)'
    BY <1>0, <1>2, <1>3, <2>6, OwnIsSnapshot, NoneAssumption DEF Made, Kept, Foreign, P
  <2> QED
    BY <1>0, <1>1, <2>1, <2>2, <2>5, <2>7, Advances
<1> QED
  BY <1>4, <1>5 DEF Release

LEMMA AbandonKeeps == Consistent /\ Abandon => Consistent'
<1> SUFFICES ASSUME Consistent, Abandon PROVE Consistent'
  OBVIOUS
<1>0. /\ Control /\ plan' = plan
      /\ pc \in {"abandon", "abandon again"}
      /\ pc \in Going /\ pc \in Pending /\ pc \in Working /\ pc \in Locked
      /\ Change.private
  BY DEF Abandon, Consistent, Control, Modes, OfPrivate, Going, Forward, Pending, Working, Locked
<1>1. at \in Indices /\ at \in Slots
  BY <1>0, AtWork
<1>2. \A i \in Indices : i = at => Back(i)'
  BY <1>0, AtWork, QuietStep DEF Abandon, othersVars
<1>3. holder[Target] = "transaction"
  BY <1>0, AtWork
<1>4. Transacts
  BY <1>1, <1>3 DEF Abandon, Transacts, othersVars
<1>5. CASE Unwind
  BY <1>0, <1>1, <1>2, <1>4, <1>5, UnwindStep, Retreats
<1>6. CASE UNCHANGED <<holder, cause>> /\ Goto("abandon again")
  <2>1. pc' = "abandon again" /\ at' = at /\ cause' = cause
    BY <1>6 DEF Goto
  <2>2. Control'
    BY <1>0, <1>1, <2>1, NextStep DEF Control, Working, Locked, OfPrivate, OfWrite, Unmaking
  <2>3. pc' \in Going /\ pc' \notin Unmaking /\ Guarded'
        /\ pc' \notin {"sync", "release", "undo", "undo lock"}
    BY <2>1 DEF Going, Forward, Unmaking, Guarded
  <2> QED
    BY <1>0, <1>1, <1>2, <1>3, <1>4, <1>6, <2>1, <2>2, <2>3, Stays
<1> QED
  BY <1>5, <1>6 DEF Abandon

LEMMA VerifyKeeps == Consistent /\ (Verify \/ VerifyFails) => Consistent'
<1> SUFFICES ASSUME Consistent, Verify \/ VerifyFails PROVE Consistent'
  OBVIOUS
<1>0. /\ Control /\ plan' = plan
      /\ pc = "verify" /\ pc \in Whole /\ at \in Slots
  BY AtWork DEF Verify, VerifyFails, Consistent, Whole, Verifying
<1>1. Idles /\ raced' = raced /\ faults' = faults
  BY DEF Verify, VerifyFails, Idles, othersVars
<1>2. Transacts /\ \A i \in Indices : Kept(i)'
  BY <1>0, <1>1, IdleStep, AtWork
<1>3. CASE VerifyFails
  BY <1>0, <1>2, <1>3, RejectedStep, Rejects DEF VerifyFails
<1>4. CASE at > Len(plan) /\ aborted /\ Unwind
  <2>1. Control' /\ pc' = "undo" /\ at' = at - 1
    BY <1>0, <1>4, UnwindStep
  <2>2. at' = Len(plan)
    BY <1>0, <1>4, <2>1, Order DEF Control
  <2> QED
    BY <1>0, <1>2, <2>1, <2>2, Rejects
<1>5. CASE at > Len(plan) /\ Goto("returned") /\ UNCHANGED cause
  <2>1. pc' = "returned" /\ at' = at /\ cause' = cause
    BY <1>5 DEF Goto
  <2>2. Control'
    BY <1>0, <2>1, EndStep DEF Ended
  <2>3. pc' \in Whole /\ pc' \notin Locked /\ pc' \notin Accepting /\ pc' # "validate"
    BY <2>1 DEF Whole, Locked, Accepting
  <2> QED
    BY <1>0, <1>2, <2>2, <2>3, Holds
<1>6. CASE ~ (at > Len(plan)) /\ pc' = pc /\ at' = at + 1 /\ UNCHANGED cause
  <2>1. at' \in Slots
    BY <1>0, <1>6, Counting DEF Control
  <2>2. Control'
    BY <1>0, <1>6, <2>1, LoopStep
  <2>3. pc' \in Whole /\ pc' \notin Locked /\ pc' \notin Accepting /\ pc' # "validate"
    BY <1>0, <1>6 DEF Locked, Accepting
  <2> QED
    BY <1>0, <1>2, <2>2, <2>3, Holds
<1>7. CASE /\ ~ (at > Len(plan))
           /\ Change.private /\ ~ Change.delete /\ Goto("accept lock") /\ UNCHANGED cause
  <2>1. pc' = "accept lock" /\ at' = at /\ cause' = cause
    BY <1>7 DEF Goto
  <2>2. at \in Indices
    BY <1>0, <1>7, Counting DEF Control
  <2>3. Control'
    BY <1>0, <1>7, <2>1, <2>2, NextStep
       DEF Control, Working, Locked, OfPrivate, OfWrite, Unmaking
  <2>4. pc' \in Whole /\ pc' \notin Locked /\ pc' \notin Accepting /\ pc' # "validate"
    BY <2>1 DEF Whole, Verifying, Locked, Accepting
  <2> QED
    BY <1>0, <1>2, <2>3, <2>4, Holds
<1> QED
  BY <1>3, <1>4, <1>5, <1>6, <1>7 DEF Verify

(* Where an update is considered.  *)
LEMMA AtUpdate ==
    ASSUME Consistent, plan' = plan,
           pc \in {"accept lock", "accept", "validate", "accept again", "accept release",
                   "accept retry", "refuse", "refuse retry"}
    PROVE  /\ Control /\ Kinds /\ pc \in Whole /\ at \in Indices
           /\ Change.private /\ ~ Change.delete
           /\ Target \in Paths /\ Target = P(at) /\ Change = plan[at]
           /\ \A i \in Indices : Kept(i)
           /\ pc # "accept lock" => holder[Target] = "transaction"
           /\ \A step \in {"accept", "validate", "accept again", "accept release",
                           "accept retry", "refuse", "refuse retry"} :
                pc' = step /\ at' = at /\ cause' = cause => Control' /\ step \in Whole
<1>1. Control /\ Kinds /\ Modes
  BY DEF Consistent, Control
<1>2. pc \in Whole /\ pc \in Working /\ (pc # "accept lock" => pc \in Locked)
  BY DEF Whole, Verifying, Working, Locked
<1>3. at \in Indices /\ \A i \in Indices : Kept(i)
  BY <1>2, AtWork
<1>4. Change.private /\ ~ Change.delete
  BY <1>1 DEF Modes, OfPrivate, OfWrite
<1>5. Target \in Paths /\ Target = P(at) /\ Change = plan[at]
  BY <1>1, <1>3, TargetPath DEF Control
<1>6. pc # "accept lock" => holder[Target] = "transaction"
  BY <1>2, <1>4, AtWork
<1>7. ASSUME NEW step \in {"accept", "validate", "accept again", "accept release",
                           "accept retry", "refuse", "refuse retry"},
             pc' = step, at' = at, cause' = cause
      PROVE  Control' /\ step \in Whole
  <2>1. /\ pc' \in Working
        /\ pc' \notin {"unlink", "undo recheck", "sync", "undo lock", "undo release",
                       "undo retry"}
        /\ pc' \notin Unmaking \union {"undo sync"}
    BY <1>7 DEF Working, Locked, Unmaking
  <2>2. Control'
    BY <1>1, <1>3, <1>4, <1>7, <2>1, NextStep DEF Control
  <2> QED
    BY <1>7, <2>2 DEF Whole, Verifying
<1> QED
  BY <1>1, <1>2, <1>3, <1>4, <1>5, <1>6, <1>7

LEMMA AcceptLockKeeps == Consistent /\ AcceptLock => Consistent'
<1> SUFFICES ASSUME Consistent, AcceptLock PROVE Consistent'
  OBVIOUS
<1>0. pc = "accept lock" /\ plan' = plan
  BY DEF AcceptLock
<1>1. /\ Control /\ Kinds /\ pc \in Whole /\ at \in Indices /\ Target \in Paths
      /\ \A i \in Indices : Kept(i)
  BY <1>0, AtUpdate
<1>2. \A i \in Indices : Kept(i)'
  BY <1>1, QuietStep DEF AcceptLock, othersVars
<1>3. CASE TakesNot /\ Rejected
  <2>1. Transacts
    BY <1>3 DEF AcceptLock, TakesNot, Transacts, othersVars
  <2> QED
    BY <1>0, <1>1, <1>2, <1>3, <2>1, RejectedStep, Rejects
<1>4. CASE Takes("accept") /\ UNCHANGED <<cause, faults>>
  <2>1. /\ pc' = "accept" /\ at' = at /\ cause' = cause
        /\ holder[Target] = None /\ holder' = [holder EXCEPT ![Target] = "transaction"]
    BY <1>4 DEF Takes, Goto
  <2>2. holder[Target] # "updater"
    BY <2>1, NoneAssumption
  <2>3. Transacts
    BY <1>1, <1>4, <2>1, <2>2 DEF AcceptLock, Transacts, othersVars
  <2>4. Control' /\ pc' \in Whole
    BY <1>0, <2>1, AtUpdate
  <2>5. holder'[Target'] = "transaction"
    BY <1>0, <1>1, <2>1, SamePlan DEF Kinds
  <2> QED
    BY <1>1, <1>2, <2>1, <2>3, <2>4, <2>5, Holds DEF Accepting
<1> QED
  BY <1>3, <1>4 DEF AcceptLock

LEMMA AcceptKeeps == Consistent /\ Accept => Consistent'
<1> SUFFICES ASSUME Consistent, Accept PROVE Consistent'
  OBVIOUS
<1>0. pc = "accept" /\ plan' = plan /\ holder' = holder /\ at' = at /\ cause' = cause
  BY DEF Accept, Goto
<1>1. /\ pc \in Whole /\ at \in Indices /\ \A i \in Indices : Kept(i)
      /\ holder[Target] = "transaction"
  BY <1>0, AtUpdate
<1>2. \A i \in Indices : Kept(i)'
  BY <1>1, QuietStep DEF Accept, othersVars
<1>3. Transacts
  BY <1>1 DEF Accept, Transacts, othersVars
<1>4. /\ pc' = (IF file[Target] = None THEN "refuse" ELSE "validate")
      /\ accepted' = file[Target]
  BY DEF Accept, Goto
<1>5. Control' /\ pc' \in Whole
  BY <1>0, <1>4, AtUpdate
<1>6. holder'[Target'] = "transaction" /\ pc' \notin Accepting
      /\ (pc' = "validate" => accepted' # None)
  BY <1>0, <1>1, <1>4, SamePlan DEF Accepting
<1> QED
  BY <1>1, <1>2, <1>3, <1>5, <1>6, Holds

LEMMA ValidateUpdateKeeps == Consistent /\ ValidateUpdate => Consistent'
<1> SUFFICES ASSUME Consistent, ValidateUpdate PROVE Consistent'
  OBVIOUS
<1>0. pc = "validate" /\ plan' = plan /\ holder' = holder /\ at' = at /\ cause' = cause
      /\ accepted' = accepted /\ file' = file /\ touched' = touched
  BY DEF ValidateUpdate, Goto, othersVars
<1>1. /\ pc \in Whole /\ at \in Indices /\ \A i \in Indices : Kept(i)
      /\ holder[Target] = "transaction" /\ accepted # None
  BY <1>0, AtUpdate DEF Consistent, Dated
<1>2. Idles /\ raced' = raced /\ faults' = faults
  BY DEF ValidateUpdate, Idles, othersVars
<1>3. Transacts /\ \A i \in Indices : Kept(i)'
  BY <1>1, <1>2, IdleStep
<1>4. CASE pc' = "refuse"
  <2>1. Control' /\ pc' \in Whole
    BY <1>0, <1>4, AtUpdate
  <2> QED
    BY <1>0, <1>1, <1>3, <1>4, <2>1, SamePlan, Holds DEF Accepting
<1>5. CASE /\ accepted.content \in {"planned", "updated"} /\ file[Target] = accepted
           /\ pc' = "accept again"
  <2>1. Control' /\ pc' \in Whole
    BY <1>0, <1>5, AtUpdate
  <2>2. Acceptable(accepted') /\ file'[Target'] = accepted' /\ accepted' # None
    BY <1>0, <1>1, <1>5, SamePlan DEF Acceptable
  <2> QED
    BY <1>0, <1>1, <1>3, <1>5, <2>1, <2>2, SamePlan, Holds DEF Accepting
<1> QED
  BY <1>4, <1>5 DEF ValidateUpdate, Goto

LEMMA AcceptAgainKeeps == Consistent /\ AcceptAgain => Consistent'
<1> SUFFICES ASSUME Consistent, AcceptAgain PROVE Consistent'
  OBVIOUS
<1>0. pc = "accept again" /\ plan' = plan /\ holder' = holder /\ at' = at /\ cause' = cause
      /\ accepted' = accepted /\ file' = file /\ touched' = touched
  BY DEF AcceptAgain, Goto, othersVars
<1>1. /\ pc \in Whole /\ at \in Indices /\ \A i \in Indices : Kept(i)
      /\ holder[Target] = "transaction" /\ accepted # None /\ Acceptable(accepted)
  BY <1>0, AtUpdate DEF Consistent, Dated, Accepting
<1>2. Idles /\ raced' = raced /\ faults' = faults
  BY DEF AcceptAgain, Idles, othersVars
<1>3. Transacts /\ \A i \in Indices : Kept(i)'
  BY <1>1, <1>2, IdleStep
<1>4. pc' = (IF file[Target] = accepted THEN "accept release" ELSE "refuse")
  BY DEF AcceptAgain, Goto
<1>5. Control' /\ pc' \in Whole
  BY <1>0, <1>4, AtUpdate
<1>6. pc' \in Accepting => file'[Target'] = accepted'
  BY <1>0, <1>4, SamePlan DEF Accepting
<1>7. Acceptable(accepted') /\ accepted' # None /\ pc' # "validate"
      /\ holder'[Target'] = "transaction"
  BY <1>0, <1>1, <1>4, SamePlan DEF Acceptable
<1> QED
  BY <1>1, <1>3, <1>5, <1>6, <1>7, Holds

LEMMA AcceptReleaseKeeps == Consistent /\ AcceptRelease => Consistent'
<1> SUFFICES ASSUME Consistent, AcceptRelease PROVE Consistent'
  OBVIOUS
<1>0. /\ pc \in {"accept release", "accept retry"} /\ plan' = plan
      /\ accepted' = accepted /\ file' = file /\ touched' = touched /\ broken' = broken
      /\ installed' = [installed EXCEPT ![Target] = accepted]
  BY DEF AcceptRelease, othersVars
<1>1. /\ Control /\ Kinds /\ pc \in Whole /\ at \in Indices /\ \A i \in Indices : Kept(i)
      /\ Target \in Paths /\ Target = P(at) /\ Change = plan[at] /\ ~ Change.delete
      /\ holder[Target] = "transaction"
  BY <1>0, AtUpdate
<1>2. accepted # None /\ Acceptable(accepted) /\ (file[Target] = accepted \/ Target \in touched)
  BY <1>0 DEF Consistent, Dated, Accepting
<1>3. Transacts
  BY <1>0, <1>1 DEF AcceptRelease, Transacts, Accepting, othersVars
<1>4. \A i \in Indices : Kept(i)'
  <2>1. installed'[Target] = accepted
    BY <1>0, <1>1 DEF Kinds
  <2>3. \A i \in Indices : i = at => Kept(i)'
    BY <1>0, <1>1, <1>2, <2>1 DEF Kept, Foreign, P
  <2> QED
    BY <1>1, <1>3, <2>3, ElsewhereStep DEF Elsewhere
<1>5. CASE Rejected
  BY <1>0, <1>1, <1>3, <1>4, <1>5, RejectedStep, Rejects
<1>6. CASE pc' = "verify" /\ at' = at + 1 /\ UNCHANGED cause
  <2>1. at' \in Slots
    BY <1>1, <1>6, Counting DEF Control
  <2>2. Control'
    BY <1>0, <1>1, <1>6, <2>1, LoopStep
  <2>3. pc' \in Whole /\ pc' \notin Locked /\ pc' \notin Accepting /\ pc' # "validate"
    BY <1>6 DEF Whole, Verifying, Locked, Accepting
  <2> QED
    BY <1>1, <1>3, <1>4, <2>2, <2>3, Holds
<1>7. CASE Goto("accept retry") /\ UNCHANGED cause /\ UNCHANGED holder
  <2>1. pc' = "accept retry" /\ at' = at /\ cause' = cause
    BY <1>7 DEF Goto
  <2>2. Control' /\ pc' \in Whole
    BY <1>0, <2>1, AtUpdate
  <2>3. /\ accepted' # None /\ Acceptable(accepted')
        /\ file'[Target'] = accepted' \/ Target' \in touched'
        /\ holder'[Target'] = "transaction"
    BY <1>0, <1>1, <1>2, <1>7, <2>1, SamePlan DEF Acceptable
  <2> QED
    BY <1>1, <1>3, <1>4, <2>1, <2>2, <2>3, Holds
<1> QED
  BY <1>5, <1>6, <1>7 DEF AcceptRelease

LEMMA RefuseKeeps == Consistent /\ Refuse => Consistent'
<1> SUFFICES ASSUME Consistent, Refuse PROVE Consistent'
  OBVIOUS
<1>0. pc \in {"refuse", "refuse retry"} /\ plan' = plan
  BY DEF Refuse
<1>1. /\ Control /\ pc \in Whole /\ at \in Indices /\ \A i \in Indices : Kept(i)
      /\ holder[Target] = "transaction"
  BY <1>0, AtUpdate
<1>2. \A i \in Indices : Kept(i)'
  BY <1>1, QuietStep DEF Refuse, othersVars
<1>3. Transacts
  BY <1>1 DEF Refuse, Transacts, othersVars
<1>4. CASE Rejected
  BY <1>0, <1>1, <1>2, <1>3, <1>4, RejectedStep, Rejects
<1>5. CASE Goto("refuse retry") /\ UNCHANGED cause /\ UNCHANGED holder
  <2>1. pc' = "refuse retry" /\ at' = at /\ cause' = cause
    BY <1>5 DEF Goto
  <2>2. Control' /\ pc' \in Whole
    BY <1>0, <2>1, AtUpdate
  <2>3. holder'[Target'] = "transaction"
    BY <1>0, <1>1, <1>5, <2>1, SamePlan
  <2> QED
    BY <1>1, <1>2, <1>3, <2>1, <2>2, <2>3, Holds DEF Accepting
<1> QED
  BY <1>4, <1>5 DEF Refuse

LEMMA UndoKeeps == Consistent /\ Undo => Consistent'
<1> SUFFICES ASSUME Consistent, Undo PROVE Consistent'
  OBVIOUS
<1>0. /\ Control /\ plan' = plan /\ cause' = cause /\ at' = at
      /\ pc = "undo" /\ pc \in Going /\ pc \notin Fresh /\ at \in Stack /\ cause = "transaction"
  BY DEF Undo, Goto, Consistent, Control, Positions, Modes, Going, Backward, Fresh
<1>1. Idles /\ raced' = raced /\ faults' = faults
  BY DEF Undo, Idles, othersVars
<1>2. /\ Transacts
      /\ \A i \in Indices : (Kept(i)' <=> Kept(i)) /\ (Back(i)' <=> Back(i))
  BY <1>1, IdleStep
<1>3. CASE at = 0
  <2>1. pc' = "thrown"
    BY <1>3 DEF Undo, Goto
  <2>2. Control'
    BY <1>0, <2>1, EndStep DEF Ended
  <2>3. \A i \in Indices : i > at
    BY <1>0, <1>3, PlanFacts DEF Control, Indices
  <2>4. \A i \in Indices : Back(i)'
    BY <1>0, <1>2, <2>3 DEF Consistent, Progress, Half
  <2>5. Progress'
    BY <1>0, <2>1, <2>4, SamePlan
       DEF Progress, Whole, Verifying, Fresh, Going, Forward, Backward, Pending, Unmaking
  <2> QED
    BY <1>0, <1>2, <2>1, <2>2, <2>5, Assembled DEF Guarded, Locked, Accepting
<1>4. CASE at # 0
  <2>1. pc' = IF Change.private THEN "undo lock" ELSE "undo check"
    BY <1>4 DEF Undo, Goto
  <2>2. at \in Indices /\ at \in Slots
    BY <1>0, <1>4, Counting DEF Control
  <2>3. Control'
    BY <1>0, <2>1, <2>2, NextStep DEF Control, Working, Locked, OfPrivate, OfWrite, Unmaking
  <2>4. pc' \in Going /\ pc' \notin Pending /\ Guarded' /\ pc' \notin {"sync", "release"}
    BY <2>1 DEF Going, Backward, Pending, Guarded
  <2>5. pc' \in Locked => ~ Change.private
    BY <2>1 DEF Locked
  <2>6. \A i \in Indices : i = at => Kept(i)'
    BY <1>0, <1>2, AtWork
  <2> QED
    BY <1>0, <1>2, <2>2, <2>3, <2>4, <2>5, <2>6, Stays
<1> QED
  BY <1>3, <1>4

LEMMA UndoLockKeeps == Consistent /\ UndoLock => Consistent'
<1> SUFFICES ASSUME Consistent, UndoLock PROVE Consistent'
  OBVIOUS
<1>0. /\ Control /\ Kinds /\ plan' = plan /\ cause' = cause
      /\ pc = "undo lock" /\ pc \in Going /\ pc \in Working
      /\ Change.private /\ cause = "transaction"
  BY DEF UndoLock, Consistent, Control, Modes, OfPrivate, Going, Backward, Working
<1>1. at \in Indices /\ at \in Slots
  BY <1>0, AtWork
<1>2. Target \in Paths /\ Target = P(at)
  BY <1>0, <1>1, TargetPath DEF Control
<1>3. CASE TakesNot /\ broken' = broken \union {Target} /\ pc' = "undo" /\ at' = at - 1
  <2>1. Transacts
    BY <1>1, <1>3 DEF UndoLock, TakesNot, Transacts, othersVars
  <2>2. Unwind
    BY <1>0, <1>3 DEF Unwind
  <2>3. Control'
    BY <1>0, <1>1, <2>2, UnwindStep
  <2>4. \A i \in Indices : i = at => Back(i)'
    BY <1>0, <1>2, <1>3 DEF Back, P
  <2> QED
    BY <1>0, <1>1, <1>3, <2>1, <2>3, <2>4, Retreats
<1>4. CASE Takes("undo check") /\ UNCHANGED <<broken, faults>>
  <2>1. /\ pc' = "undo check" /\ at' = at
        /\ holder[Target] = None /\ holder' = [holder EXCEPT ![Target] = "transaction"]
    BY <1>4 DEF Takes, Goto
  <2>2. holder[Target] # "updater"
    BY <2>1, NoneAssumption
  <2>3. Transacts
    BY <1>1, <1>4, <2>1, <2>2 DEF UndoLock, Transacts, othersVars
  <2>4. Control'
    BY <1>0, <1>1, <2>1, NextStep DEF Control, Working, Locked, OfPrivate, OfWrite, Unmaking
  <2>5. holder'[Target] = "transaction"
    BY <1>0, <1>2, <2>1 DEF Kinds
  <2>6. pc' \in Going /\ pc' \notin Pending /\ pc' \notin {"sync", "release"} /\ Guarded'
    BY <2>1 DEF Going, Backward, Pending, Guarded
  <2>7. \A i \in Indices : i = at => Kept(i)'
    BY <1>0, <1>4, AtWork, QuietStep DEF UndoLock, othersVars
  <2> QED
    BY <1>0, <1>1, <2>1, <2>3, <2>4, <2>5, <2>6, <2>7, Stays
<1> QED
  BY <1>3, <1>4 DEF UndoLock

(* Where a change is unmade.  *)
LEMMA AtUndoing ==
    ASSUME Consistent, plan' = plan, pc \in Unmaking \union {"undo sync"}
    PROVE  /\ Control /\ Kinds /\ pc \in Going
           /\ at \in Indices /\ at \in Slots
           /\ Target \in Paths /\ Target = P(at) /\ Change = plan[at]
           /\ Change.private => holder[Target] = "transaction"
           /\ cause = "release" => Change.private
           /\ cause = "sync" => Change.private \/ Change.delete
<1>1. Control /\ Kinds /\ Modes
  BY DEF Consistent, Control
<1>2. pc \in Going /\ pc \in Working /\ pc \in Locked
  BY DEF Going, Backward, Working, Locked, Unmaking
<1>3. at \in Indices /\ at \in Slots /\ (Change.private => holder[Target] = "transaction")
  BY <1>2, AtWork
<1> QED
  BY <1>1, <1>2, <1>3, TargetPath DEF Control, Modes

LEMMA BreaksKeeps ==
    ASSUME Consistent, Breaks, plan' = plan, pc \in Unmaking \union {"undo sync"},
           UNCHANGED <<file, installed, saved, holder, accepted, aborted, updater, touched,
                       writes>>,
           raced' = raced \/ raced' = raced \ {Target},
           faults' = faults \/ Fault
    PROVE  Consistent'
<1>1. at \in Indices
  BY AtUndoing
<1>2. /\ Undone /\ broken' = broken \union {Target}
      /\ \A i \in Indices : i = at => P(i) \in broken'
  BY <1>1, Reports
<1>3. Transacts
  BY <1>1, <1>2 DEF Transacts
<1>4. \A i \in Indices : i = at => Back(i)'
  BY <1>2 DEF Back, P
<1> QED
  BY <1>2, <1>3, <1>4, Ends

LEMMA UndoCheckKeeps == Consistent /\ UndoCheck => Consistent'
<1> SUFFICES ASSUME Consistent, UndoCheck PROVE Consistent'
  OBVIOUS
<1>0. pc = "undo check" /\ plan' = plan /\ pc \in Unmaking /\ file' = file /\ installed' = installed
      /\ holder' = holder /\ raced' = raced \ {Target}
  BY DEF UndoCheck, Unmaking
<1>1. /\ Control /\ pc \in Going /\ at \in Indices /\ at \in Slots
      /\ Target = P(at) /\ Change = plan[at]
      /\ Change.private => holder[Target] = "transaction"
      /\ cause = "release" => Change.private
      /\ cause = "sync" => Change.private \/ Change.delete
  BY <1>0, AtUndoing
<1>2. /\ cause # "transaction" => \A i \in Indices : i = at => Made(i)
      /\ cause = "transaction" => \A i \in Indices : i = at => Kept(i)
  BY <1>0, AtWork
<1>3. CASE Breaks /\ (faults' = faults \/ Fault)
  BY <1>0, <1>3, BreaksKeeps DEF UndoCheck
<1>4. CASE file[Target] # Installed /\ Change.delete /\ Undone /\ UNCHANGED <<broken, faults>>
  <2>1. Idles
    BY <1>4 DEF UndoCheck, Idles
  <2>2. Transacts
    BY <1>0, <1>4, <2>1, IdleStep
  <2>3. file[Target] # None
    BY <1>4 DEF Installed
  <2>4. \A i \in Indices : i = at => Back(i)
    BY <1>1, <1>2, <1>4, <2>3 DEF Made, Kept, Back, Foreign
  <2>5. \A i \in Indices : i = at => Back(i)'
    BY <1>0, <1>4, <2>1, <2>4, IdleStep
  <2> QED
    BY <1>0, <1>4, <2>2, <2>5, Ends
<1>5. CASE /\ file[Target] = Installed
           /\ Goto(IF Change.delete THEN "undo recheck" ELSE "undo apply")
           /\ UNCHANGED <<cause, broken, faults>>
  <2>1. Idles
    BY <1>5 DEF UndoCheck, Idles
  <2>2. /\ Transacts
        /\ \A i \in Indices : (Kept(i)' <=> Kept(i)) /\ (Made(i)' <=> Made(i))
    BY <1>0, <1>5, <2>1, IdleStep
  <2>3. /\ pc' = (IF Change.delete THEN "undo recheck" ELSE "undo apply")
        /\ at' = at /\ cause' = cause
    BY <1>5 DEF Goto
  <2>4. Control'
    BY <1>0, <1>1, <2>3, NextStep DEF Control, Working, Locked, OfPrivate, OfWrite, Unmaking
  <2>5. pc' \in Going /\ pc' \notin Pending /\ pc' \notin {"sync", "release", "undo", "undo lock"}
    BY <2>3 DEF Going, Backward, Pending
  <2>6. Installed' = Installed
    BY <1>0, <2>3, SamePlan DEF Installed
  <2>7. Guarded'
    BY <1>0, <1>5, <2>3, <2>6, SamePlan DEF Guarded
  <2> QED
    BY <1>0, <1>1, <1>2, <2>2, <2>3, <2>4, <2>5, <2>7, Stays
<1>6. /\ \/ /\ file[Target] = Installed
            /\ Goto(IF Change.delete THEN "undo recheck" ELSE "undo apply")
            /\ UNCHANGED <<cause, broken, faults>>
         \/ /\ file[Target] # Installed
            /\ IF Change.delete THEN Undone /\ UNCHANGED broken ELSE Breaks
            /\ UNCHANGED faults
         \/ Fault /\ Breaks
  BY DEF UndoCheck
<1> QED
  BY <1>3, <1>4, <1>5, <1>6

LEMMA UndoRecheckKeeps == Consistent /\ UndoRecheck => Consistent'
<1> SUFFICES ASSUME Consistent, UndoRecheck PROVE Consistent'
  OBVIOUS
<1>0. pc = "undo recheck" /\ plan' = plan /\ pc \in Unmaking /\ file' = file
      /\ holder' = holder /\ raced' = raced \ {Target}
  BY DEF UndoRecheck, Unmaking
<1>1. /\ Control /\ pc \in Going /\ at \in Indices /\ at \in Slots
      /\ Change.delete
      /\ Change.private => holder[Target] = "transaction"
      /\ cause = "release" => Change.private
  BY <1>0, AtUndoing DEF Consistent, Control, Modes
<1>2. /\ cause # "transaction" => \A i \in Indices : i = at => Made(i)
      /\ cause = "transaction" => \A i \in Indices : i = at => Kept(i)
  BY <1>0, AtWork
<1>3. CASE Breaks /\ (faults' = faults \/ Fault)
  BY <1>0, <1>3, BreaksKeeps DEF UndoRecheck
<1>4. CASE file[Target] = None /\ Goto("undo apply") /\ UNCHANGED <<cause, broken, faults>>
  <2>1. Idles
    BY <1>4 DEF UndoRecheck, Idles
  <2>2. /\ Transacts
        /\ \A i \in Indices : (Kept(i)' <=> Kept(i)) /\ (Made(i)' <=> Made(i))
    BY <1>0, <1>4, <2>1, IdleStep
  <2>3. pc' = "undo apply" /\ at' = at /\ cause' = cause
    BY <1>4 DEF Goto
  <2>4. Control'
    BY <1>0, <1>1, <2>3, NextStep DEF Control, Working, Locked, OfPrivate, OfWrite, Unmaking
  <2>5. pc' \in Going /\ pc' \notin Pending /\ pc' \notin {"sync", "release", "undo", "undo lock"}
    BY <2>3 DEF Going, Backward, Pending
  <2>6. Installed' = None
    BY <1>0, <1>1, <2>3, SamePlan DEF Installed
  <2>7. Guarded'
    BY <1>0, <1>4, <2>3, <2>6, SamePlan DEF Guarded
  <2> QED
    BY <1>0, <1>1, <1>2, <2>2, <2>3, <2>4, <2>5, <2>7, Stays
<1> QED
  BY <1>3, <1>4 DEF UndoRecheck

LEMMA UndoApplyKeeps == Consistent /\ UndoApply => Consistent'
<1> SUFFICES ASSUME Consistent, UndoApply PROVE Consistent'
  OBVIOUS
<1>0. pc = "undo apply" /\ plan' = plan /\ pc \in Unmaking
      /\ holder' = holder /\ raced' = raced
  BY DEF UndoApply, Unmaking, othersVars
<1>1. /\ Control /\ Kinds /\ pc \in Going /\ at \in Indices /\ at \in Slots
      /\ Target \in Paths /\ Target = P(at) /\ Change = plan[at]
      /\ Change.private => holder[Target] = "transaction"
      /\ cause = "release" => Change.private
      /\ cause = "sync" => Change.private \/ Change.delete
  BY <1>0, AtUndoing
<1>2. CASE Breaks /\ UNCHANGED file /\ (faults' = faults \/ Fault)
  BY <1>0, <1>2, BreaksKeeps DEF UndoApply, othersVars
<1>3. CASE /\ Sets(IF Change.exists THEN Own("restored") ELSE None)
           /\ IF Change.private \/ Change.delete THEN Goto("undo sync") /\ UNCHANGED cause
              ELSE Undone
           /\ UNCHANGED <<broken, faults>>
  <2>1. /\ file' = [file EXCEPT ![Target] = IF Change.exists THEN Own("restored") ELSE None]
        /\ file'[Target] = IF Change.exists THEN Own("restored") ELSE None
    BY <1>1, <1>3 DEF Sets, Kinds
  <2>2. Transacts
    BY <1>1, <1>3, <2>1 DEF UndoApply, Transacts, othersVars
  <2>3. \A i \in Indices : i = at => Back(i)'
    BY <1>0, <1>1, <2>1 DEF Back, Restored, P
  <2>4. CASE ~ (Change.private \/ Change.delete)
    BY <1>0, <1>3, <2>2, <2>3, <2>4, Ends
  <2>5. CASE Change.private \/ Change.delete
    <3>1. pc' = "undo sync" /\ at' = at /\ cause' = cause
      BY <1>3, <2>5 DEF Goto
    <3>2. Control'
      BY <1>0, <1>1, <2>5, <3>1, NextStep
         DEF Control, Working, Locked, OfPrivate, OfWrite, Unmaking
    <3>3. pc' \in Going /\ pc' \notin Unmaking /\ Guarded'
          /\ pc' \notin {"sync", "release", "undo", "undo lock"}
      BY <3>1 DEF Going, Backward, Unmaking, Guarded
    <3> QED
      BY <1>0, <1>1, <2>2, <2>3, <3>1, <3>2, <3>3, Stays
  <2> QED
    BY <2>4, <2>5
<1> QED
  BY <1>2, <1>3 DEF UndoApply

LEMMA UndoSyncKeeps == Consistent /\ UndoSync => Consistent'
<1> SUFFICES ASSUME Consistent, UndoSync PROVE Consistent'
  OBVIOUS
<1>0. pc = "undo sync" /\ plan' = plan /\ pc \in Pending /\ holder' = holder /\ raced' = raced
  BY DEF UndoSync, Pending, othersVars
<1>1. CASE Fault /\ Breaks
  BY <1>0, <1>1, BreaksKeeps DEF UndoSync, othersVars
<1>2. CASE Undone /\ UNCHANGED <<broken, faults>>
  <2>1. Idles
    BY <1>2 DEF UndoSync, Idles, othersVars
  <2>2. Transacts /\ \A i \in Indices : i = at => Back(i)'
    BY <1>0, <1>2, <2>1, IdleStep, AtWork
  <2> QED
    BY <1>0, <1>2, <2>2, Ends
<1> QED
  BY <1>1, <1>2 DEF UndoSync

LEMMA UndoReleaseKeeps == Consistent /\ UndoRelease => Consistent'
<1> SUFFICES ASSUME Consistent, UndoRelease PROVE Consistent'
  OBVIOUS
<1>0. /\ Control /\ plan' = plan /\ cause' = cause
      /\ pc \in {"undo release", "undo retry"} /\ pc \in Going /\ pc \in Pending
      /\ pc \in Working /\ pc \in Locked
      /\ Change.private /\ cause = "transaction"
  BY DEF UndoRelease, Consistent, Control, Modes, OfPrivate, Going, Backward, Pending, Working,
         Locked
<1>1. at \in Indices /\ at \in Slots /\ holder[Target] = "transaction"
  BY <1>0, AtWork
<1>2. Transacts
  BY <1>1 DEF UndoRelease, Transacts, othersVars
<1>3. \A i \in Indices : i = at => Back(i)'
  <2>1. \A i \in Indices : i = at => Back(i)
    BY <1>0, AtWork
  <2>2. /\ UNCHANGED <<plan, file, installed, touched>>
        /\ broken \subseteq broken'
    BY DEF UndoRelease, othersVars
  <2>3. \A i : Foreign(P(i))' <=> Foreign(P(i))
    BY <2>2 DEF Foreign, P
  <2>4. \A i : Restored(plan[i])' <=> Restored(plan[i])
    BY <2>2 DEF Restored
  <2> QED
    BY <2>1, <2>2, <2>3, <2>4 DEF Back, P
<1>4. CASE pc' = "undo" /\ at' = at - 1
  <2>1. Unwind
    BY <1>0, <1>4 DEF Unwind
  <2> QED
    BY <1>0, <1>1, <1>2, <1>3, <1>4, <2>1, UnwindStep, Retreats
<1>5. CASE UNCHANGED holder /\ pc' = "undo retry" /\ at' = at
  <2>1. Control'
    BY <1>0, <1>1, <1>5, NextStep DEF Control, Working, Locked, OfPrivate, OfWrite, Unmaking
  <2>2. pc' \in Going /\ pc' \notin Unmaking /\ Guarded'
        /\ pc' \notin {"sync", "release", "undo", "undo lock"}
    BY <1>5 DEF Going, Backward, Unmaking, Guarded
  <2> QED
    BY <1>0, <1>1, <1>2, <1>3, <1>5, <2>1, <2>2, Stays
<1> QED
  BY <1>4, <1>5 DEF UndoRelease, Goto

-----------------------------------------------------------------------------
(* Before the first change.  *)
LEMMA FreshStep ==
    ASSUME Consistent, Transacts, Control', pc \in Fresh, pc' \in Fresh,
           UNCHANGED <<file, installed, broken>>, saved \subseteq saved',
           pc' = "backup" => \A i \in Indices : i < at' /\ plan[i].exists => P(i) \in saved'
    PROVE  Consistent'
<1>0. plan' = plan /\ touched' = touched /\ Kinds'
  BY KindsStep DEF Transacts
<1>1. pc' \notin Locked /\ pc' \notin Accepting /\ pc' # "validate"
      /\ pc' \notin {"rename", "unlink", "undo apply"}
  BY DEF Fresh, Locked, Accepting
<1>2. Locks'
  BY <1>1, LocksStep
<1>3. Dated'
  BY <1>1, DatedStep DEF DatedFiles, Dated
<1>4. Guarded'
  BY <1>1 DEF Guarded
<1>5. \A i \in Indices : Back(i)'
  BY <1>0, QuietStep DEF Consistent, Progress
<1>6. Progress'
  BY <1>5, SamePlan, <1>0
     DEF Progress, Whole, Verifying, Fresh, Going, Forward, Backward, Pending, Unmaking
<1>7. Saved'
  <2>1. AllSaved \/ Unchanged
    BY DEF Consistent, Saved
  <2>2. AllSaved => AllSaved'
    BY <1>0, SamePlan DEF AllSaved, P
  <2>3. Unchanged => Unchanged'
    BY <1>0, SamePlan DEF Unchanged, P
  <2>4. pc' = "backup" => \A i \in Indices' : i < at' /\ plan'[i].exists => P(i)' \in saved'
    BY <1>0, SamePlan DEF P
  <2> QED
    BY <2>1, <2>2, <2>3, <2>4 DEF Saved
<1> QED
  BY <1>0, <1>2, <1>3, <1>4, <1>6, <1>7 DEF Consistent

LEMMA ValidateTargetsKeeps == Consistent /\ ValidateTargets => Consistent'
<1> SUFFICES ASSUME Consistent, ValidateTargets PROVE Consistent'
  OBVIOUS
<1>0. /\ Control /\ plan' = plan /\ cause' = cause /\ saved' = saved
      /\ UNCHANGED <<file, installed, broken>>
      /\ pc = "validating" /\ pc \in Fresh /\ at \in Slots
  BY AtWork DEF ValidateTargets, Consistent, Fresh
<1>1. Transacts
  BY DEF ValidateTargets, Transacts, othersVars
<1>2. CASE pc' = "thrown" /\ at' = at
  <2>1. Control'
    BY <1>0, <1>2, EndStep DEF Ended
  <2> QED
    BY <1>0, <1>1, <1>2, <2>1, FreshStep DEF Fresh
<1>3. CASE pc' = "backup" /\ at' = 1
  <2>1. Control'
    BY <1>0, <1>3, Counting, LoopStep DEF Control
  <2>2. \A i \in Indices : ~ (i < 1)
    BY <1>0, PlanFacts DEF Control, Indices
  <2> QED
    BY <1>0, <1>1, <1>3, <2>1, <2>2, FreshStep DEF Fresh
<1>4. CASE ~ (at > Len(plan)) /\ pc' = pc /\ at' = at + 1
  <2>1. Control'
    BY <1>0, <1>4, Counting, LoopStep DEF Control
  <2> QED
    BY <1>0, <1>1, <1>4, <2>1, FreshStep DEF Fresh
<1> QED
  BY <1>2, <1>3, <1>4 DEF ValidateTargets, Goto

LEMMA CreateBackupsKeeps == Consistent /\ CreateBackups => Consistent'
<1> SUFFICES ASSUME Consistent, CreateBackups PROVE Consistent'
  OBVIOUS
<1>0. /\ Control /\ plan' = plan /\ cause' = cause
      /\ UNCHANGED <<file, installed, broken, touched>>
      /\ pc = "backup" /\ pc \in Fresh /\ at \in Slots
      /\ \A i \in Indices : i < at /\ plan[i].exists => P(i) \in saved
  BY AtWork DEF CreateBackups, Consistent, Saved, Fresh, othersVars
<1>1. CASE at > Len(plan) /\ pc' = "begin" /\ at' = 1 /\ UNCHANGED <<saved, faults>>
  <2>1. Control'
    BY <1>0, <1>1, Counting, LoopStep DEF Control
  <2>2. Transacts
    BY <1>1 DEF CreateBackups, Transacts, othersVars
  <2>3. pc' \notin Locked /\ pc' \notin Accepting /\ pc' # "validate"
        /\ pc' \notin {"rename", "unlink", "undo apply"}
    BY <1>1 DEF Locked, Accepting
  <2>4. Kinds' /\ Locks' /\ Dated'
    BY <2>1, <2>2, <2>3, KindsStep, LocksStep, DatedStep DEF DatedFiles, Dated
  <2>5. Guarded'
    BY <2>3 DEF Guarded
  <2>6. \A i \in Indices : Back(i)'
    BY <1>0, QuietStep DEF Consistent, Progress
  <2>7. \A i \in Indices : ~ (i < 1)
    BY <1>0, PlanFacts DEF Control, Indices
  <2>8. Progress'
    BY <1>0, <1>1, <2>6, <2>7, SamePlan DEF Progress, Half, Whole, Verifying, Fresh, Unmaking
  <2>9. AllSaved
    BY <1>0, <1>1, Order DEF Control, AllSaved
  <2>10. Saved'
    BY <1>0, <1>1, <2>9, SamePlan DEF Saved, AllSaved, P
  <2> QED
    BY <2>1, <2>4, <2>5, <2>8, <2>10 DEF Consistent
<1>2. CASE /\ ~ (at > Len(plan))
           /\ saved' = IF Change.exists THEN saved \union {Target} ELSE saved
           /\ pc' = pc /\ at' = at + 1
           /\ UNCHANGED faults
  <2>1. Control'
    BY <1>0, <1>2, Counting, LoopStep DEF Control
  <2>2. at \in Indices
    BY <1>0, <1>2, Counting DEF Control
  <2>3. Transacts
    BY <1>2, <2>2 DEF CreateBackups, Transacts, othersVars
  <2>4. \A i \in Indices : i < at + 1 /\ plan[i].exists => P(i) \in saved'
    BY <1>0, <1>2, Order DEF Control, Target, Change, P
  <2> QED
    BY <1>0, <1>2, <2>1, <2>3, <2>4, FreshStep
<1>3. CASE Fault /\ Goto("thrown") /\ UNCHANGED saved
  <2>1. pc' = "thrown" /\ at' = at
    BY <1>3 DEF Goto
  <2>2. Control'
    BY <1>0, <2>1, EndStep DEF Ended
  <2>3. Transacts
    BY <1>3 DEF CreateBackups, Transacts, othersVars
  <2> QED
    BY <1>0, <1>3, <2>1, <2>2, <2>3, FreshStep DEF Fresh
<1> QED
  BY <1>1, <1>2, <1>3 DEF CreateBackups

-----------------------------------------------------------------------------
(* Everybody else.  *)
LEMMA Bystander ==
    ASSUME Consistent, Kinds', Locks',
           UNCHANGED <<plan, pc, at, cause, file, installed, saved, accepted, broken, touched,
                       raced, writes>>
    PROVE  Consistent'
<1>1. Control'
  BY DEF Consistent, Control, Positions, Modes, Change, Marks, Indices, Slots, Stack
<1>2. Dated'
  BY DEF Consistent, Dated, Past, Acceptable, Unedited, Target
<1>3. Progress'
  BY QuietStep, SamePlan DEF Consistent, Progress, Half
<1>4. Guarded'
  BY DEF Consistent, Guarded, Target, Installed, Change, Before
<1>5. Saved'
  BY SamePlan DEF Consistent, Saved, AllSaved, Unchanged, P
<1> QED
  BY <1>1, <1>2, <1>3, <1>4, <1>5 DEF Consistent

LEMMA StutterKeeps == Consistent /\ UNCHANGED vars => Consistent'
<1> SUFFICES ASSUME Consistent, UNCHANGED vars PROVE Consistent'
  OBVIOUS
<1>1. Kinds'
  BY Zenon DEF Consistent, Kinds, Snapshots, FileSnapshot, vars, othersVars
<1>2. Locks'
  BY SamePlan DEF Consistent, Locks, P, Change, Target, vars, othersVars
<1> QED
  BY <1>1, <1>2, Bystander DEF vars, othersVars

LEMMA AbortKeeps == Consistent /\ Abort => Consistent'
<1> SUFFICES ASSUME Consistent, Abort PROVE Consistent'
  OBVIOUS
<1>1. Kinds'
  <2>1. aborted' \in BOOLEAN
    BY Zenon DEF Abort
  <2> QED
    BY <2>1, Zenon DEF Consistent, Kinds, Snapshots, FileSnapshot, Abort, othersVars
<1>2. Locks'
  BY SamePlan DEF Consistent, Locks, P, Change, Target, Abort, othersVars
<1> QED
  BY <1>1, <1>2, Bystander DEF Abort, othersVars

(* Where the transaction works under a lock, the updater is not.  *)
LEMMA Exclusion ==
    ASSUME Consistent, at \in Indices, pc \in Locked,
           updater.step # "idle", holder[updater.path] # "transaction"
    PROVE  Target # updater.path
<1>0. Control /\ Locks
  BY DEF Consistent
<1>1. Target = P(at) /\ Change = plan[at]
  BY <1>0, TargetPath DEF Control
<1>2. CASE Change.private
  BY <1>0, <1>2 DEF Locks
<1>3. CASE ~ Change.private
  <2>1. PICK i \in Indices : P(i) = updater.path /\ plan[i].private
    BY <1>0 DEF Locks
  <2>2. i # at
    BY <1>1, <1>3, <2>1
  <2> QED
    BY <1>0, <1>1, <2>1, <2>2, PlanFacts DEF Control
<1> QED
  BY <1>2, <1>3

LEMMA UpdaterFields ==
    ASSUME Consistent
    PROVE  /\ updater.step \in {"idle", "read", "locked", "written"}
           /\ updater.path \in Paths \union {None}
           /\ updater.base \in Snapshots
           /\ updater.step # "idle" => updater.path \in Paths
           /\ \A step \in {"locked", "written"} :
                /\ [updater EXCEPT !.step = step] \in
                     [step : {"idle", "read", "locked", "written"}, path : Paths \union {None},
                      base : Snapshots]
                /\ [updater EXCEPT !.step = step].step = step
                /\ [updater EXCEPT !.step = step].path = updater.path
  BY DEF Consistent, Kinds, Locks

LEMMA UpdaterReadsKeeps ==
    ASSUME Consistent, NEW p \in Paths, UpdaterReads(p)
    PROVE  Consistent'
<1>0. Kinds /\ Locks /\ Control
  BY DEF Consistent
<1>1. UNCHANGED <<plan, pc, at, cause, file, installed, saved, holder, accepted, broken, touched,
                  raced, writes, faults>>
  BY DEF UpdaterReads, Others
<1>2. file[p] \in Snapshots
  BY <1>0 DEF Kinds
<1>3. updater' = [step |-> "read", path |-> p, base |-> file[p]]
  BY DEF UpdaterReads
<1>4. aborted' \in BOOLEAN
  BY <1>0, Zenon DEF Kinds, UpdaterReads, Others
<1>5. updater' \in [step : {"idle", "read", "locked", "written"}, path : Paths \union {None},
                    base : Snapshots]
  BY <1>2, <1>3
<1>6. Kinds'
  BY <1>0, <1>1, <1>4, <1>5, Zenon DEF Kinds, Snapshots, FileSnapshot
<1>7. updater'.step = "read" /\ updater'.path = p
  BY <1>3
<1>8. \E i \in Indices : P(i) = p /\ plan[i].private
  BY DEF UpdaterReads, Indices, P
<1>9. Locks'
  BY <1>0, <1>1, <1>7, <1>8, SamePlan DEF Locks, P
<1> QED
  BY <1>1, <1>6, <1>9, Bystander

LEMMA UpdaterLocksKeeps ==
    ASSUME Consistent, UpdaterLocks
    PROVE  Consistent'
<1>0. Kinds /\ Locks /\ Control
  BY DEF Consistent
<1>1. UNCHANGED <<plan, pc, at, cause, file, installed, saved, accepted, broken, touched,
                  raced, writes, faults>>
  BY DEF UpdaterLocks, Others
<1>2. /\ updater.step = "read" /\ updater.path \in Paths
      /\ holder[updater.path] = None
      /\ holder' = [holder EXCEPT ![updater.path] = "updater"]
      /\ updater' = [updater EXCEPT !.step = "locked"]
  BY UpdaterFields DEF UpdaterLocks
<1>3. aborted' \in BOOLEAN
  BY <1>0, Zenon DEF Kinds, UpdaterLocks, Others
<1>4. /\ updater' \in [step : {"idle", "read", "locked", "written"}, path : Paths \union {None},
                       base : Snapshots]
      /\ updater'.step = "locked" /\ updater'.path = updater.path
  BY <1>2, UpdaterFields
<1>5. /\ holder' \in [Paths -> {"transaction", "updater", None}]
      /\ holder'[updater.path] = "updater"
      /\ \A p \in Paths : p # updater.path => holder'[p] = holder[p]
  BY <1>0, <1>2 DEF Kinds
<1>6. Kinds'
  BY <1>0, <1>1, <1>3, <1>4, <1>5, Zenon DEF Kinds, Snapshots, FileSnapshot
<1>7. ASSUME pc \in Locked, Change.private
      PROVE  holder'[Target] = "transaction"
  <2>1. at \in Indices
    BY <1>7, AtWork DEF Working
  <2>2. holder[Target] = "transaction" /\ Target \in Paths
    BY <1>0, <1>7, <2>1, TargetPath DEF Locks, Control
  <2>3. Target # updater.path
    BY <1>2, <2>2, NoneAssumption
  <2> QED
    BY <1>5, <2>2, <2>3
<1>8. Locks'
  BY <1>0, <1>1, <1>2, <1>4, <1>5, <1>7, SamePlan DEF Locks, P
<1> QED
  BY <1>1, <1>6, <1>8, Bystander

LEMMA UpdaterReleasesKeeps ==
    ASSUME Consistent, UpdaterReleases
    PROVE  Consistent'
<1>0. Kinds /\ Locks /\ Control
  BY DEF Consistent
<1>1. UNCHANGED <<plan, pc, at, cause, file, installed, saved, accepted, broken, touched,
                  raced, writes, faults>>
  BY DEF UpdaterReleases, Others
<1>2. /\ updater.step \in {"locked", "written"} /\ updater.path \in Paths
      /\ holder[updater.path] = "updater"
      /\ holder' = [holder EXCEPT ![updater.path] = None]
      /\ updater' = Idle
  BY <1>0, UpdaterFields DEF UpdaterReleases, Locks
<1>3. aborted' \in BOOLEAN
  BY <1>0, Zenon DEF Kinds, UpdaterReleases, Others
<1>4. /\ updater' \in [step : {"idle", "read", "locked", "written"}, path : Paths \union {None},
                       base : Snapshots]
      /\ updater'.step = "idle"
  BY <1>2 DEF Idle, Snapshots
<1>5. /\ holder' \in [Paths -> {"transaction", "updater", None}]
      /\ \A p \in Paths : p # updater.path => holder'[p] = holder[p]
  BY <1>0, <1>2 DEF Kinds
<1>6. Kinds'
  BY <1>0, <1>1, <1>3, <1>4, <1>5, Zenon DEF Kinds, Snapshots, FileSnapshot
<1>7. ASSUME pc \in Locked, Change.private
      PROVE  holder'[Target] = "transaction"
  <2>1. at \in Indices
    BY <1>7, AtWork DEF Working
  <2>2. holder[Target] = "transaction" /\ Target \in Paths
    BY <1>0, <1>7, <2>1, TargetPath DEF Locks, Control
  <2> QED
    BY <1>2, <1>5, <2>2
<1>8. Locks'
  BY <1>0, <1>1, <1>4, <1>7, SamePlan DEF Locks, P
<1> QED
  BY <1>1, <1>6, <1>8, Bystander

LEMMA UpdaterGivesUpKeeps ==
    ASSUME Consistent, UpdaterGivesUp
    PROVE  Consistent'
<1>0. Kinds /\ Locks
  BY DEF Consistent
<1>1. UNCHANGED <<plan, pc, at, cause, file, installed, saved, holder, accepted, broken, touched,
                  raced, writes, faults>>
  BY DEF UpdaterGivesUp, Others
<1>2. aborted' \in BOOLEAN
  BY <1>0, Zenon DEF Kinds, UpdaterGivesUp, Others
<1>3. /\ updater' \in [step : {"idle", "read", "locked", "written"}, path : Paths \union {None},
                       base : Snapshots]
      /\ updater'.step = "idle"
  BY DEF UpdaterGivesUp, Idle, Snapshots
<1>4. Kinds'
  BY <1>0, <1>1, <1>2, <1>3, Zenon DEF Kinds, Snapshots, FileSnapshot
<1>5. Locks'
  BY <1>0, <1>1, <1>3, SamePlan DEF Locks
<1> QED
  BY <1>1, <1>4, <1>5, Bystander

-----------------------------------------------------------------------------
LEMMA LaterWrite ==
    ASSUME writes \in 0..MaxWrites, writes' = writes + 1
    PROVE  /\ \A t \in Snapshots : Past(t) => Past(t)' /\ (t # None => t.serial # writes')
           /\ \A t : t # None /\ t.serial = writes' => Past(t)'
<1>1. writes \in Nat
  BY TransactionAssumption
<1>2. \A t \in Snapshots : t # None => t.serial \in Nat
  BY TransactionAssumption DEF Snapshots, FileSnapshot
<1> QED
  BY <1>1, <1>2 DEF Past

(* A write of somebody else, at path q.  *)
LEMMA WriteOfOthers ==
    ASSUME Consistent, Kinds', Locks',
           UNCHANGED <<plan, pc, at, cause, installed, saved, accepted, broken>>,
           NEW q \in Paths, NEW s \in Snapshots,
           Writes,
           file' = [file EXCEPT ![q] = s],
           s # None => s.serial = writes',
           touched \subseteq touched', raced \subseteq raced', raced' \subseteq raced \union {q},
           q \in touched' \/ (/\ s # None /\ s.content = "updated"
                              /\ pc \in Locked /\ at \in Indices => Target # q),
           pc \in {"rename", "unlink", "undo apply"} /\ Target = q =>
             q \in raced' /\ (s = None \/ s.content = "edited")
    PROVE  Consistent'
<1>0. Control /\ Kinds /\ plan' = plan
  BY DEF Consistent
<1>1. Control'
  BY DEF Consistent, Control, Positions, Modes, Change, Marks, Indices, Slots, Stack
<1>2. file'[q] = s /\ \A p \in Paths : p # q => file'[p] = file[p]
  BY <1>0 DEF Kinds
<1>3. /\ \A t \in Snapshots : Past(t) => Past(t)' /\ (t # None => t.serial # writes')
      /\ \A t : t # None /\ t.serial = writes' => Past(t)'
  <2>1. writes \in 0..MaxWrites /\ writes' = writes + 1
    BY <1>0, Zenon DEF Kinds, Writes
  <2> QED
    BY <2>1, LaterWrite
<1>4. Past(None)'
  BY DEF Past
<1>5. \A t : (Acceptable(t)' <=> Acceptable(t)) /\ (Unedited(t)' <=> Unedited(t))
  BY DEF Acceptable, Unedited
<1>6. pc \in Locked => at \in Indices
  BY AtWork DEF Working
<1>7. Dated'
  <2>1. ASSUME NEW p \in Paths
        PROVE  Past(file[p])' /\ (p \in touched' \/ Unedited(file[p])')
    <3>1. CASE p = q
      <4>1. file'[p] = s
        BY <1>2, <3>1
      <4>2. Past(s)'
        BY <1>3, <1>4
      <4>3. p \in touched' \/ Unedited(file[p])'
        BY <3>1, <4>1 DEF Unedited
      <4> QED
        BY <4>1, <4>2, <4>3 DEF Past
    <3>2. CASE p # q
      <4>1. file[p] \in Snapshots /\ Past(file[p]) /\ (p \in touched \/ Unedited(file[p]))
        BY <1>0 DEF Kinds, Consistent, Dated
      <4> QED
        BY <1>2, <1>3, <1>5, <3>2, <4>1 DEF Past, Unedited
    <3> QED
      BY <3>1, <3>2
  <2>2. ASSUME NEW p \in Paths
        PROVE  Past(installed[p])' /\ Acceptable(installed[p])'
    <3>1. installed[p] \in Snapshots /\ Past(installed[p]) /\ Acceptable(installed[p])
      BY <1>0 DEF Kinds, Consistent, Dated
    <3> QED
      BY <1>3, <1>5, <3>1 DEF Past, Acceptable
  <2>3. Past(accepted)'
    <3>1. accepted \in Snapshots /\ Past(accepted)
      BY <1>0 DEF Kinds, Consistent, Dated
    <3> QED
      BY <1>3, <3>1 DEF Past
  <2>4. ASSUME pc \in Accepting
        PROVE  /\ accepted # None /\ Acceptable(accepted)'
               /\ file'[Target] = accepted \/ Target \in touched'
    <3>1. /\ accepted # None /\ Acceptable(accepted)
          /\ file[Target] = accepted \/ Target \in touched
      BY <2>4 DEF Consistent, Dated
    <3>2. at \in Indices /\ pc \in Locked
      BY <1>6, <2>4 DEF Accepting, Locked
    <3>3. Target \in Paths
      BY <1>0, <3>2, TargetPath DEF Control
    <3> QED
      BY <1>2, <1>5, <3>1, <3>2, <3>3 DEF Acceptable
  <2>5. pc = "validate" => accepted # None
    BY DEF Consistent, Dated
  <2>6. Target' = Target
    BY SamePlan
  <2> QED
    BY <2>1, <2>2, <2>3, <2>4, <2>5, <2>6 DEF Dated
<1>8. Foreign(q)'
  <2>1. CASE q \in touched'
    BY <2>1 DEF Foreign
  <2>2. CASE s # None /\ s.content = "updated"
    <3>1. installed[q] \in Snapshots /\ Past(installed[q])
      BY <1>0 DEF Kinds, Consistent, Dated
    <3>2. installed[q] # s
      BY <1>3, <2>2, <3>1
    <3> QED
      BY <1>2, <2>2, <3>2 DEF Foreign
  <2> QED
    BY <2>1, <2>2
<1>9. ASSUME NEW i \in Indices
      PROVE  /\ Kept(i) => Kept(i)'
             /\ Back(i) => Back(i)'
             /\ pc \in Locked /\ i = at /\ Made(i) => Made(i)'
  <2>1. P(i) \in Paths /\ P(i)' = P(i)
    BY <1>0, PlanFacts DEF P, Control
  <2>2. CASE P(i) = q
    <3>1. (Kept(i) => Kept(i)') /\ Back(i)'
      BY <1>0, <1>8, <2>1, <2>2 DEF Kept, Back
    <3>2. pc \in Locked /\ i = at => Made(i)'
      BY <2>1, <2>2 DEF Made, Target, P
    <3> QED
      BY <3>1, <3>2
  <2>3. CASE P(i) # q
    <3>1. file'[P(i)] = file[P(i)]
      BY <1>2, <2>1, <2>3
    <3>2. Foreign(P(i)) => Foreign(P(i))'
      BY <2>1, <3>1 DEF Foreign
    <3>3. Restored(plan[i]) => Restored(plan[i])'
      BY <2>1, <3>1, <1>0 DEF Restored, P
    <3> QED
      BY <1>0, <2>1, <3>1, <3>2, <3>3 DEF Kept, Back, Made
  <2> QED
    BY <2>2, <2>3
<1>10. Progress'
  <2>1. Half => Half'
    BY <1>0, <1>9, SamePlan DEF Half
  <2>2. \A step \in {"sync", "release"} \union Unmaking : pc = step => pc \in Locked
    BY DEF Locked, Unmaking
  <2> QED
    BY <1>0, <1>9, <2>1, <2>2, SamePlan DEF Consistent, Progress
<1>11. Guarded'
  <2> SUFFICES ASSUME pc \in {"rename", "unlink", "undo apply"}
               PROVE  Guarded'
    BY DEF Guarded
  <2>1. Target \in Paths
    BY <1>0, <1>6, TargetPath DEF Control, Locked
  <2>2. Target' = Target /\ Before(Change)' = Before(Change) /\ Installed' = Installed
    BY SamePlan DEF Before, Installed
  <2>3. CASE Target = q
    BY <1>2, <2>2, <2>3 DEF Guarded
  <2>4. CASE Target # q
    BY <1>2, <2>1, <2>2, <2>4 DEF Consistent, Guarded
  <2> QED
    BY <2>3, <2>4
<1>12. Saved'
  <2>1. AllSaved => AllSaved'
    BY <1>0, SamePlan DEF AllSaved, P
  <2>2. ASSUME Unchanged PROVE Unchanged'
    <3> SUFFICES ASSUME NEW i \in Indices, plan[i].exists, P(i) \notin touched'
                 PROVE  file'[P(i)] # None /\ file'[P(i)].content \in {"before", "updated"}
      BY <1>0, SamePlan DEF Unchanged, P
    <3>1. P(i) \in Paths
      BY <1>0, PlanFacts DEF Control
    <3> QED
      BY <1>2, <2>2, <3>1 DEF Unchanged
  <2>3. pc = "backup" => \A i \in Indices' : i < at' /\ plan'[i].exists => P(i)' \in saved'
    BY <1>0, SamePlan DEF Consistent, Saved, P
  <2> QED
    BY <2>1, <2>2, <2>3 DEF Consistent, Saved
<1> QED
  BY <1>1, <1>7, <1>10, <1>11, <1>12 DEF Consistent

LEMMA EditKeeps ==
    ASSUME Consistent, NEW p \in Paths, Edit(p)
    PROVE  Consistent'
<1>0. Kinds /\ Locks
  BY DEF Consistent
<1>1. UNCHANGED <<plan, pc, at, cause, installed, saved, holder, accepted, broken, updater, faults>>
  BY DEF Edit, Others
<1>2. Writes /\ writes' \in 0..MaxWrites
  <2>1. writes \in 0..MaxWrites
    BY <1>0, Zenon DEF Kinds
  <2>2. Writes
    BY Zenon DEF Edit
  <2> QED
    BY <2>1, <2>2, TransactionAssumption DEF Writes
<1>3. PICK s \in {[content |-> "edited", serial |-> writes'], None} :
        file' = [file EXCEPT ![p] = s]
  BY DEF Edit
<1>4. s \in Snapshots /\ (s # None => s.serial = writes' /\ s.content = "edited")
  BY <1>2, <1>3 DEF Snapshots, FileSnapshot
<1>5. /\ touched' = touched \union {p}
      /\ raced' = IF pc \in {"rename", "unlink", "undo apply"} /\ Target = p
                  THEN raced \union {p} ELSE raced
  BY DEF Edit
<1>6. file' \in [Paths -> Snapshots]
  BY <1>0, <1>3, <1>4 DEF Kinds
<1>7. touched' \subseteq Paths /\ raced' \subseteq touched'
  BY <1>0, <1>5 DEF Kinds
<1>8. aborted' \in BOOLEAN
  BY <1>0, Zenon DEF Kinds, Edit, Others
<1>9. Kinds'
  BY <1>0, <1>1, <1>2, <1>6, <1>7, <1>8, Zenon DEF Kinds, Snapshots, FileSnapshot
<1>10. Locks'
  BY <1>0, <1>1, SamePlan DEF Locks, P
<1>11. /\ touched \subseteq touched' /\ raced \subseteq raced' /\ raced' \subseteq raced \union {p}
       /\ p \in touched'
  BY <1>5
<1>12. pc \in {"rename", "unlink", "undo apply"} /\ Target = p =>
         p \in raced' /\ (s = None \/ s.content = "edited")
  BY <1>4, <1>5
<1> QED
  BY <1>1, <1>2, <1>3, <1>4, <1>9, <1>10, <1>11, <1>12, WriteOfOthers

LEMMA UpdaterWritesKeeps ==
    ASSUME Consistent, UpdaterWrites
    PROVE  Consistent'
<1>0. Kinds /\ Locks
  BY DEF Consistent
<1>1. UNCHANGED <<plan, pc, at, cause, installed, saved, holder, accepted, broken, touched, raced,
                  faults>>
  BY DEF UpdaterWrites, Others
<1>2. Writes /\ writes' \in 0..MaxWrites
  <2>1. writes \in 0..MaxWrites
    BY <1>0, Zenon DEF Kinds
  <2>2. Writes
    BY Zenon DEF UpdaterWrites
  <2> QED
    BY <2>1, <2>2, TransactionAssumption DEF Writes
<1>3. /\ updater.step = "locked" /\ updater.path \in Paths
      /\ holder[updater.path] = "updater"
      /\ file' = [file EXCEPT ![updater.path] = [content |-> "updated", serial |-> writes']]
      /\ updater' = [updater EXCEPT !.step = "written"]
  BY <1>0, UpdaterFields DEF UpdaterWrites, Locks
<1> DEFINE s == [content |-> "updated", serial |-> writes']
<1>4. s \in FileSnapshot /\ s \in Snapshots /\ s.serial = writes' /\ s.content = "updated"
      /\ s # None
  BY <1>2, NoneAssumption DEF Snapshots, FileSnapshot
<1>5. /\ updater' \in [step : {"idle", "read", "locked", "written"}, path : Paths \union {None},
                       base : Snapshots]
      /\ updater'.step = "written" /\ updater'.path = updater.path
  BY <1>3, UpdaterFields
<1>6. file' \in [Paths -> Snapshots]
  BY <1>0, <1>3, <1>4 DEF Kinds
<1>7. aborted' \in BOOLEAN
  BY <1>0, Zenon DEF Kinds, UpdaterWrites, Others
<1>8. Kinds'
  BY <1>0, <1>1, <1>2, <1>5, <1>6, <1>7, Zenon DEF Kinds, Snapshots, FileSnapshot
<1>9. Locks'
  BY <1>0, <1>1, <1>3, <1>5, SamePlan DEF Locks, P
<1>10. pc \in Locked /\ at \in Indices => Target # updater.path
  BY <1>3, Exclusion
<1>11. pc \notin {"rename", "unlink", "undo apply"} \/ Target # updater.path
  <2>1. pc \in {"rename", "unlink", "undo apply"} => pc \in Locked /\ at \in Indices
    BY AtWork DEF Locked, Working
  <2> QED
    BY <1>10, <2>1
<1> HIDE DEF s
<1>12. file' = [file EXCEPT ![updater.path] = s]
  BY <1>3 DEF s
<1> QED
  BY <1>1, <1>2, <1>3, <1>4, <1>8, <1>9, <1>10, <1>11, <1>12, WriteOfOthers

-----------------------------------------------------------------------------
LEMMA InitConsistent == Init => Consistent
<1> SUFFICES ASSUME Init PROVE Consistent
  OBVIOUS
<1>1. plan \in Plans /\ pc = "validating" /\ at = 1 /\ cause = "transaction"
  BY DEF Init
<1>2. Control
  BY <1>1, Counting
     DEF Control, Positions, Modes, Working, Locked, OfPrivate, OfWrite, Unmaking, Steps, Forward,
         Causes
<1>3. /\ \A p \in Paths : file[p] = IF \E i \in Indices : P(i) = p /\ plan[i].exists
                                    THEN Own("before") ELSE None
      /\ file \in [Paths -> Snapshots]
  BY OwnIsSnapshot DEF Init, Indices, P, Snapshots
<1>4. /\ installed \in [Paths -> Snapshots] /\ \A p \in Paths : installed[p] = None
      /\ saved = {} /\ broken = {} /\ touched = {} /\ raced = {}
      /\ accepted = None /\ accepted \in Snapshots
      /\ holder \in [Paths -> {"transaction", "updater", None}]
  BY DEF Init, Snapshots
<1>5. /\ updater \in [step : {"idle", "read", "locked", "written"}, path : Paths \union {None},
                      base : Snapshots]
      /\ updater.step = "idle"
  BY DEF Init, Idle, Snapshots
<1>6. writes = 0 /\ writes \in 0..MaxWrites /\ faults \in 0..MaxFaults
  BY TransactionAssumption DEF Init
<1>7. aborted \in BOOLEAN
  BY Zenon DEF Init
<1>8. Kinds
  BY <1>3, <1>4, <1>5, <1>6, <1>7, Zenon DEF Kinds
<1>9. Locks
  BY <1>1, <1>5 DEF Locks, Locked
<1>10. Dated
  BY <1>1, <1>3, <1>4, <1>6 DEF Dated, Past, Acceptable, Unedited, Own, Accepting
<1>11. \A i \in Indices : file[P(i)] = IF plan[i].exists THEN Own("before") ELSE None
  BY <1>1, <1>3, PlanFacts
<1>12. Progress
  <2>1. \A i \in Indices : Back(i)
    BY <1>11 DEF Back, Restored, P
  <2> QED
    BY <1>1, <2>1
       DEF Progress, Whole, Verifying, Fresh, Going, Forward, Backward, Pending, Unmaking
<1>13. Guarded
  BY <1>1 DEF Guarded
<1>14. Saved
  <2>1. Own("before") # None /\ Own("before").content = "before"
    BY OwnIsSnapshot, NoneAssumption DEF Own
  <2>2. Unchanged
    BY <1>11, <2>1 DEF Unchanged
  <2> QED
    BY <1>1, <2>2 DEF Saved, Fresh
<1> QED
  BY <1>2, <1>8, <1>9, <1>10, <1>12, <1>13, <1>14 DEF Consistent

LEMMA NextKeeps == Consistent /\ [Next]_vars => Consistent'
<1> SUFFICES ASSUME Consistent, [Next]_vars PROVE Consistent'
  OBVIOUS
<1>1. CASE Installs
  BY <1>1, ValidateTargetsKeeps, CreateBackupsKeeps, BeginKeeps, LockKeeps, PrecheckKeeps,
     CheckKeeps, RenameKeeps, UnlinkKeeps, SyncKeeps, ReleaseKeeps, AbandonKeeps DEF Installs
<1>2. CASE Verifies
  BY <1>2, VerifyKeeps, AcceptLockKeeps, AcceptKeeps, ValidateUpdateKeeps, AcceptAgainKeeps,
     AcceptReleaseKeeps, RefuseKeeps DEF Verifies
<1>3. CASE Undoes
  BY <1>3, UndoKeeps, UndoLockKeeps, UndoCheckKeeps, UndoRecheckKeeps, UndoApplyKeeps,
     UndoSyncKeeps, UndoReleaseKeeps DEF Undoes
<1>4. CASE Updates
  BY <1>4, UpdaterReadsKeeps, UpdaterLocksKeeps, UpdaterWritesKeeps, UpdaterReleasesKeeps,
     UpdaterGivesUpKeeps DEF Updates
<1>5. CASE Abort
  BY <1>5, AbortKeeps
<1>6. CASE \E p \in Paths : Edit(p)
  BY <1>6, EditKeeps
<1>7. CASE UNCHANGED vars
  BY <1>7, StutterKeeps
<1> QED
  BY <1>1, <1>2, <1>3, <1>4, <1>5, <1>6, <1>7 DEF Next

(* The inductive invariant of the transaction.  *)
THEOREM Consistency == Spec => []Consistent
<1>1. Init => Consistent
  BY InitConsistent
<1>2. Consistent /\ [Next]_vars => Consistent'
  BY NextKeeps
<1> QED
  BY <1>1, <1>2, PTL DEF Spec

-----------------------------------------------------------------------------
(* Every variable of the transaction keeps to its type.  *)
THEOREM Typing == Spec => []TypeOK
<1>1. Consistent => TypeOK
  BY ConsistentIsTyped DEF Consistent
<1> QED
  BY <1>1, Consistency, PTL

(* applyFileTransaction returns with every change in place, or throws with *)
(* every change unmade, up to the work of others and what it reports.      *)
THEOREM Atomicity == Spec => []AllOrNothing
<1>1. ASSUME Consistent PROVE AllOrNothing
  <2>1. pc = "returned" => \A i \in Indices : Kept(i)
    BY <1>1 DEF Consistent, Progress, Whole
  <2>2. pc = "thrown" => \A i \in Indices : Back(i)
    BY <1>1 DEF Consistent, Progress, Fresh
  <2> QED
    BY <2>1, <2>2 DEF AllOrNothing, Indices, Kept, Back, P, Applied
<1> QED
  BY <1>1, Consistency, PTL

(* Nothing is replaced or deleted of which no backup was written, however  *)
(* the transaction or a crash ends.                                        *)
THEOREM BackupsFirst == Spec => []BackedUp
<1>1. ASSUME Consistent PROVE BackedUp
  <2> SUFFICES ASSUME NEW i \in Indices, plan[i].exists, P(i) \notin touched,
                      file[P(i)] = None \/ file[P(i)] = Own("planned")
               PROVE  P(i) \in saved
    BY DEF BackedUp, Indices, P
  <2>1. ~ Unchanged
    BY DEF Unchanged, Own
  <2> QED
    BY <1>1, <2>1 DEF Consistent, Saved, AllSaved
<1> QED
  BY <1>1, Consistency, PTL

(* Only where the editor was faster than the rename or the unlink, or      *)
(* where the update was accepted, does a step of the transaction replace   *)
(* what somebody else wrote.                                               *)
THEOREM Respect == Spec => OthersWorkSurvives
<1> DEFINE Admitted == \A p \in Paths :
        /\ writes' = writes
        /\ file[p] # None
        /\ file'[p] # file[p]
        => /\ file[p].content = "edited" => p \in raced
           /\ file[p].content = "updated" => installed[p] = file[p]
<1>1. ASSUME Consistent, [Next]_vars PROVE [Admitted]_vars
  <2> SUFFICES ASSUME NEW p \in Paths, writes' = writes, file[p] # None, file'[p] # file[p]
               PROVE  /\ file[p].content = "edited" => p \in raced
                      /\ file[p].content = "updated" => installed[p] = file[p]
    OBVIOUS
  <2>0. Control /\ Kinds /\ Dated /\ Guarded
    BY <1>1 DEF Consistent
  <2>1. ~ Writes
    <3>1. writes \in Nat
      BY <2>0, TransactionAssumption DEF Kinds
    <3> QED
      BY <3>1 DEF Writes
  <2>2. Rename \/ Unlink \/ UndoApply
    BY <1>1, <2>1
       DEF Next, Installs, Verifies, Undoes, Updates, ValidateTargets, CreateBackups, Begin, Lock,
           Precheck, Check, Sync, Release, Abandon, Verify, VerifyFails, AcceptLock, Accept,
           ValidateUpdate, AcceptAgain, AcceptRelease, Refuse, Undo, UndoLock, UndoCheck,
           UndoRecheck, UndoSync, UndoRelease, UpdaterReads, UpdaterLocks, UpdaterWrites,
           UpdaterReleases, UpdaterGivesUp, Abort, Edit, vars
  <2>3. pc \in {"rename", "unlink", "undo apply"} /\ \E s : file' = [file EXCEPT ![Target] = s]
    BY <2>2 DEF Rename, Unlink, UndoApply, Sets
  <2>4. p = Target
    BY <2>0, <2>3 DEF Kinds
  <2>5. \/ Target \in raced /\ file[Target].content = "edited"
        \/ file[Target] = IF pc = "undo apply" THEN Installed ELSE Before(Change)
    BY <2>0, <2>3, <2>4 DEF Guarded
  <2>6. Acceptable(installed[p])
    BY <2>0 DEF Dated
  <2>7. CASE Target \in raced /\ file[Target].content = "edited"
    BY <2>4, <2>7
  <2>8. CASE file[p] = installed[p]
    BY <2>6, <2>8 DEF Acceptable
  <2>9. CASE file[p] \in {Own("before"), Own("planned")}
    <3>1. file[p].content \in {"before", "planned"}
      BY <2>9 DEF Own
    <3> QED
      BY <3>1
  <2>10. file[p] = installed[p] \/ file[p] \in {Own("before"), Own("planned")}
         \/ (Target \in raced /\ file[Target].content = "edited")
    BY <2>4, <2>5 DEF Installed, Before
  <2> QED
    BY <2>7, <2>8, <2>9, <2>10
<1>2. Spec => [][Admitted]_vars
  BY <1>1, Consistency, PTL DEF Spec
<1> QED
  BY <1>2 DEF OthersWorkSurvives

-----------------------------------------------------------------------------
(* Failures are contained.                                                 *)

(* Nothing has been reported of a change whose rollback is to come.  *)
Clean == (Forward \ {"abandon", "abandon again"}) \union Verifying \union {"returned"}
Dirty == Backward \union {"abandon", "abandon again"}

Reported ==
    /\ pc \in Clean => \A i \in Indices : P(i) \notin broken
    /\ pc \in Dirty => \A i \in Indices : i < at => P(i) \notin broken
    /\ pc \in {"undo", "undo lock"} \union Unmaking =>
         \A i \in Indices : i = at => P(i) \notin broken

(* What others wrote is there; locks that the transaction holds, those of  *)
(* them it left behind; paths whose rollback broke for neither reason.     *)
Written == touched \union {p \in Paths : file[p] # None /\ file[p].content = "updated"}
Held == {p \in Paths : holder[p] = "transaction"}
Mine == IF pc \in Locked /\ Change.private THEN {Target} ELSE {}
Left == Held \ Mine
Lost == (broken \ (Written \union Left)) \ (IF pc = "undo retry" THEN {Target} ELSE {})

(* A release that is tried a second time has cost a fault already.  *)
Retries == {"abandon again", "accept retry", "refuse retry", "undo retry"}
Spent ==
    IF pc \in Retries \/ (pc \in Unmaking \union {"undo sync"} /\ cause = "release") THEN 1 ELSE 0

Finite == IsFiniteSet(broken) /\ IsFiniteSet(Held) /\ IsFiniteSet(Written)

Bounded ==
    /\ Cardinality(Written) <= writes
    /\ Cardinality(Lost) + 2 * Cardinality(Left) + Spent <= faults

Contained == Reported /\ Finite /\ Bounded

LEMMA OneMore ==
    ASSUME NEW S, NEW T, NEW x, IsFiniteSet(S), T \subseteq S \union {x}
    PROVE  /\ IsFiniteSet(T) /\ Cardinality(S) \in Nat /\ Cardinality(T) \in Nat
           /\ Cardinality(T) <= Cardinality(S) + 1
           /\ T \subseteq S => Cardinality(T) <= Cardinality(S)
<1>1. IsFiniteSet(S \union {x}) /\ Cardinality(S \union {x}) <= Cardinality(S) + 1
  <2>1. Cardinality(S) \in Nat
    BY FS_CardinalityType
  <2>2. /\ IsFiniteSet(S \union {x})
        /\ Cardinality(S \union {x}) = IF x \in S THEN Cardinality(S) ELSE Cardinality(S) + 1
    BY FS_AddElement
  <2> QED
    BY <2>1, <2>2
<1>2. IsFiniteSet(T) /\ Cardinality(T) <= Cardinality(S \union {x})
  BY <1>1, FS_Subset
<1>3. T \subseteq S => Cardinality(T) <= Cardinality(S)
  BY FS_Subset
<1>4. Cardinality(S) \in Nat /\ Cardinality(T) \in Nat /\ Cardinality(S \union {x}) \in Nat
  BY <1>1, <1>2, FS_CardinalityType
<1> QED
  BY <1>1, <1>2, <1>3, <1>4

LEMMA FiniteParts ==
    ASSUME Finite
    PROVE  IsFiniteSet(Lost) /\ IsFiniteSet(Left)
  BY FS_Subset DEF Finite, Lost, Left

LEMMA Numbers ==
    ASSUME Kinds
    PROVE  writes \in Nat /\ faults \in Nat
<1>1. writes \in 0..MaxWrites /\ faults \in 0..MaxFaults
  BY Zenon DEF Kinds
<1> QED
  BY <1>1, TransactionAssumption

(* What a step may cost.  *)
LEMMA Pays ==
    ASSUME Kinds, Kinds', Finite, Bounded, NEW x,
           broken' \subseteq broken \union {x}, Held' \subseteq Held \union {x},
           \/ Written' \subseteq Written /\ writes' = writes
           \/ Written' \subseteq Written \union {x} /\ writes' = writes + 1,
           \/ /\ Lost' \subseteq Lost /\ Left' \subseteq Left
              /\ Spent' = Spent \/ Spent' = 0
              /\ faults' = faults
           \/ /\ Left' \subseteq Left
              /\ \/ Lost' \subseteq Lost
                 \/ Lost' \subseteq Lost \union {x} /\ (Spent' = Spent \/ Spent' = 0)
              /\ faults' = faults + 1
           \/ /\ Lost' \subseteq Lost \union {x} /\ Left' \subseteq Left
              /\ Spent = 1 /\ Spent' = 0
              /\ faults' = faults
           \/ /\ Lost' \subseteq Lost /\ Left' \subseteq Left \union {x}
              /\ Spent = 1 /\ Spent' = 0
              /\ faults' = faults + 1
    PROVE  Finite' /\ Bounded'
<1>1. writes \in Nat /\ faults \in Nat /\ writes' \in Nat /\ faults' \in Nat
  BY Numbers
<1>2. IsFiniteSet(Lost) /\ IsFiniteSet(Left)
  BY FiniteParts
<1>3. Written' \subseteq Written \union {x}
  OBVIOUS
<1>4. Finite'
  BY <1>3, OneMore DEF Finite
<1>5. Spent \in {0, 1} /\ Spent' \in {0, 1}
  BY DEF Spent
<1>6. Cardinality(Written') <= writes'
  <2>1. /\ Cardinality(Written) \in Nat /\ Cardinality(Written') \in Nat
        /\ Cardinality(Written') <= Cardinality(Written) + 1
        /\ Written' \subseteq Written => Cardinality(Written') <= Cardinality(Written)
    BY <1>3, OneMore DEF Finite
  <2>2. Cardinality(Written) <= writes
    BY DEF Bounded
  <2> QED
    BY <1>1, <2>1, <2>2
<1>7. Lost' \subseteq Lost \union {x} /\ Left' \subseteq Left \union {x}
  OBVIOUS
<1>8. /\ Cardinality(Lost) \in Nat /\ Cardinality(Lost') \in Nat
      /\ Cardinality(Lost') <= Cardinality(Lost) + 1
      /\ Lost' \subseteq Lost => Cardinality(Lost') <= Cardinality(Lost)
  BY <1>2, <1>7, OneMore
<1>9. /\ Cardinality(Left) \in Nat /\ Cardinality(Left') \in Nat
      /\ Cardinality(Left') <= Cardinality(Left) + 1
      /\ Left' \subseteq Left => Cardinality(Left') <= Cardinality(Left)
  BY <1>2, <1>7, OneMore
<1>10. Cardinality(Lost) + 2 * Cardinality(Left) + Spent <= faults
  BY DEF Bounded
<1>11. Cardinality(Lost') + 2 * Cardinality(Left') + Spent' <= faults'
  BY <1>1, <1>5, <1>8, <1>9, <1>10
<1> QED
  BY <1>4, <1>6, <1>11 DEF Bounded

(* A step of the transaction on the file, if at all.  *)
Applies ==
    /\ UNCHANGED <<plan, touched, writes>>
    /\ \/ file' = file
       \/ /\ at \in Indices /\ Target \notin broken
          /\ \E s \in {Own("planned"), Own("restored"), None} : file' = [file EXCEPT ![Target] = s]

LEMMA WrittenStep ==
    ASSUME Control, Kinds, Applies
    PROVE  /\ Written' \subseteq Written
           /\ \A p : p \in broken /\ p \in Written => p \in Written'
<1>1. at \in Indices => Target \in Paths
  BY TargetPath DEF Control
<1>2. Written' \subseteq Written
  <2>1. \A p \in Paths : \/ file'[p] = file[p]
                         \/ file'[p] \in {Own("planned"), Own("restored"), None}
    BY <1>1 DEF Applies, Kinds
  <2>2. \A p \in Paths : file'[p] # None /\ file'[p].content = "updated" => file'[p] = file[p]
    BY <2>1 DEF Own
  <2> QED
    BY <2>2 DEF Applies, Written
<1>3. ASSUME NEW p, p \in broken, p \in Written PROVE p \in Written'
  <2>1. p \in touched \/ (p \in Paths /\ file[p] # None /\ file[p].content = "updated")
    BY <1>3 DEF Written
  <2>2. p \in Paths => file'[p] = file[p]
    BY <1>1, <1>3 DEF Applies, Kinds
  <2> QED
    BY <2>1, <2>2 DEF Applies, Written
<1> QED
  BY <1>2, <1>3

(* No lock changes hands, nothing is reported.  *)
LEMMA CalmStep ==
    ASSUME Consistent, Consistent', Finite, Bounded, Applies,
           UNCHANGED <<broken, holder>>, Mine' = Mine,
           pc # "undo retry", pc' # "undo retry",
           \/ faults' = faults /\ (Spent' = Spent \/ Spent' = 0)
           \/ Fault
    PROVE  Finite' /\ Bounded'
<1>0. Control /\ Kinds /\ Kinds'
  BY DEF Consistent
<1>1. Held' = Held /\ Left' = Left
  BY DEF Held, Left
<1>2. /\ Written' \subseteq Written
      /\ \A p : p \in broken /\ p \in Written => p \in Written'
  BY <1>0, WrittenStep
<1>3. Lost' \subseteq Lost
  BY <1>1, <1>2 DEF Lost
<1>4. writes' = writes /\ (Fault => faults' = faults + 1)
  BY DEF Applies, Fault
<1> QED
  BY <1>0, <1>1, <1>2, <1>3, <1>4, Pays

(* A rollback is reported.  *)
LEMMA ChargedStep ==
    ASSUME Consistent, Consistent', Finite, Bounded,
           UNCHANGED <<plan, touched, writes, file, holder>>,
           broken' = broken \union {Target}, Mine' = Mine,
           pc # "undo retry", pc' # "undo retry",
           Spent' = Spent \/ Spent' = 0,
           \/ faults' = faults /\ Target \in Written \union Left
           \/ Fault
    PROVE  Finite' /\ Bounded'
<1>0. Control /\ Kinds /\ Kinds'
  BY DEF Consistent
<1>1. Held' = Held /\ Left' = Left
  BY DEF Held, Left
<1>2. Written' = Written
  BY DEF Written
<1>3. /\ Lost' \subseteq Lost \union {Target}
      /\ Target \in Written \union Left => Lost' \subseteq Lost
  BY <1>1, <1>2 DEF Lost
<1>4. Fault => faults' = faults + 1
  BY DEF Fault
<1> QED
  BY <1>0, <1>1, <1>2, <1>3, <1>4, Pays

(* A lock is taken.  *)
LEMMA TakenStep ==
    ASSUME Consistent, Consistent', Finite, Bounded, at \in Indices,
           UNCHANGED <<plan, touched, writes, file, broken, faults>>,
           holder[Target] = None, holder' = [holder EXCEPT ![Target] = "transaction"],
           Change.private, pc \notin Locked, pc' \in Locked, at' = at,
           pc' # "undo retry", Spent' = 0
    PROVE  Finite' /\ Bounded'
<1>0. Control /\ Kinds /\ Kinds' /\ Target \in Paths
  BY TargetPath DEF Consistent, Control
<1>1. Mine = {} /\ Mine' = {Target}
  BY SamePlan DEF Mine
<1>2. Held' = Held \union {Target} /\ Target \notin Held
  <2>1. Target \notin Held
    BY NoneAssumption DEF Held
  <2>2. \A p \in Paths : holder'[p] = IF p = Target THEN "transaction" ELSE holder[p]
    BY <1>0 DEF Kinds
  <2> QED
    BY <1>0, <2>1, <2>2 DEF Held
<1>3. Left' = Left
  BY <1>1, <1>2 DEF Left
<1>4. Written' = Written
  BY DEF Written
<1>5. Lost' \subseteq Lost
  <2>1. pc # "undo retry"
    BY DEF Locked
  <2> QED
    BY <1>3, <1>4, <2>1 DEF Lost
<1> QED
  BY <1>0, <1>2, <1>3, <1>4, <1>5, Pays

(* A lock is released.  *)
LEMMA FreedStep ==
    ASSUME Consistent, Consistent', Finite, Bounded, at \in Indices,
           UNCHANGED <<plan, touched, writes, file, broken, faults>>,
           holder' = [holder EXCEPT ![Target] = None],
           Change.private, pc \in Locked, pc' \notin Locked
    PROVE  Finite' /\ Bounded'
<1>0. Control /\ Kinds /\ Kinds' /\ Target \in Paths
  BY TargetPath DEF Consistent, Control
<1>1. Mine = {Target} /\ Mine' = {}
  BY DEF Mine
<1>2. Held' = Held \ {Target}
  <2>1. \A p \in Paths : holder'[p] = IF p = Target THEN None ELSE holder[p]
    BY <1>0 DEF Kinds
  <2> QED
    BY <1>0, <2>1, NoneAssumption DEF Held
<1>3. Left' = Left
  BY <1>1, <1>2 DEF Left
<1>4. Written' = Written
  BY DEF Written
<1>5. Spent' = 0
  BY DEF Spent, Locked, Retries, Unmaking
<1>6. CASE pc = "undo retry"
  <2>1. Lost' \subseteq Lost \union {Target} /\ Spent = 1
    BY <1>3, <1>4, <1>6 DEF Lost, Spent, Retries
  <2> QED
    BY <1>0, <1>2, <1>3, <1>4, <1>5, <2>1, Pays
<1>7. CASE pc # "undo retry"
  <2>1. Lost' \subseteq Lost
    BY <1>3, <1>4, <1>7 DEF Lost
  <2> QED
    BY <1>0, <1>2, <1>3, <1>4, <1>5, <2>1, Pays
<1> QED
  BY <1>6, <1>7

(* A lock is left behind.  *)
LEMMA LeftStep ==
    ASSUME Consistent, Consistent', Finite, Bounded, at \in Indices,
           UNCHANGED <<plan, touched, writes, file, holder>>,
           broken' = broken \/ broken' = broken \union {Target},
           Fault, Change.private, pc \in Retries, pc' = "undo"
    PROVE  Finite' /\ Bounded'
<1>0. Control /\ Kinds /\ Kinds' /\ Target \in Paths
  BY TargetPath DEF Consistent, Control
<1>1. holder[Target] = "transaction" /\ pc \in Locked
  BY AtWork DEF Retries, Locked
<1>2. Mine = {Target} /\ Mine' = {}
  BY <1>1 DEF Mine, Locked
<1>3. Held' = Held /\ Target \in Held
  BY <1>0, <1>1 DEF Held
<1>4. Left' = Left \union {Target}
  BY <1>2, <1>3 DEF Left
<1>5. Written' = Written
  BY DEF Written
<1>6. Lost' \subseteq Lost
  BY <1>4, <1>5 DEF Lost
<1>7. Spent = 1 /\ Spent' = 0 /\ faults' = faults + 1
  BY DEF Spent, Retries, Unmaking, Fault
<1> QED
  BY <1>0, <1>3, <1>4, <1>5, <1>6, <1>7, Pays

-----------------------------------------------------------------------------
(* What is reported, step by step.  *)
LEMMA UnreportedStep ==
    ASSUME Reported, pc \in Clean, UNCHANGED <<plan, broken>>
    PROVE  Reported' /\ \A i \in Indices : P(i) \notin broken
  BY SamePlan DEF Reported, P

LEMMA SameChangeStep ==
    ASSUME Consistent, Reported, pc \in Dirty, pc' \notin Clean, at \in Indices,
           plan' = plan, at' = at,
           broken' = broken \/ broken' = broken \union {Target},
           pc' \in {"undo", "undo lock"} \union Unmaking =>
             broken' = broken /\ pc \in {"undo", "undo lock"} \union Unmaking
    PROVE  Reported'
<1>1. \A i \in Indices : i < at => P(i) # Target
  <2>1. \A i \in Indices : i < at => i # at
    BY PlanFacts, Counting, Order DEF Consistent, Control
  <2> QED
    BY <2>1, TargetPath DEF Consistent, Control
<1>2. \A i \in Indices : i < at => P(i) \notin broken'
  BY <1>1 DEF Reported
<1>3. pc' \in {"undo", "undo lock"} \union Unmaking =>
        \A i \in Indices : i = at => P(i) \notin broken'
  BY DEF Reported
<1> QED
  BY <1>2, <1>3, SamePlan DEF Reported, P

LEMMA ChangeBeforeStep ==
    ASSUME Consistent, Reported, pc \in Dirty, pc' = "undo", at \in Indices,
           plan' = plan, at' = at - 1,
           broken' = broken \/ broken' = broken \union {Target}
    PROVE  Reported'
<1>1. \A i \in Indices : i < at - 1 \/ i = at - 1 => i < at /\ i # at
  BY Counting, Order DEF Consistent, Control
<1>2. \A i \in Indices : i < at => P(i) \notin broken
  BY DEF Reported
<1>3. \A i \in Indices : i # at => P(i) # Target
  BY TargetPath DEF Consistent, Control
<1>4. \A i \in Indices : i < at - 1 \/ i = at - 1 => P(i) \notin broken'
  BY <1>1, <1>2, <1>3
<1> QED
  BY <1>4, SamePlan DEF Reported, P, Clean, Forward, Verifying

(* The invariant of this part, under the other.  *)
LEMMA UnreportedKeeps ==
    ASSUME Consistent, Consistent', Contained, pc \in Clean, broken' = broken, holder' = holder,
           UNCHANGED <<plan, touched, writes>>,
           file' = file \/ (/\ at \in Indices
                            /\ \E s \in {Own("planned"), Own("restored"), None} :
                                 file' = [file EXCEPT ![Target] = s]),
           Mine' = Mine, pc' # "undo retry",
           \/ faults' = faults /\ (Spent' = Spent \/ Spent' = 0)
           \/ Fault
    PROVE  Contained'
<1>1. Reported' /\ \A i \in Indices : P(i) \notin broken
  BY UnreportedStep DEF Contained
<1>2. at \in Indices => Target \notin broken
  BY <1>1, TargetPath DEF Consistent, Control
<1>3. Applies
  BY <1>2 DEF Applies
<1>4. pc # "undo retry"
  BY DEF Clean, Forward, Verifying
<1> QED
  BY <1>1, <1>3, <1>4, CalmStep DEF Contained

(* Steps before, between and after the changes.  *)
LEMMA OutsideContained ==
    ASSUME Consistent, Consistent', Contained,
           ValidateTargets \/ CreateBackups \/ Begin \/ Verify \/ VerifyFails
    PROVE  Contained'
<1>1. /\ pc \in Clean /\ pc \notin Locked
      /\ UNCHANGED <<plan, broken, holder, touched, writes, file>>
      /\ faults' = faults \/ Fault
  BY DEF ValidateTargets, CreateBackups, Begin, Verify, VerifyFails, othersVars, Clean, Forward,
         Verifying, Locked
<1>2. \/ pc' \in {"validating", "backup", "thrown", "begin", "verify", "undo", "lock",
                  "accept lock", "returned"}
      \/ pc' = "check" /\ at' = at /\ ~ Change.private
  BY DEF ValidateTargets, CreateBackups, Begin, Verify, VerifyFails, Goto, Unwind, Rejected
<1>3. Mine' = Mine
  BY <1>1, <1>2, SamePlan DEF Mine, Locked
<1>4. Spent' = 0 /\ pc' # "undo retry"
  BY <1>2 DEF Spent, Retries, Unmaking
<1> QED
  BY <1>1, <1>3, <1>4, UnreportedKeeps

(* Steps of an installation.  *)
LEMMA InstallsContained ==
    ASSUME Consistent, Consistent', Contained,
           Precheck \/ Check \/ Rename \/ Unlink \/ Sync
    PROVE  Contained'
<1>0. Control /\ at \in Indices
  BY AtWork DEF Consistent, Precheck, Check, Rename, Unlink, Sync, Working, Locked
<1>1. /\ pc \in Clean /\ pc \in Locked
      /\ UNCHANGED <<plan, broken, holder, touched, writes>>
      /\ faults' = faults \/ Fault
      /\ \/ file' = file
         \/ \E s \in {Own("planned"), Own("restored"), None} : file' = [file EXCEPT ![Target] = s]
  BY DEF Precheck, Check, Rename, Unlink, Sync, Sets, othersVars, Clean, Forward, Locked
<1>2. \/ ~ Change.private /\ pc' \in {"begin", "undo"}
      \/ pc' \in {"check", "rename", "unlink", "sync", "release", "abandon"} /\ at' = at
      \/ pc' = "undo check" /\ at' = at /\ cause' = "sync"
  BY DEF Precheck, Check, Rename, Unlink, Sync, Goto, Failed, Unwind, Journal
<1>3. Mine' = Mine
  BY <1>1, <1>2, SamePlan DEF Mine, Locked
<1>4. Spent' = 0 /\ pc' # "undo retry"
  BY <1>2 DEF Spent, Retries, Unmaking
<1> QED
  BY <1>0, <1>1, <1>3, <1>4, UnreportedKeeps

(* Steps of an update that is considered.  *)
LEMMA UpdateContained ==
    ASSUME Consistent, Consistent', Contained,
           Accept \/ ValidateUpdate \/ AcceptAgain
    PROVE  Contained'
<1>1. /\ pc \in Clean /\ pc \in Locked
      /\ UNCHANGED <<plan, broken, holder, touched, writes, file, faults>>
      /\ pc' \in {"validate", "refuse", "accept again", "accept release"} /\ at' = at
  BY DEF Accept, ValidateUpdate, AcceptAgain, Goto, othersVars, Clean, Verifying, Locked
<1>2. Mine' = Mine
  BY <1>1, SamePlan DEF Mine, Locked
<1>3. Spent' = 0 /\ pc' # "undo retry"
  BY <1>1 DEF Spent, Retries, Unmaking
<1> QED
  BY <1>1, <1>2, <1>3, UnreportedKeeps

(* Taking a lock in order to install or to accept.  *)
LEMMA LocksContained ==
    ASSUME Consistent, Consistent', Contained, Lock \/ AcceptLock
    PROVE  Contained'
<1>0. /\ Control /\ at \in Indices /\ Change.private
  BY AtWork DEF Lock, AcceptLock, Consistent, Control, Modes, OfPrivate, Working
<1>1. /\ pc \in Clean /\ pc \notin Locked
      /\ UNCHANGED <<plan, broken, touched, writes, file>>
  BY DEF Lock, AcceptLock, othersVars, Clean, Forward, Verifying, Locked
<1>2. CASE UNCHANGED holder /\ pc' = "undo" /\ (faults' = faults \/ Fault)
  <2>1. Mine' = Mine
    BY <1>1, <1>2 DEF Mine, Locked
  <2>2. Spent' = 0
    BY <1>2 DEF Spent, Retries, Unmaking
  <2> QED
    BY <1>1, <1>2, <2>1, <2>2, UnreportedKeeps
<1>3. CASE /\ holder[Target] = None /\ holder' = [holder EXCEPT ![Target] = "transaction"]
           /\ pc' \in {"check", "precheck", "accept"} /\ at' = at /\ faults' = faults
  <2>1. Spent' = 0 /\ pc' # "undo retry" /\ pc' \in Locked
    BY <1>3 DEF Spent, Retries, Unmaking, Locked
  <2>2. Finite' /\ Bounded'
    BY <1>0, <1>1, <1>3, <2>1, TakenStep DEF Contained
  <2> QED
    BY <1>1, <2>2, UnreportedStep DEF Contained
<1> QED
  BY <1>2, <1>3 DEF Lock, AcceptLock, Takes, TakesNot, Goto, Unwind, Rejected

(* Releasing it again.  *)
LEMMA ReleasesContained ==
    ASSUME Consistent, Consistent', Contained, Release \/ AcceptRelease \/ Refuse
    PROVE  Contained'
<1>0. /\ Control /\ at \in Indices /\ Change.private
  BY AtWork DEF Release, AcceptRelease, Refuse, Consistent, Control, Modes, OfPrivate, Working,
                Locked
<1>1. /\ pc \in Clean /\ pc \in Locked
      /\ UNCHANGED <<plan, broken, touched, writes, file>>
  BY DEF Release, AcceptRelease, Refuse, othersVars, Clean, Forward, Verifying, Locked
<1>2. CASE /\ holder' = [holder EXCEPT ![Target] = None] /\ faults' = faults
           /\ pc' \in {"begin", "verify", "undo"}
  <2>1. pc' \notin Locked
    BY <1>2 DEF Locked
  <2>2. Finite' /\ Bounded'
    BY <1>0, <1>1, <1>2, <2>1, FreedStep DEF Contained
  <2> QED
    BY <1>1, <2>2, UnreportedStep DEF Contained
<1>3. CASE /\ UNCHANGED holder /\ Fault
           /\ pc' \in {"undo check", "accept retry", "refuse retry"} /\ at' = at
  <2>1. Mine' = Mine
    BY <1>1, <1>3, SamePlan DEF Mine, Locked
  <2> QED
    BY <1>1, <1>3, <2>1, UnreportedKeeps
<1>4. CASE /\ UNCHANGED holder /\ Fault
           /\ pc \in {"accept retry", "refuse retry"} /\ pc' = "undo"
  <2>1. Finite' /\ Bounded'
    BY <1>0, <1>1, <1>4, LeftStep DEF Contained, Retries
  <2> QED
    BY <1>1, <2>1, UnreportedStep DEF Contained
<1> QED
  BY <1>2, <1>3, <1>4 DEF Release, AcceptRelease, Refuse, Goto, Journal, Rejected

LEMMA AbandonContained ==
    ASSUME Consistent, Consistent', Contained, Abandon
    PROVE  Contained'
<1>0. /\ Control /\ at \in Indices /\ Change.private
  BY AtWork DEF Abandon, Consistent, Control, Modes, OfPrivate, Working, Locked
<1>1. /\ pc \in {"abandon", "abandon again"} /\ pc \in Dirty /\ pc \in Locked
      /\ UNCHANGED <<plan, broken, touched, writes, file>>
  BY DEF Abandon, othersVars, Dirty, Locked
<1>2. CASE holder' = [holder EXCEPT ![Target] = None] /\ Unwind /\ faults' = faults
  <2>1. pc' = "undo" /\ at' = at - 1 /\ pc' \notin Locked
    BY <1>2 DEF Unwind, Locked
  <2>2. Finite' /\ Bounded'
    BY <1>0, <1>1, <1>2, <2>1, FreedStep DEF Contained
  <2>3. Reported'
    BY <1>0, <1>1, <2>1, ChangeBeforeStep DEF Contained
  <2> QED
    BY <2>2, <2>3 DEF Contained
<1>3. CASE UNCHANGED holder /\ Fault /\ pc' = "abandon again" /\ at' = at
  <2>1. Mine' = Mine
    BY <1>1, <1>3, SamePlan DEF Mine, Locked
  <2>2. Finite' /\ Bounded'
    BY <1>1, <1>3, <2>1, CalmStep DEF Contained, Applies
  <2>3. pc' \notin Clean /\ pc' \notin {"undo", "undo lock"} \union Unmaking
    BY <1>3 DEF Clean, Forward, Verifying, Unmaking
  <2>4. Reported'
    BY <1>0, <1>1, <1>3, <2>3, SameChangeStep DEF Contained
  <2> QED
    BY <2>2, <2>4 DEF Contained
<1>4. CASE UNCHANGED holder /\ Fault /\ pc = "abandon again" /\ Unwind
  <2>1. pc' = "undo" /\ at' = at - 1
    BY <1>4 DEF Unwind
  <2>2. Finite' /\ Bounded'
    BY <1>0, <1>1, <1>4, <2>1, LeftStep DEF Contained, Retries
  <2>3. Reported'
    BY <1>0, <1>1, <2>1, ChangeBeforeStep DEF Contained
  <2> QED
    BY <2>2, <2>3 DEF Contained
<1> QED
  BY <1>1, <1>2, <1>3, <1>4 DEF Abandon, Goto

(* Steps of a rollback.  *)
LEMMA UndoContained ==
    ASSUME Consistent, Consistent', Contained, Undo
    PROVE  Contained'
<1>0. Control /\ cause = "transaction" /\ at \in Stack
  BY DEF Undo, Consistent, Control, Modes, Positions
<1>1. /\ pc = "undo" /\ pc \in Dirty /\ pc \notin Locked /\ cause' = cause /\ at' = at
      /\ UNCHANGED <<plan, broken, holder, touched, writes, file, faults>>
  BY DEF Undo, Goto, othersVars, Dirty, Backward, Locked
<1>2. \/ pc' = "thrown"
      \/ pc' = "undo lock" /\ at # 0
      \/ pc' = "undo check" /\ ~ Change.private /\ at # 0
  BY DEF Undo, Goto
<1>3. Mine' = Mine
  BY <1>1, <1>2, SamePlan DEF Mine, Locked
<1>4. Spent' = 0 /\ pc' # "undo retry"
  BY <1>0, <1>1, <1>2 DEF Spent, Retries, Unmaking
<1>5. Finite' /\ Bounded'
  BY <1>1, <1>3, <1>4, CalmStep DEF Contained, Applies
<1>6. Reported'
  <2>1. CASE pc' = "thrown"
    BY <2>1 DEF Reported, Clean, Dirty, Forward, Backward, Verifying, Unmaking
  <2>2. CASE pc' \in {"undo lock", "undo check"} /\ at # 0
    <3>1. at \in Indices
      BY <1>0, <2>2, Counting DEF Control
    <3>2. pc' \notin Clean
      BY <2>2 DEF Clean, Forward, Verifying
    <3> QED
      BY <1>1, <3>1, <3>2, SameChangeStep DEF Contained
  <2> QED
    BY <1>2, <2>1, <2>2
<1> QED
  BY <1>5, <1>6 DEF Contained

LEMMA UndoLockContained ==
    ASSUME Consistent, Consistent', Contained, UndoLock
    PROVE  Contained'
<1>0. /\ Control /\ at \in Indices /\ Change.private /\ cause = "transaction"
  BY AtWork DEF UndoLock, Consistent, Control, Modes, OfPrivate, Working
<1>1. /\ pc = "undo lock" /\ pc \in Dirty /\ pc \notin Locked
      /\ UNCHANGED <<plan, touched, writes, file, cause>>
  BY DEF UndoLock, othersVars, Dirty, Backward, Locked
<1>2. CASE /\ holder[Target] = None /\ holder' = [holder EXCEPT ![Target] = "transaction"]
           /\ pc' = "undo check" /\ at' = at /\ UNCHANGED <<broken, faults>>
  <2>1. Spent' = 0 /\ pc' # "undo retry" /\ pc' \in Locked /\ pc' \notin Clean
    BY <1>0, <1>1, <1>2 DEF Spent, Retries, Unmaking, Locked, Clean, Forward, Verifying
  <2>2. Finite' /\ Bounded'
    BY <1>0, <1>1, <1>2, <2>1, TakenStep DEF Contained
  <2>3. Reported'
    BY <1>0, <1>1, <1>2, <2>1, SameChangeStep DEF Contained
  <2> QED
    BY <2>2, <2>3 DEF Contained
<1>3. CASE TakesNot /\ broken' = broken \union {Target} /\ pc' = "undo" /\ at' = at - 1
  <2>1. Spent' = 0 /\ Mine' = {} /\ Mine = {}
    BY <1>1, <1>3 DEF Spent, Retries, Unmaking, Mine, Locked
  <2>2. holder' = holder /\ (Fault \/ (faults' = faults /\ holder[Target] = "transaction"))
    BY <1>3 DEF TakesNot
  <2>3. holder[Target] = "transaction" => Target \in Left
    BY <1>0, <2>1, TargetPath DEF Left, Held, Control
  <2>4. Finite' /\ Bounded'
    BY <1>0, <1>1, <1>3, <2>1, <2>2, <2>3, ChargedStep DEF Contained
  <2>5. Reported'
    BY <1>0, <1>1, <1>3, ChangeBeforeStep DEF Contained
  <2> QED
    BY <2>4, <2>5 DEF Contained
<1> QED
  BY <1>2, <1>3 DEF UndoLock, Takes, Goto

LEMMA UndoneMoves ==
    ASSUME Consistent, Contained, Undone, plan' = plan, pc \in Unmaking \union {"undo sync"},
           broken' = broken \/ broken' = broken \union {Target}
    PROVE  Mine' = Mine /\ (Spent' = Spent \/ Spent' = 0) /\ pc' # "undo retry" /\ Reported'
<1>0. /\ Control /\ at \in Indices /\ pc \in Locked /\ pc \in Dirty
      /\ cause = "release" => Change.private
  BY AtUndoing DEF Locked, Dirty, Backward, Unmaking
<1>1. \/ ~ Change.private /\ pc' = "undo" /\ at' = at - 1
      \/ pc' \in {"undo release", "abandon"} /\ at' = at
      \/ pc' = "abandon again" /\ at' = at /\ cause = "release"
  BY <1>0 DEF Undone, Goto, Failed, Unwind, Control, Causes
<1>2. Mine' = Mine
  BY <1>0, <1>1, SamePlan DEF Mine, Locked
<1>3. Spent' = Spent \/ Spent' = 0
  BY <1>1 DEF Spent, Retries, Unmaking
<1>4. Reported'
  <2>1. CASE pc' = "undo" /\ at' = at - 1
    BY <1>0, <2>1, ChangeBeforeStep DEF Contained
  <2>2. CASE pc' \in {"undo release", "abandon", "abandon again"} /\ at' = at
    <3>1. pc' \notin Clean /\ pc' \notin {"undo", "undo lock"} \union Unmaking
      BY <2>2 DEF Clean, Forward, Verifying, Unmaking
    <3> QED
      BY <1>0, <2>2, <3>1, SameChangeStep DEF Contained
  <2> QED
    BY <1>1, <2>1, <2>2
<1> QED
  BY <1>1, <1>2, <1>3, <1>4

LEMMA BreaksContained ==
    ASSUME Consistent, Consistent', Contained, Breaks, pc \in Unmaking \union {"undo sync"},
           UNCHANGED <<plan, file, holder, touched, writes>>,
           \/ faults' = faults /\ Target \in Written
           \/ Fault
    PROVE  Contained'
<1>1. Undone /\ broken' = broken \union {Target}
  BY DEF Breaks
<1>2. Mine' = Mine /\ (Spent' = Spent \/ Spent' = 0) /\ pc' # "undo retry" /\ Reported'
  BY <1>1, UndoneMoves
<1>3. pc # "undo retry"
  BY DEF Unmaking
<1> QED
  BY <1>1, <1>2, <1>3, ChargedStep DEF Contained

LEMMA UndoneContained ==
    ASSUME Consistent, Consistent', Contained, Undone, pc \in Unmaking \union {"undo sync"},
           Applies, UNCHANGED <<holder, broken, faults>>
    PROVE  Contained'
<1>1. Mine' = Mine /\ (Spent' = Spent \/ Spent' = 0) /\ pc' # "undo retry" /\ Reported'
  BY UndoneMoves DEF Applies
<1>2. pc # "undo retry"
  BY DEF Unmaking
<1> QED
  BY <1>1, <1>2, CalmStep DEF Contained

(* The next look, or the next operation, of a rollback.  *)
LEMMA DeeperContained ==
    ASSUME Consistent, Consistent', Contained, pc \in Unmaking,
           pc' \in {"undo recheck", "undo apply", "undo sync"}, at' = at, cause' = cause,
           Applies, UNCHANGED <<holder, broken, faults>>
    PROVE  Contained'
<1>0. at \in Indices /\ pc \in Locked /\ pc \in Dirty /\ plan' = plan
  BY AtUndoing DEF Applies, Locked, Dirty, Backward, Unmaking
<1>1. Mine' = Mine
  BY <1>0, SamePlan DEF Mine, Locked
<1>2. Spent' = Spent /\ pc # "undo retry" /\ pc' # "undo retry" /\ pc' \notin Clean
  BY DEF Spent, Retries, Unmaking, Clean, Forward, Verifying
<1>3. Reported'
  BY <1>0, <1>2, SameChangeStep DEF Contained
<1> QED
  BY <1>1, <1>2, <1>3, CalmStep DEF Contained

(* What a rollback does not find there is gone by the hand of others.  *)
LEMMA OthersWereThere ==
    ASSUME Consistent, pc \in Unmaking,
           \/ file[Target] # Installed
           \/ Change.delete /\ file[Target] # None
    PROVE  Target \in Written
<1>1. at \in Indices /\ Target \in Paths /\ Target = P(at) /\ Change = plan[at] /\ Control
  BY PlanFacts, TargetPath, AtWork DEF Consistent, Control, Working, Locked, Unmaking
<1>2. \/ cause = "transaction" /\ Kept(at)
      \/ cause # "transaction" /\ Made(at)
  BY <1>1, AtWork
<1>3. Foreign(Target)
  BY <1>1, <1>2 DEF Kept, Made, Installed, Foreign
<1> QED
  BY <1>1, <1>3 DEF Foreign, Written

LEMMA UndoCheckContained ==
    ASSUME Consistent, Consistent', Contained, UndoCheck
    PROVE  Contained'
<1>1. /\ pc = "undo check" /\ pc \in Unmaking
      /\ UNCHANGED <<plan, file, holder, touched, writes>>
  BY DEF UndoCheck, Unmaking
<1>2. CASE Breaks /\ (Fault \/ (faults' = faults /\ file[Target] # Installed))
  BY <1>1, <1>2, OthersWereThere, BreaksContained
<1>3. CASE Undone /\ UNCHANGED <<broken, faults>>
  BY <1>1, <1>3, UndoneContained DEF Applies
<1>4. CASE pc' \in {"undo recheck", "undo apply"} /\ at' = at /\ UNCHANGED <<cause, broken, faults>>
  BY <1>1, <1>4, DeeperContained DEF Applies
<1>5. \/ /\ file[Target] = Installed
         /\ Goto(IF Change.delete THEN "undo recheck" ELSE "undo apply")
         /\ UNCHANGED <<cause, broken, faults>>
      \/ /\ file[Target] # Installed
         /\ IF Change.delete THEN Undone /\ UNCHANGED broken ELSE Breaks
         /\ UNCHANGED faults
      \/ Fault /\ Breaks
  BY DEF UndoCheck
<1> QED
  BY <1>2, <1>3, <1>4, <1>5 DEF Goto

LEMMA UndoRecheckContained ==
    ASSUME Consistent, Consistent', Contained, UndoRecheck
    PROVE  Contained'
<1>1. /\ pc = "undo recheck" /\ pc \in Unmaking /\ Change.delete
      /\ UNCHANGED <<plan, file, holder, touched, writes>>
  BY DEF UndoRecheck, Unmaking, Consistent, Control, Modes
<1>2. CASE Breaks /\ (Fault \/ (faults' = faults /\ file[Target] # None))
  BY <1>1, <1>2, OthersWereThere, BreaksContained
<1>3. CASE pc' = "undo apply" /\ at' = at /\ UNCHANGED <<cause, broken, faults>>
  BY <1>1, <1>3, DeeperContained DEF Applies
<1> QED
  BY <1>2, <1>3 DEF UndoRecheck, Goto

LEMMA UndoApplyContained ==
    ASSUME Consistent, Consistent', Contained, UndoApply
    PROVE  Contained'
<1>1. /\ pc = "undo apply" /\ pc \in Unmaking
      /\ UNCHANGED <<plan, holder, touched, writes>>
  BY DEF UndoApply, Unmaking, othersVars
<1>2. /\ at \in Indices /\ Target \in Paths /\ Target = P(at) /\ Change = plan[at]
      /\ Control /\ Kinds /\ plan \in Plans
  BY <1>1, AtUndoing DEF Control
<1>3. CASE Breaks /\ Fault /\ UNCHANGED file
  BY <1>1, <1>3, BreaksContained
<1>4. CASE Breaks /\ UNCHANGED <<file, faults>> /\ ~ Change.exists /\ file[Target] = None
  <2>1. ~ Change.delete
    BY <1>2, <1>4, PlanFacts
  <2>2. Installed # None
    <3>1. cause = "transaction" => Kept(at)
      BY <1>1, <1>2, AtWork
    <3> QED
      BY <1>2, <2>1, <3>1, OwnIsSnapshot, NoneAssumption DEF Installed, Kept
  <2>3. Target \in Written
    BY <1>1, <1>4, <2>2, OthersWereThere
  <2> QED
    BY <1>1, <1>4, <2>3, BreaksContained
<1>5. CASE /\ Sets(IF Change.exists THEN Own("restored") ELSE None)
           /\ IF Change.private \/ Change.delete THEN Goto("undo sync") /\ UNCHANGED cause
              ELSE Undone
           /\ UNCHANGED <<broken, faults>>
  <2>1. Target \notin broken
    BY <1>1, <1>2 DEF Contained, Reported
  <2>2. Applies
    BY <1>1, <1>2, <1>5, <2>1 DEF Applies, Sets
  <2>3. CASE Undone
    BY <1>1, <1>5, <2>2, <2>3, UndoneContained
  <2>4. CASE pc' = "undo sync" /\ at' = at /\ cause' = cause
    BY <1>1, <1>5, <2>2, <2>4, DeeperContained
  <2> QED
    BY <1>5, <2>3, <2>4 DEF Goto
<1> QED
  BY <1>3, <1>4, <1>5 DEF UndoApply

LEMMA UndoSyncContained ==
    ASSUME Consistent, Consistent', Contained, UndoSync
    PROVE  Contained'
<1>1. pc = "undo sync" /\ UNCHANGED <<plan, file, holder, touched, writes>>
  BY DEF UndoSync, othersVars
<1>2. CASE Fault /\ Breaks
  BY <1>1, <1>2, BreaksContained
<1>3. CASE Undone /\ UNCHANGED <<broken, faults>>
  BY <1>1, <1>3, UndoneContained DEF Applies
<1> QED
  BY <1>2, <1>3 DEF UndoSync

LEMMA UndoReleaseContained ==
    ASSUME Consistent, Consistent', Contained, UndoRelease
    PROVE  Contained'
<1>0. /\ Control /\ Kinds /\ Kinds' /\ at \in Indices /\ Change.private /\ cause = "transaction"
  BY AtWork DEF UndoRelease, Consistent, Control, Modes, OfPrivate, Working, Locked
<1>1. /\ pc \in {"undo release", "undo retry"} /\ pc \in Dirty /\ pc \in Locked
      /\ UNCHANGED <<plan, touched, writes, file>>
  BY DEF UndoRelease, othersVars, Dirty, Backward, Locked
<1>2. CASE /\ holder' = [holder EXCEPT ![Target] = None] /\ pc' = "undo" /\ at' = at - 1
           /\ UNCHANGED <<broken, faults>>
  <2>1. pc' \notin Locked
    BY <1>2 DEF Locked
  <2>2. Finite' /\ Bounded'
    BY <1>0, <1>1, <1>2, <2>1, FreedStep DEF Contained
  <2>3. Reported'
    BY <1>0, <1>1, <1>2, ChangeBeforeStep DEF Contained
  <2> QED
    BY <2>2, <2>3 DEF Contained
<1>3. CASE /\ Fault /\ UNCHANGED holder /\ broken' = broken \union {Target}
           /\ pc = "undo release" /\ pc' = "undo retry" /\ at' = at
  <2>1. Target' = Target /\ Mine' = Mine
    BY <1>1, <1>3, SamePlan DEF Mine, Locked
  <2>2. Held' = Held /\ Left' = Left /\ Written' = Written
    BY <1>1, <1>3, <2>1 DEF Held, Left, Written
  <2>3. Lost' \subseteq Lost
    BY <1>3, <2>1, <2>2 DEF Lost
  <2>4. faults' = faults + 1
    BY <1>3 DEF Fault
  <2>5. Finite' /\ Bounded'
    BY <1>0, <1>1, <1>3, <2>2, <2>3, <2>4, Pays DEF Contained
  <2>6. pc' \notin Clean /\ pc' \notin {"undo", "undo lock"} \union Unmaking
    BY <1>3 DEF Clean, Forward, Verifying, Unmaking
  <2>7. Reported'
    BY <1>0, <1>1, <1>3, <2>6, SameChangeStep DEF Contained
  <2> QED
    BY <2>5, <2>7 DEF Contained
<1>4. CASE /\ Fault /\ UNCHANGED holder /\ broken' = broken \union {Target}
           /\ pc = "undo retry" /\ pc' = "undo" /\ at' = at - 1
  <2>1. Finite' /\ Bounded'
    BY <1>0, <1>1, <1>4, LeftStep DEF Contained, Retries
  <2>2. Reported'
    BY <1>0, <1>1, <1>4, ChangeBeforeStep DEF Contained
  <2> QED
    BY <2>1, <2>2 DEF Contained
<1> QED
  BY <1>1, <1>2, <1>3, <1>4 DEF UndoRelease, Goto

-----------------------------------------------------------------------------
(* Steps of everybody else.  *)
LEMMA OthersContained ==
    ASSUME Consistent, Consistent', Contained, NEW q,
           UNCHANGED <<plan, pc, at, cause, broken, faults>>, Held' = Held,
           touched \subseteq touched',
           \/ UNCHANGED <<file, writes, touched>>
           \/ /\ writes' = writes + 1 /\ touched' \subseteq touched \union {q}
              /\ \A p \in Paths : p # q => file'[p] = file[p]
              /\ q \in Written'
    PROVE  Contained'
<1>0. Kinds /\ Kinds'
  BY DEF Consistent
<1>1. /\ Written \subseteq Written' /\ Written' \subseteq Written \union {q}
      /\ UNCHANGED <<file, writes, touched>> => Written' = Written
  BY DEF Written
<1>2. Mine' = Mine /\ Left' = Left /\ Spent' = Spent /\ Target' = Target
  BY SamePlan DEF Mine, Left, Spent
<1>3. Lost' \subseteq Lost
  BY <1>1, <1>2 DEF Lost
<1>4. \/ Written' \subseteq Written /\ writes' = writes
      \/ Written' \subseteq Written \union {q} /\ writes' = writes + 1
  BY <1>1
<1>5. Finite' /\ Bounded'
  BY <1>0, <1>2, <1>3, <1>4, Pays DEF Contained
<1>6. Reported'
  BY SamePlan DEF Contained, Reported, P
<1> QED
  BY <1>5, <1>6 DEF Contained

LEMMA EditContained ==
    ASSUME Consistent, Consistent', Contained, NEW p \in Paths, Edit(p)
    PROVE  Contained'
<1>0. Kinds
  BY DEF Consistent
<1>1. /\ UNCHANGED <<plan, pc, at, cause, broken, faults, holder>>
      /\ touched' = touched \union {p} /\ writes' = writes + 1
      /\ \E s : file' = [file EXCEPT ![p] = s]
  BY DEF Edit, Others, Writes
<1>2. Held' = Held /\ p \in Written' /\ \A r \in Paths : r # p => file'[r] = file[r]
  BY <1>0, <1>1 DEF Held, Written, Kinds
<1> QED
  BY <1>1, <1>2, OthersContained

LEMMA UpdaterContained ==
    ASSUME Consistent, Consistent', Contained, Updates
    PROVE  Contained'
<1>0. Kinds /\ Locks
  BY DEF Consistent
<1>1. UNCHANGED <<plan, pc, at, cause, broken, faults, touched>>
  BY DEF Updates, UpdaterReads, UpdaterLocks, UpdaterWrites, UpdaterReleases, UpdaterGivesUp, Others
<1>2. CASE UNCHANGED <<file, writes, holder>>
  BY <1>1, <1>2, OthersContained DEF Held
<1>3. CASE UpdaterLocks
  <2>1. /\ holder[updater.path] = None /\ holder' = [holder EXCEPT ![updater.path] = "updater"]
        /\ UNCHANGED <<file, writes>>
    BY <1>3 DEF UpdaterLocks
  <2>2. Held' = Held
    BY <1>0, <2>1, NoneAssumption DEF Held, Kinds
  <2> QED
    BY <1>1, <2>1, <2>2, OthersContained
<1>4. CASE UpdaterReleases
  <2>1. /\ holder[updater.path] = "updater" /\ holder' = [holder EXCEPT ![updater.path] = None]
        /\ UNCHANGED <<file, writes>>
    BY <1>0, <1>4 DEF UpdaterReleases, Locks
  <2>2. Held' = Held
    BY <1>0, <2>1, NoneAssumption DEF Held, Kinds
  <2> QED
    BY <1>1, <2>1, <2>2, OthersContained
<1>5. CASE UpdaterWrites
  <2>1. /\ updater.step = "locked" /\ updater.path \in Paths
        /\ file' = [file EXCEPT ![updater.path] = [content |-> "updated", serial |-> writes']]
        /\ writes' = writes + 1 /\ UNCHANGED holder
    BY <1>0, <1>5 DEF UpdaterWrites, Writes, Locks
  <2>2. [content |-> "updated", serial |-> writes'] \in FileSnapshot
    <3>1. writes' \in 0..MaxWrites
      BY Zenon DEF Consistent, Kinds
    <3> QED
      BY <3>1 DEF FileSnapshot
  <2>3. file'[updater.path] # None /\ file'[updater.path].content = "updated"
    BY <1>0, <2>1, <2>2, NoneAssumption DEF Kinds
  <2>4. /\ Held' = Held /\ updater.path \in Written'
        /\ \A r \in Paths : r # updater.path => file'[r] = file[r]
    BY <1>0, <2>1, <2>3 DEF Held, Written, Kinds
  <2> QED
    BY <1>1, <2>1, <2>4, OthersContained
<1> QED
  BY <1>2, <1>3, <1>4, <1>5 DEF Updates, UpdaterReads, UpdaterGivesUp

LEMMA InitContained == Init => Contained
<1> SUFFICES ASSUME Init PROVE Contained
  OBVIOUS
<1>1. /\ broken = {} /\ touched = {} /\ writes = 0 /\ faults = 0
      /\ \A p \in Paths : holder[p] = None
      /\ \A p \in Paths : file[p] \in {Own("before"), None}
      /\ pc = "validating"
  BY DEF Init
<1>2. Held = {} /\ Written = {}
  BY <1>1, NoneAssumption DEF Held, Written, Own
<1>3. Lost = {} /\ Left = {} /\ Spent = 0
  BY <1>1, <1>2 DEF Lost, Left, Spent, Retries, Unmaking
<1>4. Finite /\ Bounded
  BY <1>1, <1>2, <1>3, FS_EmptySet DEF Finite, Bounded
<1>5. Reported
  BY <1>1 DEF Reported
<1> QED
  BY <1>4, <1>5 DEF Contained

LEMMA NextContained ==
    ASSUME Consistent, Consistent', Contained, [Next]_vars
    PROVE  Contained'
<1>1. CASE Installs
  BY <1>1, OutsideContained, InstallsContained, LocksContained, ReleasesContained,
     AbandonContained DEF Installs
<1>2. CASE Verifies
  BY <1>2, OutsideContained, UpdateContained, LocksContained, ReleasesContained DEF Verifies
<1>3. CASE Undoes
  BY <1>3, UndoContained, UndoLockContained, UndoCheckContained, UndoRecheckContained,
     UndoApplyContained, UndoSyncContained, UndoReleaseContained DEF Undoes
<1>4. CASE Updates
  BY <1>4, UpdaterContained
<1>5. CASE \E p \in Paths : Edit(p)
  BY <1>5, EditContained
<1>6. CASE Abort \/ UNCHANGED vars
  <2>1. UNCHANGED <<plan, pc, at, cause, broken, faults, holder, file, writes, touched>>
    BY <1>6 DEF Abort, vars, othersVars
  <2> QED
    BY <2>1, OthersContained DEF Held
<1> QED
  BY <1>1, <1>2, <1>3, <1>4, <1>5, <1>6 DEF Next

(* Every rollback that fails and every lock that stays behind has its own  *)
(* fault, or its own write of somebody else: one failure does not spread.  *)
THEOREM Containment == Spec => []FaultsAreContained
<1>1. Init => Consistent /\ Contained
  BY InitConsistent, InitContained
<1>2. Consistent /\ Contained /\ [Next]_vars => (Consistent /\ Contained)'
  BY NextKeeps, NextContained
<1>3. ASSUME Consistent, Contained, pc \in {"returned", "thrown"}
      PROVE  /\ Cardinality(broken) <= faults + writes
             /\ 2 * Cardinality(Held) <= faults
  <2>1. /\ IsFiniteSet(Lost) /\ IsFiniteSet(Left) /\ IsFiniteSet(Written) /\ IsFiniteSet(broken)
        /\ IsFiniteSet(Lost \union Left)
    BY <1>3, FiniteParts, FS_Union DEF Contained, Finite
  <2>2. Mine = {} /\ Left = Held /\ Spent = 0
    BY <1>3 DEF Mine, Left, Locked, Held, Spent, Retries, Unmaking
  <2>3. broken \subseteq (Lost \union Left) \union Written
    BY <1>3 DEF Lost
  <2>4. /\ Cardinality(Lost) \in Nat /\ Cardinality(Left) \in Nat
        /\ Cardinality(Written) \in Nat /\ Cardinality(broken) \in Nat
        /\ Cardinality(Lost \union Left) \in Nat
        /\ Cardinality(Lost \union Left) <= Cardinality(Lost) + Cardinality(Left)
        /\ Cardinality(broken) <= Cardinality(Lost \union Left) + Cardinality(Written)
    <3>1. \A S, T : IsFiniteSet(S) /\ IsFiniteSet(T) =>
            /\ IsFiniteSet(S \union T)
            /\ Cardinality(S) \in Nat /\ Cardinality(T) \in Nat
            /\ Cardinality(S \union T) \in Nat
            /\ Cardinality(S \union T) <= Cardinality(S) + Cardinality(T)
      <4> SUFFICES ASSUME NEW S, NEW T, IsFiniteSet(S), IsFiniteSet(T)
                   PROVE  /\ IsFiniteSet(S \union T)
                          /\ Cardinality(S) \in Nat /\ Cardinality(T) \in Nat
                          /\ Cardinality(S \union T) \in Nat
                          /\ Cardinality(S \union T) <= Cardinality(S) + Cardinality(T)
        OBVIOUS
      <4>1. /\ IsFiniteSet(S \union T)
            /\ Cardinality(S \union T)
                 = Cardinality(S) + Cardinality(T) - Cardinality(S \cap T)
        BY FS_Union
      <4>2. IsFiniteSet(S \cap T)
        BY FS_Subset
      <4>3. /\ Cardinality(S) \in Nat /\ Cardinality(T) \in Nat /\ Cardinality(S \cap T) \in Nat
            /\ Cardinality(S \union T) \in Nat
        BY <4>1, <4>2, FS_CardinalityType
      <4> QED
        BY <4>1, <4>3
    <3>2. Cardinality(broken) <= Cardinality((Lost \union Left) \union Written)
          /\ Cardinality(broken) \in Nat
          /\ Cardinality((Lost \union Left) \union Written) \in Nat
      BY <2>1, <2>3, <3>1, FS_Subset, FS_CardinalityType
    <3>3. /\ Cardinality(Lost) \in Nat /\ Cardinality(Left) \in Nat
          /\ Cardinality(Lost \union Left) \in Nat
          /\ Cardinality(Lost \union Left) <= Cardinality(Lost) + Cardinality(Left)
      BY <2>1, <3>1
    <3>4. /\ Cardinality(Written) \in Nat
          /\ Cardinality((Lost \union Left) \union Written)
               <= Cardinality(Lost \union Left) + Cardinality(Written)
      BY <2>1, <3>1
    <3> QED
      BY <3>2, <3>3, <3>4
  <2>5. /\ Cardinality(Written) <= writes
        /\ Cardinality(Lost) + 2 * Cardinality(Left) <= faults
    BY <1>3, <2>2, <2>4 DEF Contained, Bounded
  <2>6. writes \in Nat /\ faults \in Nat
    BY <1>3, Numbers DEF Consistent
  <2> QED
    BY <2>2, <2>4, <2>5, <2>6
<1>4. Consistent /\ Contained => FaultsAreContained
  BY <1>3 DEF FaultsAreContained, Held
<1> QED
  BY <1>1, <1>2, <1>4, PTL DEF Spec
=============================================================================
