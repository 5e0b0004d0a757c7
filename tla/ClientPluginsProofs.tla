------------------------ MODULE ClientPluginsProofs ------------------------
(***************************************************************************)
(* What a program has loaded stays on disk, an adapter that nobody removes *)
(* survives, the registry stays whole or recoverable, outcomes are honest  *)
(* and commands leave nothing behind, for any number of processes,         *)
(* packages, crashes and I/O errors.                                       *)
(*                                                                         *)
(* Registry is the inductive invariant of the first.  Effect goes through  *)
(* the actions: each keeps the types, leaves the other processes Apart,    *)
(* and Arrives at a step whose conditions hold.  Keeps concludes from that *)
(* alone.                                                                  *)
(*                                                                         *)
(* Whereabouts adds where the containers are, for the other two: each      *)
(* action Lands(p), with the files in order and p's position true, and     *)
(* WhereaboutsStay concludes for the other processes.                      *)
(*                                                                         *)
(* Honest adds, for as long as no file operation fails, what becomes of a  *)
(* promotion and who still owes the registry its tidying: each action      *)
(* Behaves(p), and HonestStays concludes.  So outcomes are honest and      *)
(* commands leave nothing behind.                                          *)
(***************************************************************************)
EXTENDS ClientPlugins, FiniteSetTheorems, TLAPS

Inside == Recovering \union Operating \union Releasing

Steps == Inside \union Outside

(* The steps that act on what the journal names. *)
OnJournal == {"judge", "remove target", "put back", "check restored", "clear"}

(* The steps that act on a container that was set aside.  *)
OnAside == {"drop backup", "move old", "give back", "move away", "bring back", "discard"}

(* The steps of installClientAdapter from the stage to its promotion.  *)
OfPromotion == {"stage", "conflict", "move graph", "point", "journal", "move old", "move new",
                "accept", "take back", "give back", "unjournal"}

(* Only the holder of the lock is inside the registry. *)
Exclusive == \A p \in Processes : pc[p] \in Inside => holder = p

(* The steps that belong to one kind of visit only.  *)
Visits ==
    \A p \in Processes :
        /\ pc[p] \in OfPromotion => entry[p] = "promote"
        /\ pc[p] = "load" => entry[p] = "load"
        /\ pc[p] = "unload" => entry[p] \in {"load", "unload"}
        /\ pc[p] \in {"find", "move away", "bring back"} => entry[p] = "remove"

(* The module graph of a process is not there before it has staged one. *)
Fresh ==
    \A p \in Processes : entry[p] = "first" \/ pc[p] = "stage" => graph[p] = "nowhere"

(* The journal that a step acts on is there. *)
Journaled == \A p \in Processes : pc[p] \in OnJournal => journal # None

(* So is the container that was set aside. *)
SetAside ==
    \A p \in Processes :
        pc[p] \in OnAside \/ (pc[p] = "release" /\ entry[p] = "remove") => aside[p] # None

Registry ==
    TypeOK /\ Exclusive /\ Visits /\ Fresh /\ Journaled /\ SetAside /\ LeasedGraphsStay

-----------------------------------------------------------------------------
Places == {"nowhere", "stage", "active", "backup", "inactive"}
Graphs == {"nowhere", "stage", "root"}
Statuses == {"none", "completed", "reverted"}
Outcomes == {"none", "installed", "removed", "loaded", "failed"}

Typed ==
    /\ command \in [Processes -> Commands]
    /\ pc \in [Processes -> Steps]
    /\ entry \in [Processes -> Entries]
    /\ status \in [Processes -> Statuses]
    /\ aside \in [Processes -> Containers \union {None}]
    /\ outcome \in [Processes -> Outcomes]
    /\ holder \in Processes \union {None}
    /\ journal \in Journals \union {None}
    /\ place \in [Containers -> Places]
    /\ debris \subseteq Containers
    /\ graph \in [Containers -> Graphs]
    /\ leases \subseteq Processes \X Containers
    /\ confirmed \subseteq Processes
    /\ faults \in 0..MaxFaults

(* The type invariant with names for its sets. *)
LEMMA TypedIsTypeOK == Typed <=> TypeOK
  BY DEF Typed, TypeOK, Steps, Inside, Places, Graphs, Statuses, Outcomes

(* What a step of p leaves to the others.  *)
Apart(p) ==
    /\ \A q \in Processes : q # p =>
         /\ pc'[q] = pc[q]
         /\ entry'[q] = entry[q]
         /\ aside'[q] = aside[q]
         /\ graph'[q] \in {graph[q], "nowhere"}
    /\ Alive(p)
    /\ holder' = holder \/ ~ Locked \/ pc[p] \in Inside
    /\ journal' = journal \/ pc[p] \in Inside
    /\ \A lease \in leases' : Alive(lease[1]) => graph'[lease[2]] = "root"

(* Where a step of p leads.  *)
Arrives(p) ==
    /\ pc'[p] \in Inside => holder' = p
    /\ pc'[p] \in OfPromotion => entry'[p] = "promote"
    /\ pc'[p] = "load" => entry'[p] = "load"
    /\ pc'[p] = "unload" => entry'[p] \in {"load", "unload"}
    /\ pc'[p] \in {"find", "move away", "bring back"} => entry'[p] = "remove"
    /\ entry'[p] = "first" \/ pc'[p] = "stage" => graph'[p] = "nowhere"
    /\ pc'[p] \in OnJournal => journal' # None
    /\ pc'[p] \in OnAside \/ (pc'[p] = "release" /\ entry'[p] = "remove") => aside'[p] # None

-----------------------------------------------------------------------------
(* What the helpers of the actions do to the variables they change.  *)
LEMMA GotoStep ==
    ASSUME pc \in [Processes -> Steps], NEW p \in Processes, NEW step \in Steps, Goto(p, step)
    PROVE  /\ pc'[p] = step
           /\ \A q \in Processes : q # p => pc'[q] = pc[q]
           /\ pc' \in [Processes -> Steps]
  BY DEF Goto

LEMMA FaultStep ==
    ASSUME faults \in 0..MaxFaults, Fault
    PROVE  faults' \in 0..MaxFaults
  BY PluginsAssumption DEF Fault

LEMMA MovesStep ==
    ASSUME place \in [Containers -> Places], NEW c, NEW to \in Places, Moves(c, to)
    PROVE  place' \in [Containers -> Places]
  BY DEF Moves

LEMMA ContinueStep ==
    ASSUME pc \in [Processes -> Steps], entry \in [Processes -> Entries],
           outcome \in [Processes -> Outcomes], NEW p \in Processes, NEW step \in Steps,
           NEW next \in Entries, NEW result \in Outcomes, Continue(p, step, next, result)
    PROVE  /\ pc'[p] = step
           /\ pc' \in [Processes -> Steps]
           /\ entry' \in [Processes -> Entries]
           /\ entry'[p] = next
           /\ outcome' \in [Processes -> Outcomes]
           /\ \A q \in Processes : q # p => pc'[q] = pc[q] /\ entry'[q] = entry[q]
<1>1. /\ pc'[p] = step
      /\ pc' \in [Processes -> Steps]
      /\ \A q \in Processes : q # p => pc'[q] = pc[q]
  BY GotoStep DEF Continue
<1>2. /\ entry' \in [Processes -> Entries]
      /\ entry'[p] = next
      /\ \A q \in Processes : q # p => entry'[q] = entry[q]
  BY DEF Continue
<1>3. outcome' \in [Processes -> Outcomes]
  BY DEF Continue
<1> QED
  BY <1>1, <1>2, <1>3

(* The ends of a visit.  *)
LEMMA FailureStep ==
    ASSUME pc \in [Processes -> Steps], entry \in [Processes -> Entries],
           outcome \in [Processes -> Outcomes], NEW p \in Processes, AfterFailure(p)
    PROVE  /\ pc'[p] \in {"ended", "unstage"}
           /\ pc' \in [Processes -> Steps]
           /\ entry' \in [Processes -> Entries]
           /\ outcome' \in [Processes -> Outcomes]
           /\ entry'[p] = "first" => entry[p] = "first"
           /\ \A q \in Processes : q # p => pc'[q] = pc[q] /\ entry'[q] = entry[q]
<1>0. /\ {"ended", "unstage"} \subseteq Steps
      /\ {"cleanup", "after"} \subseteq Entries
      /\ {"failed", "removed"} \subseteq Outcomes
  BY DEF Steps, Outside, Entries, Outcomes
<1>1. CASE entry[p] \in {"promote", "confirm"} /\ Continue(p, "unstage", "cleanup", "failed")
  BY <1>0, <1>1, ContinueStep
<1>2. CASE entry[p] = "after" /\ Continue(p, "ended", "after", "removed")
  BY <1>0, <1>2, ContinueStep
<1>3. CASE Continue(p, "ended", entry[p], "failed")
  BY <1>0, <1>3, ContinueStep
<1> QED
  BY <1>1, <1>2, <1>3 DEF AfterFailure

LEMMA SuccessStep ==
    ASSUME pc \in [Processes -> Steps], entry \in [Processes -> Entries],
           outcome \in [Processes -> Outcomes], NEW p \in Processes, AfterSuccess(p)
    PROVE  /\ pc'[p] \in {"stage", "enter", "unstage", "use", "discard", "ended"}
           /\ pc' \in [Processes -> Steps]
           /\ entry' \in [Processes -> Entries]
           /\ outcome' \in [Processes -> Outcomes]
           /\ pc'[p] = "stage" => entry[p] = "first" /\ entry'[p] = "promote"
           /\ pc'[p] = "discard" => entry[p] = "remove"
           /\ entry'[p] # "first"
           /\ \A q \in Processes : q # p => pc'[q] = pc[q] /\ entry'[q] = entry[q]
<1>0. /\ {"stage", "enter", "unstage", "use", "discard", "ended"} \subseteq Steps
      /\ {"promote", "confirm", "cleanup", "unload", "after"} \subseteq Entries
      /\ {"none", "installed", "failed", "loaded", "removed"} \subseteq Outcomes
  BY DEF Steps, Outside, Entries, Outcomes
<1>1. CASE entry[p] = "first" /\ Continue(p, "stage", "promote", "none")
  BY <1>0, <1>1, ContinueStep
<1>2. CASE entry[p] = "promote" /\ Continue(p, "enter", "confirm", "none")
  BY <1>0, <1>2, ContinueStep
<1>3. CASE \E result \in {"failed", "installed"} : Continue(p, "unstage", "cleanup", result)
  BY <1>0, <1>3, ContinueStep
<1>4. CASE entry[p] = "load" /\ Continue(p, "use", "unload", "loaded")
  BY <1>0, <1>4, ContinueStep
<1>5. CASE entry[p] = "remove" /\ Continue(p, "discard", "after", "none")
  BY <1>0, <1>5, ContinueStep
<1>6. CASE entry[p] = "after" /\ Continue(p, "ended", "after", "removed")
  BY <1>0, <1>6, ContinueStep
<1>7. CASE entry[p] \in {"cleanup", "unload"} /\ Continue(p, "ended", entry[p], outcome[p])
  BY <1>0, <1>7, ContinueStep
<1> QED
  BY <1>1, <1>2, <1>3, <1>4, <1>5, <1>6, <1>7 DEF AfterSuccess

LEMMA ActiveContainers == \A package : Active(package) \subseteq Containers
  BY DEF Active

(* Which visit the operation and its rollback belong to. *)
LEMMA OperationStep ==
    ASSUME NEW p \in Processes, entry[p] \in Entries
    PROVE  /\ Operation(p) \in {"conflict", "load", "find", "release"}
           /\ Operation(p) = "conflict" => entry[p] = "promote"
           /\ Operation(p) = "load" => entry[p] = "load"
           /\ Operation(p) = "find" => entry[p] = "remove"
           /\ Operation(p) = "release" => entry[p] # "remove"
<1>1. CASE entry[p] = "promote"
  BY <1>1, Zenon DEF Operation
<1>2. CASE entry[p] = "load"
  BY <1>2, Zenon DEF Operation
<1>3. CASE entry[p] = "remove"
  BY <1>3, Zenon DEF Operation
<1>4. CASE entry[p] \notin {"promote", "load", "remove"}
  BY <1>4, Zenon DEF Operation
<1> QED
  BY <1>1, <1>2, <1>3, <1>4

LEMMA RollBackStep ==
    ASSUME NEW p \in Processes, entry[p] \in Entries
    PROVE  /\ RollBack(p) \in {"take back", "unload", "bring back", "fail"}
           /\ RollBack(p) = "take back" => entry[p] = "promote"
           /\ RollBack(p) = "unload" => entry[p] = "load"
           /\ RollBack(p) = "bring back" => entry[p] = "remove"
<1>1. CASE entry[p] = "promote"
  BY <1>1, Zenon DEF RollBack
<1>2. CASE entry[p] = "load"
  BY <1>2, Zenon DEF RollBack
<1>3. CASE entry[p] = "remove"
  BY <1>3, Zenon DEF RollBack
<1>4. CASE entry[p] \notin {"promote", "load", "remove"}
  BY <1>4, Zenon DEF RollBack
<1> QED
  BY <1>1, <1>2, <1>3, <1>4

(* A step of p arrives well and leaves the others apart, action by action.  *)
LEMMA Effect ==
    ASSUME Registry, NEW p \in Processes,
           \/ Enter(p) \/ Release(p) \/ Fail(p)
           \/ Recovers(p) \/ Installs(p) \/ Loads(p) \/ Removes(p)
           \/ Crash(p)
    PROVE  Typed' /\ Apart(p) /\ Arrives(p)
<1>0. /\ command \in [Processes -> Commands]
      /\ pc \in [Processes -> Steps]
      /\ entry \in [Processes -> Entries]
      /\ status \in [Processes -> Statuses]
      /\ aside \in [Processes -> Containers \union {None}]
      /\ outcome \in [Processes -> Outcomes]
      /\ holder \in Processes \union {None}
      /\ journal \in Journals \union {None}
      /\ place \in [Containers -> Places]
      /\ debris \subseteq Containers
      /\ graph \in [Containers -> Graphs]
      /\ leases \subseteq Processes \X Containers
      /\ confirmed \subseteq Processes
      /\ faults \in 0..MaxFaults
  BY TypedIsTypeOK DEF Registry, Typed
<1>a. p \in Containers /\ None \notin Containers /\ Processes \subseteq Containers
  BY PluginsAssumption DEF Containers
<1>b. /\ pc[p] \in Inside => holder = p
      /\ pc[p] \in OfPromotion => entry[p] = "promote"
      /\ pc[p] = "load" => entry[p] = "load"
      /\ pc[p] = "unload" => entry[p] \in {"load", "unload"}
      /\ pc[p] \in {"find", "move away", "bring back"} => entry[p] = "remove"
      /\ entry[p] = "first" \/ pc[p] = "stage" => graph[p] = "nowhere"
      /\ pc[p] \in OnJournal => journal # None
      /\ pc[p] \in OnAside \/ (pc[p] = "release" /\ entry[p] = "remove") => aside[p] # None
      /\ \A lease \in leases : Alive(lease[1]) => graph[lease[2]] = "root"
  BY DEF Registry, Exclusive, Visits, Fresh, Journaled, SetAside, LeasedGraphsStay
<1>c. /\ command[p].package \in Packages
      /\ journal # None => journal.backup \in Containers \union {None}
      /\ \A lease \in leases : lease[1] \in Processes /\ lease[2] \in Containers
  BY <1>0 DEF Commands, Journals
<1>1. CASE Enter(p)
  <2>1. UNCHANGED <<command, status, aside, journal, place, debris, graph, leases, confirmed>>
    BY <1>1 DEF Enter, files
  <2>2. /\ pc[p] = "enter"
        /\ \A q \in Processes : q # p => pc'[q] = pc[q]
        /\ pc' \in [Processes -> Steps]
    BY <1>0, <1>1, GotoStep, FailureStep
       DEF Steps, Inside, Recovering, Operating, Releasing, Outside, Enter, Locked, files
  <2>3. /\ entry' \in [Processes -> Entries]
        /\ outcome' \in [Processes -> Outcomes]
        /\ holder' \in Processes \union {None}
        /\ faults' \in 0..MaxFaults
    BY <1>0, <1>a, <1>c, <1>1, FaultStep, FailureStep DEF Enter, Locked, files
  <2>4. /\ \A q \in Processes : q # p => entry'[q] = entry[q]
        /\ pc'[p] \in {"unload", "recover", "ended", "unstage"}
        /\ pc'[p] = "unload" => entry'[p] = "unload"
        /\ pc'[p] \in {"unload", "recover"} => holder' = p
        /\ entry'[p] = "first" => entry[p] = "first"
        /\ holder' = holder \/ ~ Locked
    BY <1>0, <1>a, <1>b, <1>c, <1>1, <2>1, <2>2, FailureStep
       DEF Enter, Locked, files, Goto, Alive, OnJournal
  <2> QED
    BY <1>0, <1>a, <1>b, <2>1, <2>2, <2>3, <2>4
       DEF Typed, Apart, Arrives, Alive, Inside, Recovering, Operating, Releasing, OfPromotion,
           OnJournal, OnAside
<1>2. CASE RecoverClientPluginPromotion(p)
  <2>1. UNCHANGED <<command, entry, aside, outcome, holder, journal, place, debris, graph,
                    leases, confirmed, faults>>
    BY <1>2 DEF RecoverClientPluginPromotion, files
  <2>2. /\ pc[p] = "recover"
        /\ \A q \in Processes : q # p => pc'[q] = pc[q]
        /\ pc'[p] \in {"sweep", "judge", "check restored", "put back", "clear", "fail"}
        /\ pc' \in [Processes -> Steps]
    BY <1>0, <1>2, GotoStep
       DEF Steps, Inside, Recovering, Operating, Releasing, Outside,
           RecoverClientPluginPromotion, files
  <2>3. status' \in [Processes -> Statuses]
    BY <1>0, <1>a, <1>c, <1>2 DEF RecoverClientPluginPromotion, files, Statuses
  <2>4. pc'[p] \in OnJournal => journal # None
    BY <1>0, <1>a, <1>b, <1>c, <1>2, <2>1, <2>2
       DEF RecoverClientPluginPromotion, files, Goto, Alive, OnJournal
  <2> QED
    BY <1>0, <1>a, <1>b, <2>1, <2>2, <2>3, <2>4
       DEF Typed, Apart, Arrives, Alive, Inside, Recovering, Operating, Releasing, OfPromotion,
           OnJournal, OnAside
<1>3. CASE RecoveryFails(p)
  <2>1. UNCHANGED <<command, entry, status, aside, outcome, holder, journal, place, debris,
                    graph, leases, confirmed>>
    BY <1>3 DEF RecoveryFails, files
  <2>2. /\ pc[p] = "recover"
        /\ \A q \in Processes : q # p => pc'[q] = pc[q]
        /\ pc'[p] \in {"fail"}
        /\ pc' \in [Processes -> Steps]
    BY <1>0, <1>3, GotoStep
       DEF Steps, Inside, Recovering, Operating, Releasing, Outside, RecoveryFails, files
  <2>3. faults' \in 0..MaxFaults
    BY <1>0, <1>a, <1>c, <1>3, FaultStep DEF RecoveryFails, files
  <2> QED
    BY <1>0, <1>a, <1>b, <2>1, <2>2, <2>3
       DEF Typed, Apart, Arrives, Alive, Inside, Recovering, Operating, Releasing, OfPromotion,
           OnJournal, OnAside
<1>4. CASE Judge(p)
  <2>1. UNCHANGED <<command, entry, aside, outcome, holder, journal, place, debris, graph,
                    leases, confirmed>>
    BY <1>4 DEF Judge, files
  <2>2. /\ pc[p] = "judge"
        /\ \A q \in Processes : q # p => pc'[q] = pc[q]
        /\ pc'[p] \in {"clear", "remove target"}
        /\ pc' \in [Processes -> Steps]
    BY <1>0, <1>4, GotoStep
       DEF Steps, Inside, Recovering, Operating, Releasing, Outside, Judge, files
  <2>3. /\ status' \in [Processes -> Statuses]
        /\ faults' \in 0..MaxFaults
    BY <1>0, <1>a, <1>c, <1>4, FaultStep DEF Judge, files, Statuses
  <2> QED
    BY <1>0, <1>a, <1>b, <2>1, <2>2, <2>3
       DEF Typed, Apart, Arrives, Alive, Inside, Recovering, Operating, Releasing, OfPromotion,
           OnJournal, OnAside
<1>5. CASE RemoveTarget(p)
  <2>1. UNCHANGED <<command, entry, aside, outcome, holder, journal, graph, leases, confirmed>>
    BY <1>5 DEF RemoveTarget
  <2>2. /\ pc[p] = "remove target"
        /\ \A q \in Processes : q # p => pc'[q] = pc[q]
        /\ pc'[p] \in {"remove target", "clear", "put back", "fail"}
        /\ pc' \in [Processes -> Steps]
    BY <1>0, <1>5, GotoStep
       DEF Steps, Inside, Recovering, Operating, Releasing, Outside, RemoveTarget, Deletes,
           Active
  <2>3. /\ status' \in [Processes -> Statuses]
        /\ place' \in [Containers -> Places]
        /\ debris' \subseteq Containers
        /\ faults' \in 0..MaxFaults
    BY <1>0, <1>a, <1>c, <1>5, FaultStep, MovesStep
       DEF RemoveTarget, Deletes, Active, Places, Statuses
  <2> QED
    BY <1>0, <1>a, <1>b, <2>1, <2>2, <2>3
       DEF Typed, Apart, Arrives, Alive, Inside, Recovering, Operating, Releasing, OfPromotion,
           OnJournal, OnAside
<1>6. CASE PutBack(p)
  <2>1. UNCHANGED <<command, entry, status, aside, outcome, holder, journal, debris, graph,
                    leases, confirmed>>
    BY <1>6 DEF PutBack
  <2>2. /\ pc[p] = "put back"
        /\ \A q \in Processes : q # p => pc'[q] = pc[q]
        /\ pc'[p] \in {"check restored", "fail"}
        /\ pc' \in [Processes -> Steps]
    BY <1>0, <1>6, GotoStep
       DEF Steps, Inside, Recovering, Operating, Releasing, Outside, PutBack, Renames
  <2>3. /\ place' \in [Containers -> Places]
        /\ faults' \in 0..MaxFaults
    BY <1>0, <1>a, <1>c, <1>6, FaultStep, MovesStep DEF PutBack, Renames, Places
  <2> QED
    BY <1>0, <1>a, <1>b, <2>1, <2>2, <2>3
       DEF Typed, Apart, Arrives, Alive, Inside, Recovering, Operating, Releasing, OfPromotion,
           OnJournal, OnAside
<1>7. CASE CheckRestored(p)
  <2>1. UNCHANGED <<command, entry, aside, outcome, holder, journal, place, debris, graph,
                    leases, confirmed>>
    BY <1>7 DEF CheckRestored, files
  <2>2. /\ pc[p] = "check restored"
        /\ \A q \in Processes : q # p => pc'[q] = pc[q]
        /\ pc'[p] \in {"clear", "fail"}
        /\ pc' \in [Processes -> Steps]
    BY <1>0, <1>7, GotoStep
       DEF Steps, Inside, Recovering, Operating, Releasing, Outside, CheckRestored, files
  <2>3. /\ status' \in [Processes -> Statuses]
        /\ faults' \in 0..MaxFaults
    BY <1>0, <1>a, <1>c, <1>7, FaultStep DEF CheckRestored, files, Statuses
  <2> QED
    BY <1>0, <1>a, <1>b, <2>1, <2>2, <2>3
       DEF Typed, Apart, Arrives, Alive, Inside, Recovering, Operating, Releasing, OfPromotion,
           OnJournal, OnAside
<1>8. CASE Clear(p)
  <2>1. UNCHANGED <<command, entry, status, outcome, holder, place, debris, graph, leases>>
    BY <1>8 DEF Clear
  <2>2. /\ pc[p] = "clear"
        /\ \A q \in Processes : q # p => pc'[q] = pc[q]
        /\ pc'[p] \in {"drop backup", "sweep", "fail"}
        /\ pc' \in [Processes -> Steps]
    BY <1>0, <1>8, GotoStep
       DEF Steps, Inside, Recovering, Operating, Releasing, Outside, Clear, Clears
  <2>3. /\ aside' \in [Processes -> Containers \union {None}]
        /\ journal' \in Journals \union {None}
        /\ confirmed' \subseteq Processes
        /\ faults' \in 0..MaxFaults
    BY <1>0, <1>a, <1>c, <1>8, FaultStep, <1>b DEF Clear, Clears, OnJournal
  <2>4. \A q \in Processes : q # p => aside'[q] = aside[q]
    BY <1>0, <1>a, <1>b, <1>c, <1>8, <2>1, <2>2 DEF Clear, Clears, Goto, Alive, OnJournal
  <2>5. pc'[p] = "drop backup" => aside'[p] # None
    BY <1>0, <1>a, <1>b, <1>c, <1>8, <2>1, <2>2 DEF Clear, Clears, Goto, Alive, OnJournal
  <2> QED
    BY <1>0, <1>a, <1>b, <2>1, <2>2, <2>3, <2>4, <2>5
       DEF Typed, Apart, Arrives, Alive, Inside, Recovering, Operating, Releasing, OfPromotion,
           OnJournal, OnAside
<1>9. CASE DropBackup(p)
  <2>1. UNCHANGED <<command, entry, status, aside, outcome, holder, journal, graph, leases,
                    confirmed>>
    BY <1>9 DEF DropBackup
  <2>2. /\ pc[p] = "drop backup"
        /\ \A q \in Processes : q # p => pc'[q] = pc[q]
        /\ pc'[p] \in {"drop backup", "sweep"}
        /\ pc' \in [Processes -> Steps]
    BY <1>0, <1>9, GotoStep
       DEF Steps, Inside, Recovering, Operating, Releasing, Outside, DropBackup, Deletes
  <2>3. /\ place' \in [Containers -> Places]
        /\ debris' \subseteq Containers
        /\ faults' \in 0..MaxFaults
    BY <1>0, <1>a, <1>c, <1>9, FaultStep, MovesStep, <1>b DEF DropBackup, Deletes, OnAside, Places
  <2> QED
    BY <1>0, <1>a, <1>b, <2>1, <2>2, <2>3
       DEF Typed, Apart, Arrives, Alive, Inside, Recovering, Operating, Releasing, OfPromotion,
           OnJournal, OnAside
<1>10. CASE SweepUnreferencedModuleGraphs(p)
  <2>1. UNCHANGED <<command, entry, status, aside, outcome, holder, journal, place, debris,
                    confirmed>>
    BY <1>10 DEF SweepUnreferencedModuleGraphs
  <2>2. /\ pc[p] = "sweep"
        /\ \A q \in Processes : q # p => pc'[q] = pc[q]
        /\ pc'[p] \in {"conflict", "load", "find", "release", "fail"}
        /\ pc' \in [Processes -> Steps]
    <3>1. \E step \in {Operation(p), "fail"} : Goto(p, step)
      BY <1>10 DEF SweepUnreferencedModuleGraphs
    <3>2. {"conflict", "load", "find", "release", "fail"} \subseteq Steps
      BY DEF Steps, Inside, Operating, Releasing
    <3>3. Operation(p) \in {"conflict", "load", "find", "release"}
      BY <1>0, OperationStep
    <3>4. pc[p] = "sweep"
      BY <1>10 DEF SweepUnreferencedModuleGraphs
    <3> QED
      BY <1>0, <3>1, <3>2, <3>3, <3>4, GotoStep
  <2>3. graph' \in [Containers -> Graphs]
    BY <1>0, <1>a, <1>c, <1>10, OperationStep
       DEF SweepUnreferencedModuleGraphs, LiveLeases, Needless, Graphs
  <2>4. leases' \subseteq Processes \X Containers
    BY <1>0, <1>a, <1>c, <1>10, OperationStep
       DEF SweepUnreferencedModuleGraphs, LiveLeases, Needless
  <2>5. faults' \in 0..MaxFaults
    BY <1>0, <1>a, <1>c, <1>10, FaultStep, OperationStep
       DEF SweepUnreferencedModuleGraphs, LiveLeases, Needless
  <2>6. \A q \in Processes : q # p => graph'[q] \in {graph[q], "nowhere"}
    BY <1>0, <1>a, <1>b, <1>c, <1>10, <2>1, <2>2, OperationStep
       DEF SweepUnreferencedModuleGraphs, LiveLeases, Needless, Goto, Alive, OnJournal
  <2>7. entry[p] = "first" => graph'[p] = "nowhere"
    BY <1>0, <1>a, <1>b, <1>c, <1>10, <2>1, <2>2, OperationStep
       DEF SweepUnreferencedModuleGraphs, LiveLeases, Needless, Goto, Alive, OnJournal
  <2>8. leases' \subseteq leases
    BY <1>0, <1>a, <1>b, <1>c, <1>10, <2>1, <2>2, OperationStep
       DEF SweepUnreferencedModuleGraphs, LiveLeases, Needless, Goto, Alive, OnJournal
  <2>9. \A lease \in leases : Alive(lease[1]) => graph'[lease[2]] = "root"
    BY <1>0, <1>a, <1>b, <1>c, <1>10, <2>1, <2>2, OperationStep
       DEF SweepUnreferencedModuleGraphs, LiveLeases, Needless, Goto, Alive, OnJournal
  <2>10. /\ pc'[p] = "conflict" => entry[p] = "promote"
         /\ pc'[p] = "load" => entry[p] = "load"
         /\ pc'[p] = "find" => entry[p] = "remove"
         /\ pc'[p] = "release" => entry[p] # "remove"
    <3>1. pc'[p] \in {Operation(p), "fail"}
      BY <1>0, <1>10 DEF SweepUnreferencedModuleGraphs, Goto
    <3> QED
      BY <1>0, <3>1, OperationStep
  <2>11. Typed'
    BY <1>0, <1>a, <1>b, <2>1, <2>2, <2>3, <2>4, <2>5, <2>6, <2>7, <2>8, <2>9, <2>10 DEF Typed
  <2>12. Apart(p)
    BY <1>0, <1>a, <1>b, <2>1, <2>2, <2>3, <2>4, <2>5, <2>6, <2>7, <2>8, <2>9, <2>10
       DEF Apart, Alive, Inside, Recovering, Operating, Releasing, OfPromotion, OnJournal,
           OnAside
  <2>13. Arrives(p)
    <3>1. holder' = p
      BY <1>b, <2>1, <2>2 DEF Inside, Recovering
    <3>2. entry'[p] = "first" => graph'[p] = "nowhere"
      BY <2>1, <2>7
    <3>3. /\ pc'[p] \notin OnJournal
          /\ pc'[p] \notin OnAside
          /\ pc'[p] # "stage"
          /\ pc'[p] # "unload"
      BY <2>2 DEF OnJournal, OnAside
    <3>4. pc'[p] \in OfPromotion => pc'[p] = "conflict"
      BY <2>2 DEF OfPromotion
    <3>5. pc'[p] \in {"find", "move away", "bring back"} => pc'[p] = "find"
      BY <2>2
    <3>6. /\ pc'[p] = "conflict" => entry'[p] = "promote"
          /\ pc'[p] = "load" => entry'[p] = "load"
          /\ pc'[p] = "find" => entry'[p] = "remove"
          /\ pc'[p] = "release" => entry'[p] # "remove"
      BY <2>1, <2>10
    <3> QED
      BY <3>1, <3>2, <3>3, <3>4, <3>5, <3>6 DEF Arrives
  <2> QED
    BY <2>11, <2>12, <2>13
<1>11. CASE Release(p)
  <2>1. /\ UNCHANGED <<command, journal, place, debris, graph, leases, confirmed>>
        /\ pc[p] = "release"
    BY <1>11 DEF Release, files
  <2>2. holder = p
    BY <1>b, <2>1 DEF Inside, Releasing
  <2>3. ASSUME holder' = None, AfterSuccess(p), UNCHANGED faults,
               IF entry[p] = "remove" THEN UNCHANGED <<status, aside>> ELSE Forgets(p)
        PROVE  Typed' /\ Apart(p) /\ Arrives(p)
    <3>1. /\ pc'[p] \in {"stage", "enter", "unstage", "use", "discard", "ended"}
          /\ pc' \in [Processes -> Steps]
          /\ entry' \in [Processes -> Entries]
          /\ outcome' \in [Processes -> Outcomes]
          /\ pc'[p] = "stage" => entry[p] = "first" /\ entry'[p] = "promote"
          /\ pc'[p] = "discard" => entry[p] = "remove"
          /\ entry'[p] # "first"
          /\ \A q \in Processes : q # p => pc'[q] = pc[q] /\ entry'[q] = entry[q]
      BY <1>0, <2>3, SuccessStep
    <3>2. /\ status' \in [Processes -> Statuses]
          /\ aside' \in [Processes -> Containers \union {None}]
          /\ \A q \in Processes : q # p => aside'[q] = aside[q]
          /\ entry[p] = "remove" => aside'[p] = aside[p]
      BY <1>0, <2>3 DEF Forgets, Statuses
    <3>3. Typed'
      BY <1>0, <2>1, <2>3, <3>1, <3>2 DEF Typed
    <3>4. Apart(p)
      BY <1>0, <1>a, <1>b, <2>1, <2>2, <3>1, <3>2 DEF Apart, Alive, Inside, Releasing
    <3>5. Arrives(p)
      BY <1>a, <1>b, <2>1, <3>1, <3>2
         DEF Arrives, Inside, Recovering, Operating, Releasing, OfPromotion, OnJournal, OnAside
    <3> QED
      BY <3>3, <3>4, <3>5
  <2>4. ASSUME Fault, Goto(p, RollBack(p)), UNCHANGED <<holder, entry, outcome, status, aside>>
        PROVE  Typed' /\ Apart(p) /\ Arrives(p)
    <3>1. /\ RollBack(p) \in {"take back", "unload", "bring back", "fail"}
          /\ {"take back", "unload", "bring back", "fail"} \subseteq Steps
      BY <1>0, RollBackStep DEF Steps, Inside, Operating, Releasing
    <3>2. /\ pc'[p] = RollBack(p)
          /\ pc' \in [Processes -> Steps]
          /\ \A q \in Processes : q # p => pc'[q] = pc[q]
      BY <1>0, <2>4, <3>1, GotoStep
    <3>3. Typed'
      BY <1>0, <2>1, <2>4, <3>2, FaultStep DEF Typed
    <3>4. Apart(p)
      BY <1>0, <1>a, <1>b, <2>1, <2>4, <3>2 DEF Apart, Alive
    <3>5. Arrives(p)
      BY <1>0, <1>a, <1>b, <2>1, <2>2, <2>4, <3>1, <3>2, RollBackStep
         DEF Arrives, Inside, Recovering, Operating, Releasing, OfPromotion, OnJournal, OnAside
    <3> QED
      BY <3>3, <3>4, <3>5
  <2> QED
    BY <1>11, <2>3, <2>4 DEF Release
<1>12. CASE Fail(p)
  <2>1. UNCHANGED <<command, journal, place, debris, graph, leases, confirmed>>
    BY <1>12 DEF Fail, files
  <2>2. /\ pc[p] = "fail"
        /\ \A q \in Processes : q # p => pc'[q] = pc[q]
        /\ pc'[p] \in {"ended", "unstage"}
        /\ pc' \in [Processes -> Steps]
    BY <1>0, <1>12, GotoStep, FailureStep
       DEF Steps, Inside, Recovering, Operating, Releasing, Outside, Fail, Forgets, files
  <2>3. /\ entry' \in [Processes -> Entries]
        /\ status' \in [Processes -> Statuses]
        /\ aside' \in [Processes -> Containers \union {None}]
        /\ outcome' \in [Processes -> Outcomes]
        /\ holder' \in Processes \union {None}
        /\ faults' \in 0..MaxFaults
    BY <1>0, <1>a, <1>c, <1>12, FaultStep, FailureStep DEF Fail, Forgets, files, Statuses
  <2>4. /\ \A q \in Processes : q # p => entry'[q] = entry[q] /\ aside'[q] = aside[q]
        /\ pc'[p] \in {"ended", "unstage"}
        /\ entry'[p] = "first" => entry[p] = "first"
    BY <1>0, <1>a, <1>b, <1>c, <1>12, <2>1, <2>2, FailureStep
       DEF Fail, Forgets, files, Goto, Alive, OnJournal
  <2> QED
    BY <1>0, <1>a, <1>b, <2>1, <2>2, <2>3, <2>4
       DEF Typed, Apart, Arrives, Alive, Inside, Recovering, Operating, Releasing, OfPromotion,
           OnJournal, OnAside
<1>13. CASE Stage(p)
  <2>1. UNCHANGED <<command, status, aside, holder, journal, debris, leases, confirmed, faults>>
    BY <1>13 DEF Stage
  <2>2. /\ pc[p] = "stage"
        /\ \A q \in Processes : q # p => pc'[q] = pc[q]
        /\ pc'[p] \in {"enter", "unstage"}
        /\ pc' \in [Processes -> Steps]
    BY <1>0, <1>13, GotoStep
       DEF Steps, Inside, Recovering, Operating, Releasing, Outside, Stage, Continue, Goto
  <2>3. /\ entry' \in [Processes -> Entries]
        /\ outcome' \in [Processes -> Outcomes]
        /\ place' \in [Containers -> Places]
        /\ graph' \in [Containers -> Graphs]
    BY <1>0, <1>a, <1>c, <1>13, MovesStep
       DEF Stage, Continue, Goto, Entries, Outcomes, Places, Graphs
  <2>4. /\ \A q \in Processes : q # p => entry'[q] = entry[q] /\ graph'[q] = graph[q]
        /\ entry'[p] # "first"
    BY <1>0, <1>a, <1>b, <1>c, <1>13, <2>1, <2>2 DEF Stage, Continue, Goto, Alive, OfPromotion
  <2>5. \A lease \in leases : Alive(lease[1]) => graph'[lease[2]] = "root"
    BY <1>0, <1>a, <1>b, <1>c, <1>13, <2>1, <2>2 DEF Stage, Continue, Goto, Alive, OfPromotion
  <2> QED
    BY <1>0, <1>a, <1>b, <2>1, <2>2, <2>3, <2>4, <2>5
       DEF Typed, Apart, Arrives, Alive, Inside, Recovering, Operating, Releasing, OfPromotion,
           OnJournal, OnAside
<1>14. CASE Unstage(p)
  <2>1. UNCHANGED <<command, entry, status, aside, outcome, holder, journal, debris, leases,
                    confirmed>>
    BY <1>14 DEF Unstage
  <2>2. /\ pc[p] = "unstage"
        /\ \A q \in Processes : q # p => pc'[q] = pc[q]
        /\ pc'[p] \in {"enter", "ended"}
        /\ pc' \in [Processes -> Steps]
    BY <1>0, <1>14, GotoStep DEF Steps, Inside, Recovering, Operating, Releasing, Outside, Unstage
  <2>3. /\ place' \in [Containers -> Places]
        /\ graph' \in [Containers -> Graphs]
        /\ faults' \in 0..MaxFaults
    BY <1>0, <1>a, <1>c, <1>14, FaultStep, MovesStep DEF Unstage, Places, Graphs
  <2>4. /\ \A q \in Processes : q # p => graph'[q] = graph[q]
        /\ graph[p] = "nowhere" => graph'[p] = "nowhere"
    BY <1>0, <1>a, <1>b, <1>c, <1>14, <2>1, <2>2 DEF Unstage, Goto, Alive, OnJournal
  <2>5. \A lease \in leases : Alive(lease[1]) => graph'[lease[2]] = "root"
    BY <1>0, <1>a, <1>b, <1>c, <1>14, <2>1, <2>2 DEF Unstage, Goto, Alive, OnJournal
  <2> QED
    BY <1>0, <1>a, <1>b, <2>1, <2>2, <2>3, <2>4, <2>5
       DEF Typed, Apart, Arrives, Alive, Inside, Recovering, Operating, Releasing, OfPromotion,
           OnJournal, OnAside
<1>15. CASE AssertNoConflict(p)
  <2>1. UNCHANGED <<command, entry, status, aside, outcome, holder, journal, place, debris,
                    graph, leases, confirmed, faults>>
    BY <1>15 DEF AssertNoConflict, Promoting
  <2>2. /\ pc[p] = "conflict"
        /\ \A q \in Processes : q # p => pc'[q] = pc[q]
        /\ pc'[p] \in {"move graph", "fail"}
        /\ pc' \in [Processes -> Steps]
    BY <1>0, <1>15, GotoStep
       DEF Steps, Inside, Recovering, Operating, Releasing, Outside, AssertNoConflict, Promoting
  <2> QED
    BY <1>0, <1>a, <1>b, <2>1, <2>2
       DEF Typed, Apart, Arrives, Alive, Inside, Recovering, Operating, Releasing, OfPromotion,
           OnJournal, OnAside
<1>16. CASE MoveGraph(p)
  <2>1. UNCHANGED <<command, entry, status, aside, outcome, holder, journal, place, debris,
                    leases, confirmed>>
    BY <1>16 DEF MoveGraph, Promoting
  <2>2. /\ pc[p] = "move graph"
        /\ \A q \in Processes : q # p => pc'[q] = pc[q]
        /\ pc'[p] \in {"point", "fail"}
        /\ pc' \in [Processes -> Steps]
    BY <1>0, <1>16, GotoStep
       DEF Steps, Inside, Recovering, Operating, Releasing, Outside, MoveGraph, Promoting
  <2>3. /\ graph' \in [Containers -> Graphs]
        /\ faults' \in 0..MaxFaults
    BY <1>0, <1>a, <1>c, <1>16, FaultStep DEF MoveGraph, Promoting, Graphs
  <2>4. \A q \in Processes : q # p => graph'[q] = graph[q]
    BY <1>0, <1>a, <1>b, <1>c, <1>16, <2>1, <2>2 DEF MoveGraph, Promoting, Goto, Alive, OnJournal
  <2>5. \A lease \in leases : Alive(lease[1]) => graph'[lease[2]] = "root"
    BY <1>0, <1>a, <1>b, <1>c, <1>16, <2>1, <2>2 DEF MoveGraph, Promoting, Goto, Alive, OnJournal
  <2> QED
    BY <1>0, <1>a, <1>b, <2>1, <2>2, <2>3, <2>4, <2>5
       DEF Typed, Apart, Arrives, Alive, Inside, Recovering, Operating, Releasing, OfPromotion,
           OnJournal, OnAside
<1>17. CASE WritePointer(p)
  <2>1. UNCHANGED <<command, entry, status, outcome, holder, journal, place, debris, graph,
                    leases, confirmed>>
    BY <1>17 DEF WritePointer, Promoting
  <2>2. /\ pc[p] = "point"
        /\ \A q \in Processes : q # p => pc'[q] = pc[q]
        /\ pc'[p] \in {"journal", "fail"}
        /\ pc' \in [Processes -> Steps]
    BY <1>0, <1>17, GotoStep
       DEF Steps, Inside, Recovering, Operating, Releasing, Outside, WritePointer, Promoting,
           Active
  <2>3. /\ aside' \in [Processes -> Containers \union {None}]
        /\ faults' \in 0..MaxFaults
    BY <1>0, <1>a, <1>c, <1>17, FaultStep DEF WritePointer, Promoting, Active
  <2>4. \A q \in Processes : q # p => aside'[q] = aside[q]
    BY <1>0, <1>a, <1>b, <1>c, <1>17, <2>1, <2>2
       DEF WritePointer, Promoting, Active, Goto, Alive, OnJournal
  <2> QED
    BY <1>0, <1>a, <1>b, <2>1, <2>2, <2>3, <2>4
       DEF Typed, Apart, Arrives, Alive, Inside, Recovering, Operating, Releasing, OfPromotion,
           OnJournal, OnAside
<1>18. CASE WriteJournal(p)
  <2>1. UNCHANGED <<command, entry, status, aside, outcome, holder, place, debris, graph,
                    leases, confirmed>>
    BY <1>18 DEF WriteJournal, Promoting
  <2>2. /\ pc[p] = "journal"
        /\ \A q \in Processes : q # p => pc'[q] = pc[q]
        /\ pc'[p] \in {"move new", "move old", "fail"}
        /\ pc' \in [Processes -> Steps]
    BY <1>0, <1>18, GotoStep
       DEF Steps, Inside, Recovering, Operating, Releasing, Outside, WriteJournal, Promoting,
           Journals
  <2>3. journal' \in Journals \union {None}
    <3>1. [package |-> command[p].package, backup |-> aside[p]] \in Journals
      BY <1>0, <1>c DEF Journals
    <3> QED
      BY <1>0, <1>18, <3>1 DEF WriteJournal
  <2>4. faults' \in 0..MaxFaults
    BY <1>0, <1>a, <1>c, <1>18, FaultStep DEF WriteJournal, Promoting, Journals
  <2>5. pc'[p] = "move old" => aside[p] # None
    BY <1>0, <1>a, <1>b, <1>c, <1>18, <2>1, <2>2
       DEF WriteJournal, Promoting, Journals, Goto, Alive, OnJournal
  <2> QED
    BY <1>0, <1>a, <1>b, <2>1, <2>2, <2>3, <2>4, <2>5
       DEF Typed, Apart, Arrives, Alive, Inside, Recovering, Operating, Releasing, OfPromotion,
           OnJournal, OnAside
<1>19. CASE MoveOld(p)
  <2>1. UNCHANGED <<command, entry, status, aside, outcome, holder, journal, debris, graph,
                    leases, confirmed>>
    BY <1>19 DEF MoveOld, Promoting
  <2>2. /\ pc[p] = "move old"
        /\ \A q \in Processes : q # p => pc'[q] = pc[q]
        /\ pc'[p] \in {"move new", "unjournal", "give back"}
        /\ pc' \in [Processes -> Steps]
    BY <1>0, <1>19, GotoStep
       DEF Steps, Inside, Recovering, Operating, Releasing, Outside, MoveOld, Promoting, Renames
  <2>3. /\ place' \in [Containers -> Places]
        /\ faults' \in 0..MaxFaults
    BY <1>0, <1>a, <1>c, <1>19, FaultStep, MovesStep DEF MoveOld, Promoting, Renames, Places
  <2> QED
    BY <1>0, <1>a, <1>b, <2>1, <2>2, <2>3
       DEF Typed, Apart, Arrives, Alive, Inside, Recovering, Operating, Releasing, OfPromotion,
           OnJournal, OnAside
<1>20. CASE MoveNew(p)
  <2>1. UNCHANGED <<command, entry, status, aside, outcome, holder, journal, debris, graph,
                    leases, confirmed>>
    BY <1>20 DEF MoveNew, Promoting
  <2>2. /\ pc[p] = "move new"
        /\ \A q \in Processes : q # p => pc'[q] = pc[q]
        /\ pc'[p] \in {"accept", "take back", "give back", "unjournal"}
        /\ pc' \in [Processes -> Steps]
    BY <1>0, <1>20, GotoStep
       DEF Steps, Inside, Recovering, Operating, Releasing, Outside, MoveNew, Promoting,
           Renames, GiveBackIfMoved
  <2>3. /\ place' \in [Containers -> Places]
        /\ faults' \in 0..MaxFaults
    BY <1>0, <1>a, <1>c, <1>20, FaultStep, MovesStep
       DEF MoveNew, Promoting, Renames, GiveBackIfMoved, Places
  <2>4. pc'[p] = "give back" => aside[p] # None
    BY <1>0, <1>a, <1>b, <1>c, <1>20, <2>1, <2>2
       DEF MoveNew, Promoting, Renames, GiveBackIfMoved, Goto, Alive, OnJournal
  <2> QED
    BY <1>0, <1>a, <1>b, <2>1, <2>2, <2>3, <2>4
       DEF Typed, Apart, Arrives, Alive, Inside, Recovering, Operating, Releasing, OfPromotion,
           OnJournal, OnAside
<1>21. CASE Accept(p)
  <2>1. UNCHANGED <<command, entry, status, aside, outcome, holder, journal, place, debris,
                    graph, leases, confirmed, faults>>
    BY <1>21 DEF Accept, Promoting
  <2>2. /\ pc[p] = "accept"
        /\ \A q \in Processes : q # p => pc'[q] = pc[q]
        /\ pc'[p] \in {"release", "take back"}
        /\ pc' \in [Processes -> Steps]
    BY <1>0, <1>21, GotoStep
       DEF Steps, Inside, Recovering, Operating, Releasing, Outside, Accept, Promoting
  <2> QED
    BY <1>0, <1>a, <1>b, <2>1, <2>2
       DEF Typed, Apart, Arrives, Alive, Inside, Recovering, Operating, Releasing, OfPromotion,
           OnJournal, OnAside
<1>22. CASE TakeBack(p)
  <2>1. UNCHANGED <<command, entry, status, aside, outcome, holder, journal, debris, graph,
                    leases, confirmed>>
    BY <1>22 DEF TakeBack, Promoting
  <2>2. /\ pc[p] = "take back"
        /\ \A q \in Processes : q # p => pc'[q] = pc[q]
        /\ pc'[p] \in {"give back", "unjournal", "fail"}
        /\ pc' \in [Processes -> Steps]
    BY <1>0, <1>22, GotoStep
       DEF Steps, Inside, Recovering, Operating, Releasing, Outside, TakeBack, Promoting,
           GiveBackIfMoved
  <2>3. /\ place' \in [Containers -> Places]
        /\ faults' \in 0..MaxFaults
    BY <1>0, <1>a, <1>c, <1>22, FaultStep, MovesStep
       DEF TakeBack, Promoting, GiveBackIfMoved, Places
  <2>4. pc'[p] = "give back" => aside[p] # None
    BY <1>0, <1>a, <1>b, <1>c, <1>22, <2>1, <2>2
       DEF TakeBack, Promoting, GiveBackIfMoved, Goto, Alive, OnJournal
  <2> QED
    BY <1>0, <1>a, <1>b, <2>1, <2>2, <2>3, <2>4
       DEF Typed, Apart, Arrives, Alive, Inside, Recovering, Operating, Releasing, OfPromotion,
           OnJournal, OnAside
<1>23. CASE GiveBack(p)
  <2>1. UNCHANGED <<command, entry, status, aside, outcome, holder, journal, debris, graph,
                    leases, confirmed>>
    BY <1>23 DEF GiveBack, Promoting
  <2>2. /\ pc[p] = "give back"
        /\ \A q \in Processes : q # p => pc'[q] = pc[q]
        /\ pc'[p] \in {"unjournal", "fail"}
        /\ pc' \in [Processes -> Steps]
    BY <1>0, <1>23, GotoStep
       DEF Steps, Inside, Recovering, Operating, Releasing, Outside, GiveBack, Promoting,
           Renames
  <2>3. /\ place' \in [Containers -> Places]
        /\ faults' \in 0..MaxFaults
    BY <1>0, <1>a, <1>c, <1>23, FaultStep, MovesStep DEF GiveBack, Promoting, Renames, Places
  <2> QED
    BY <1>0, <1>a, <1>b, <2>1, <2>2, <2>3
       DEF Typed, Apart, Arrives, Alive, Inside, Recovering, Operating, Releasing, OfPromotion,
           OnJournal, OnAside
<1>24. CASE Unjournal(p)
  <2>1. UNCHANGED <<command, entry, status, aside, outcome, holder, place, debris, graph,
                    leases, confirmed>>
    BY <1>24 DEF Unjournal, Promoting
  <2>2. /\ pc[p] = "unjournal"
        /\ \A q \in Processes : q # p => pc'[q] = pc[q]
        /\ pc'[p] \in {"fail"}
        /\ pc' \in [Processes -> Steps]
    BY <1>0, <1>24, GotoStep
       DEF Steps, Inside, Recovering, Operating, Releasing, Outside, Unjournal, Promoting
  <2>3. /\ journal' \in Journals \union {None}
        /\ faults' \in 0..MaxFaults
    BY <1>0, <1>a, <1>c, <1>24, FaultStep DEF Unjournal, Promoting
  <2> QED
    BY <1>0, <1>a, <1>b, <2>1, <2>2, <2>3
       DEF Typed, Apart, Arrives, Alive, Inside, Recovering, Operating, Releasing, OfPromotion,
           OnJournal, OnAside
<1>25. CASE Load(p)
  <2>1. UNCHANGED <<command, entry, status, aside, outcome, holder, journal, place, debris,
                    graph, confirmed>>
    BY <1>25 DEF Load
  <2>2. /\ pc[p] = "load"
        /\ \A q \in Processes : q # p => pc'[q] = pc[q]
        /\ pc'[p] \in {"release", "unload"}
        /\ pc' \in [Processes -> Steps]
    BY <1>0, <1>25, GotoStep
       DEF Steps, Inside, Recovering, Operating, Releasing, Outside, Load, Whole
  <2>3. /\ leases' \subseteq Processes \X Containers
        /\ faults' \in 0..MaxFaults
    BY <1>0, <1>a, <1>c, <1>25, FaultStep DEF Load, Whole
  <2>4. \A lease \in leases' : lease \in leases \/ graph[lease[2]] = "root"
    BY <1>0, <1>a, <1>b, <1>c, <1>25, <2>1, <2>2 DEF Load, Whole, Goto, Alive, OnJournal
  <2> QED
    BY <1>0, <1>a, <1>b, <2>1, <2>2, <2>3, <2>4
       DEF Typed, Apart, Arrives, Alive, Inside, Recovering, Operating, Releasing, OfPromotion,
           OnJournal, OnAside
<1>26. CASE Use(p)
  <2>1. UNCHANGED <<command, entry, status, aside, outcome, holder, journal, place, debris,
                    graph, leases, confirmed, faults>>
    BY <1>26 DEF Use, files
  <2>2. /\ pc[p] = "use"
        /\ \A q \in Processes : q # p => pc'[q] = pc[q]
        /\ pc'[p] \in {"enter"}
        /\ pc' \in [Processes -> Steps]
    BY <1>0, <1>26, GotoStep
       DEF Steps, Inside, Recovering, Operating, Releasing, Outside, Use, files
  <2> QED
    BY <1>0, <1>a, <1>b, <2>1, <2>2
       DEF Typed, Apart, Arrives, Alive, Inside, Recovering, Operating, Releasing, OfPromotion,
           OnJournal, OnAside
<1>27. CASE Unload(p)
  <2>1. UNCHANGED <<command, entry, status, aside, outcome, holder, journal, place, debris,
                    graph, confirmed>>
    BY <1>27 DEF Unload
  <2>2. /\ pc[p] = "unload"
        /\ \A q \in Processes : q # p => pc'[q] = pc[q]
        /\ pc'[p] \in {"release", "fail"}
        /\ pc' \in [Processes -> Steps]
    BY <1>0, <1>27, GotoStep
       DEF Steps, Inside, Recovering, Operating, Releasing, Outside, Unload, Own
  <2>3. /\ leases' \subseteq Processes \X Containers
        /\ faults' \in 0..MaxFaults
    BY <1>0, <1>a, <1>c, <1>27, FaultStep DEF Unload, Own
  <2>4. /\ leases' \subseteq leases
        /\ pc'[p] = "release" => entry[p] = "unload"
    BY <1>0, <1>a, <1>b, <1>c, <1>27, <2>1, <2>2 DEF Unload, Own, Goto, Alive, OnJournal
  <2> QED
    BY <1>0, <1>a, <1>b, <2>1, <2>2, <2>3, <2>4
       DEF Typed, Apart, Arrives, Alive, Inside, Recovering, Operating, Releasing, OfPromotion,
           OnJournal, OnAside
<1>28. CASE Find(p)
  <2>1. UNCHANGED <<command, entry, status, outcome, holder, journal, place, debris, graph,
                    leases, confirmed>>
    BY <1>28 DEF Find, Removing
  <2>2. /\ pc[p] = "find"
        /\ \A q \in Processes : q # p => pc'[q] = pc[q]
        /\ pc'[p] \in {"move away", "fail"}
        /\ pc' \in [Processes -> Steps]
    BY <1>0, <1>28, GotoStep
       DEF Steps, Inside, Recovering, Operating, Releasing, Outside, Find, Removing, Active
  <2>3. aside' \in [Processes -> Containers \union {None}]
    BY <1>0, <1>28, ActiveContainers DEF Find
  <2>4. faults' \in 0..MaxFaults
    BY <1>0, <1>a, <1>c, <1>28, FaultStep DEF Find, Removing, Active
  <2>5. /\ \A q \in Processes : q # p => aside'[q] = aside[q]
        /\ pc'[p] = "move away" => aside'[p] # None
    <3>1. CASE UNCHANGED aside /\ Goto(p, "fail")
      BY <1>0, <3>1 DEF Goto
    <3>2. CASE \E c \in Active(command[p].package) : aside' = [aside EXCEPT ![p] = c]
      <4>1. PICK c \in Containers : aside' = [aside EXCEPT ![p] = c]
        BY <3>2, ActiveContainers
      <4> QED
        BY <1>0, <1>a, <4>1
    <3> QED
      BY <1>28, <3>1, <3>2 DEF Find
  <2> QED
    BY <1>0, <1>a, <1>b, <2>1, <2>2, <2>3, <2>4, <2>5
       DEF Typed, Apart, Arrives, Alive, Inside, Recovering, Operating, Releasing, OfPromotion,
           OnJournal, OnAside
<1>29. CASE MoveAway(p)
  <2>1. UNCHANGED <<command, entry, status, aside, outcome, holder, journal, debris, graph,
                    leases, confirmed>>
    BY <1>29 DEF MoveAway, Removing
  <2>2. /\ pc[p] = "move away"
        /\ \A q \in Processes : q # p => pc'[q] = pc[q]
        /\ pc'[p] \in {"release", "fail", "bring back"}
        /\ pc' \in [Processes -> Steps]
    BY <1>0, <1>29, GotoStep
       DEF Steps, Inside, Recovering, Operating, Releasing, Outside, MoveAway, Removing, Renames
  <2>3. /\ place' \in [Containers -> Places]
        /\ faults' \in 0..MaxFaults
    BY <1>0, <1>a, <1>c, <1>29, FaultStep, MovesStep DEF MoveAway, Removing, Renames, Places
  <2> QED
    BY <1>0, <1>a, <1>b, <2>1, <2>2, <2>3
       DEF Typed, Apart, Arrives, Alive, Inside, Recovering, Operating, Releasing, OfPromotion,
           OnJournal, OnAside
<1>30. CASE BringBack(p)
  <2>1. UNCHANGED <<command, entry, status, aside, outcome, holder, journal, debris, graph,
                    leases, confirmed>>
    BY <1>30 DEF BringBack, Removing
  <2>2. /\ pc[p] = "bring back"
        /\ \A q \in Processes : q # p => pc'[q] = pc[q]
        /\ pc'[p] \in {"fail"}
        /\ pc' \in [Processes -> Steps]
    BY <1>0, <1>30, GotoStep
       DEF Steps, Inside, Recovering, Operating, Releasing, Outside, BringBack, Removing,
           Renames
  <2>3. /\ place' \in [Containers -> Places]
        /\ faults' \in 0..MaxFaults
    BY <1>0, <1>a, <1>c, <1>30, FaultStep, MovesStep DEF BringBack, Removing, Renames, Places
  <2> QED
    BY <1>0, <1>a, <1>b, <2>1, <2>2, <2>3
       DEF Typed, Apart, Arrives, Alive, Inside, Recovering, Operating, Releasing, OfPromotion,
           OnJournal, OnAside
<1>31. CASE Discard(p)
  <2>1. UNCHANGED <<command, entry, status, outcome, holder, journal, graph, leases, confirmed>>
    BY <1>31 DEF Discard, Removing
  <2>2. /\ pc[p] = "discard"
        /\ \A q \in Processes : q # p => pc'[q] = pc[q]
        /\ pc'[p] \in {"discard", "enter"}
        /\ pc' \in [Processes -> Steps]
    BY <1>0, <1>31, GotoStep
       DEF Steps, Inside, Recovering, Operating, Releasing, Outside, Discard, Removing, Deletes
  <2>3. /\ aside' \in [Processes -> Containers \union {None}]
        /\ place' \in [Containers -> Places]
        /\ debris' \subseteq Containers
        /\ faults' \in 0..MaxFaults
    BY <1>0, <1>a, <1>c, <1>31, FaultStep, MovesStep, <1>b
       DEF Discard, Removing, Deletes, OnAside, Places
  <2>4. /\ \A q \in Processes : q # p => aside'[q] = aside[q]
        /\ pc'[p] = "discard" => aside'[p] # None
    BY <1>0, <1>a, <1>b, <1>c, <1>31, <2>1, <2>2 DEF Discard, Removing, Deletes, Goto, OnAside
  <2> QED
    BY <1>0, <1>a, <1>b, <2>1, <2>2, <2>3, <2>4
       DEF Typed, Apart, Arrives, Alive, Inside, Recovering, Operating, Releasing, OfPromotion,
           OnJournal, OnAside
<1>32. CASE Crash(p)
  <2>1. UNCHANGED <<command, entry, outcome, holder, journal, place, debris, graph, leases,
                    confirmed, faults>>
    BY <1>32 DEF Crash, files
  <2>2. /\ Alive(p)
        /\ \A q \in Processes : q # p => pc'[q] = pc[q]
        /\ pc'[p] \in {"crashed"}
        /\ pc' \in [Processes -> Steps]
    BY <1>0, <1>32, GotoStep
       DEF Steps, Inside, Recovering, Operating, Releasing, Outside, Crash, Forgets, files
  <2>3. /\ status' \in [Processes -> Statuses]
        /\ aside' \in [Processes -> Containers \union {None}]
    BY <1>0, <1>a, <1>c, <1>32 DEF Crash, Forgets, files, Statuses
  <2>4. \A q \in Processes : q # p => aside'[q] = aside[q]
    BY <1>0, <1>a, <1>b, <1>c, <1>32, <2>1, <2>2 DEF Crash, Forgets, files, Goto, Alive, OnJournal
  <2> QED
    BY <1>0, <1>a, <1>b, <2>1, <2>2, <2>3, <2>4
       DEF Typed, Apart, Arrives, Alive, Inside, Recovering, Operating, Releasing, OfPromotion,
           OnJournal, OnAside
<1> QED
  BY <1>1, <1>2, <1>3, <1>4, <1>5, <1>6, <1>7, <1>8, <1>9, <1>10, <1>11, <1>12, <1>13, <1>14,
     <1>15, <1>16, <1>17, <1>18, <1>19, <1>20, <1>21, <1>22, <1>23, <1>24, <1>25, <1>26, <1>27,
     <1>28, <1>29, <1>30, <1>31, <1>32 DEF Recovers, Installs, Loads, Removes

-----------------------------------------------------------------------------
(* The invariant holds at first. *)
LEMMA Start == Init => Registry
<1> SUFFICES ASSUME Init
             PROVE  Registry
  OBVIOUS
<1> USE DEF Init
<1>1. entry \in [Processes -> {"first", "remove", "load"}]
  BY DEF Commands, FirstEntry
<1>2. place \in [Containers -> Places] /\ graph \in [Containers -> Graphs]
  BY DEF Places, Graphs
<1>3. Typed
  BY <1>1, <1>2, PluginsAssumption
     DEF Typed, Steps, Outside, Entries, Statuses, Outcomes
<1>4. \A p \in Processes : pc[p] = "enter"
  OBVIOUS
<1>5. \A p \in Processes : graph[p] = "nowhere"
  BY PluginsAssumption DEF Containers
<1>6. Exclusive /\ Visits /\ Journaled /\ SetAside
  BY <1>4 DEF Exclusive, Visits, Journaled, SetAside, Inside, Recovering, Operating, Releasing,
              OfPromotion, OnJournal, OnAside
<1>7. Fresh /\ LeasedGraphsStay
  BY <1>5 DEF Fresh, LeasedGraphsStay
<1> QED
  BY <1>3, <1>6, <1>7, TypedIsTypeOK DEF Registry

(* What Effect says of a step is enough for the invariant.  *)
LEMMA Keeps ==
    ASSUME Registry, NEW p \in Processes, Typed', Apart(p), Arrives(p)
    PROVE  Registry'
<1>1. TypeOK'
  BY TypedIsTypeOK, PTL
<1>2. Exclusive'
  <2> SUFFICES ASSUME NEW q \in Processes, pc'[q] \in Inside
               PROVE  holder' = q
    BY DEF Exclusive
  <2>1. CASE q = p
    BY <2>1 DEF Arrives
  <2>2. CASE q # p
    <3>1. pc[q] \in Inside /\ holder = q
      BY <2>2 DEF Apart, Registry, Exclusive
    <3>2. pc[p] \notin Inside
      BY <2>2, <3>1 DEF Registry, Exclusive
    <3>3. Locked
      BY <3>1, PluginsAssumption
         DEF Locked, Alive, Inside, Recovering, Operating, Releasing
    <3> QED
      BY <3>1, <3>2, <3>3 DEF Apart
  <2> QED
    BY <2>1, <2>2
<1>3. Visits'
  <2> SUFFICES ASSUME NEW q \in Processes
               PROVE  /\ pc'[q] \in OfPromotion => entry'[q] = "promote"
                      /\ pc'[q] = "load" => entry'[q] = "load"
                      /\ pc'[q] = "unload" => entry'[q] \in {"load", "unload"}
                      /\ pc'[q] \in {"find", "move away", "bring back"} => entry'[q] = "remove"
    BY DEF Visits
  <2>1. CASE q = p
    BY <2>1 DEF Arrives
  <2>2. CASE q # p
    BY <2>2 DEF Apart, Registry, Visits
  <2> QED
    BY <2>1, <2>2
<1>4. Fresh'
  <2> SUFFICES ASSUME NEW q \in Processes, entry'[q] = "first" \/ pc'[q] = "stage"
               PROVE  graph'[q] = "nowhere"
    BY DEF Fresh
  <2>1. CASE q = p
    BY <2>1 DEF Arrives
  <2>2. CASE q # p
    <3>1. graph[q] = "nowhere" /\ graph'[q] \in {graph[q], "nowhere"}
      BY <2>2 DEF Apart, Registry, Fresh
    <3> QED
      BY <3>1
  <2> QED
    BY <2>1, <2>2
<1>5. Journaled'
  <2> SUFFICES ASSUME NEW q \in Processes, q # p, pc'[q] \in OnJournal
               PROVE  journal' # None
    BY DEF Journaled, Arrives
  <2>1. pc[q] \in OnJournal /\ journal # None
    BY DEF Apart, Registry, Journaled
  <2>2. pc[q] \in Inside
    BY <2>1 DEF OnJournal, Inside, Recovering
  <2>3. pc[p] \notin Inside
    BY <2>2 DEF Registry, Exclusive
  <2> QED
    BY <2>1, <2>3 DEF Apart
<1>6. SetAside'
  BY DEF Registry, SetAside, Apart, Arrives
<1>7. LeasedGraphsStay'
  <2> SUFFICES ASSUME NEW lease \in leases', Alive(lease[1])'
               PROVE  graph'[lease[2]] = "root"
    BY DEF LeasedGraphsStay
  <2>1. lease[1] \in Processes
    BY DEF Typed
  <2>2. Alive(lease[1])
    BY <2>1 DEF Apart, Alive
  <2> QED
    BY <2>2 DEF Apart
<1> QED
  BY <1>1, <1>2, <1>3, <1>4, <1>5, <1>6, <1>7 DEF Registry

(* Every step keeps the invariant.  *)
LEMMA Step == Registry /\ [Next]_vars => Registry'
<1> SUFFICES ASSUME Registry, [Next]_vars
             PROVE  Registry'
  OBVIOUS
<1>1. CASE Next
  <2>1. PICK p \in Processes :
          \/ Enter(p) \/ Release(p) \/ Fail(p)
          \/ Recovers(p) \/ Installs(p) \/ Loads(p) \/ Removes(p)
          \/ Crash(p)
    BY <1>1 DEF Next
  <2> QED
    BY <2>1, Effect, Keeps
<1>2. CASE UNCHANGED vars
  BY <1>2 DEF vars, Registry, TypeOK, Exclusive, Visits, Fresh, Journaled, SetAside,
              LeasedGraphsStay, Alive
<1> QED
  BY <1>1, <1>2

(* The invariant, for any number of processes, packages and I/O errors.    *)
THEOREM Inductive == Spec => []Registry
<1> QED
  BY Start, Step, PTL DEF Spec

(* Every variable of the registry keeps its type. *)
THEOREM Typing == Spec => []TypeOK
<1>1. Registry => TypeOK
  BY DEF Registry
<1> QED
  BY <1>1, Inductive, PTL

(* What a running program has loaded stays on disk, although others update *)
(* and remove adapters, crash, and sweep module graphs (takeLeases and     *)
(* sweepUnreferencedModuleGraphs).                                         *)
THEOREM LeasedGraphs == Spec => []LeasedGraphsStay
<1>1. Registry => LeasedGraphsStay
  BY DEF Registry
<1> QED
  BY <1>1, Inductive, PTL

(* One process at a time is inside the registry, whatever crashes; so no   *)
(* step of another falls between two steps of a visit.                     *)
THEOREM OneVisitor == Spec => []Exclusive
<1>1. Registry => Exclusive
  BY DEF Registry
<1> QED
  BY <1>1, Inductive, PTL

-----------------------------------------------------------------------------
(* Adapters survive, and the registry stays whole or recoverable.  The     *)
(* invariant says, besides, where the containers are at each step of a     *)
(* recovery, a promotion and a removal.  It supposes that the sweep can    *)
(* read the pointers: one it cannot read costs an active adapter its       *)
(* module graph.                                                           *)

(* A package has one active container at most.  *)
OneActive == \A package \in Packages : \A c, d \in Active(package) : c = d

(* It is complete, unless a promotion may have put it there.  *)
ActiveWhole ==
    \A package \in Packages : journal = None \/ journal.package # package =>
        \A c \in Active(package) : Whole(c)

(* What a promotion replaces is complete wherever it is.  *)
BackupWhole ==
    journal # None /\ journal.backup # None =>
        /\ PackageOf(journal.backup) = journal.package
        /\ Whole(journal.backup)
        /\ place[journal.backup] \in {"active", "backup"}

(* The adapter of a package that was installed and that nobody removes.  *)
Owed(package) ==
    /\ place[package] # "nowhere" \/ package \in debris
    /\ \A p \in Processes : command[p] # [kind |-> "remove", package |-> package]

Kept ==
    \A package \in Packages : Owed(package) =>
        IF journal # None /\ journal.package = package THEN journal.backup # None
                                                       ELSE Active(package) # {}

Files == OneActive /\ ActiveWhole /\ BackupWhole /\ Kept

Target == Active(journal.package)
BackedUp == journal.backup # None => place[journal.backup] = "backup"
Reverted == IF journal.backup = None THEN Target = {} ELSE place[journal.backup] = "active"

(* The steps that no journal can be found at.  *)
Unjournaled ==
    {"sweep", "drop backup", "conflict", "move graph", "point", "journal", "load", "find",
     "move away", "bring back"}

AtRecovery(p) ==
    /\ pc[p] \in {"judge", "remove target"} => BackedUp
    /\ pc[p] = "put back" => journal.backup # None /\ BackedUp /\ Target = {}
    /\ pc[p] = "check restored" => journal.backup # None /\ Reverted
    /\ pc[p] = "clear" /\ status[p] = "completed" =>
         BackedUp /\ Target # {} /\ \A c \in Target : Whole(c)
    /\ pc[p] = "clear" /\ status[p] # "completed" => Reverted
    /\ pc[p] \in Unjournaled => journal = None
    /\ pc[p] = "drop backup" => place[aside[p]] = "backup"

(* The journal is of the promotion that p carries out.  *)
Mine(p) ==
    \/ pc[p] \in {"move old", "move new", "accept", "take back", "give back", "unjournal"}
    \/ pc[p] = "release" /\ entry[p] = "promote"

AtPromotion(p) ==
    /\ pc[p] = "journal" /\ aside[p] = None => Active(command[p].package) = {}
    /\ pc[p] = "journal" /\ aside[p] # None => aside[p] \in Active(command[p].package)
    /\ Mine(p) => journal = [package |-> command[p].package, backup |-> aside[p]]
    /\ pc[p] \in {"move old", "unjournal"} => Reverted
    /\ pc[p] \in {"move new", "give back"} => BackedUp /\ Target = {}
    /\ Mine(p) /\ pc[p] \in {"accept", "take back", "release"} =>
         BackedUp /\ place[p] = "active"

(* The adapter is out of the way, and could be brought back.  *)
Taken(p) == pc[p] = "bring back" \/ (pc[p] = "release" /\ entry[p] = "remove")

AtRemoval(p) ==
    /\ pc[p] = "move away" => aside[p] \in Active(command[p].package)
    /\ Taken(p) => /\ journal = None
                   /\ Whole(aside[p])
                   /\ PackageOf(aside[p]) = command[p].package
                   /\ Active(command[p].package) = {}
    /\ Taken(p) \/ pc[p] = "discard" => place[aside[p]] = "inactive"
    /\ entry[p] = "remove" => command[p].kind = "remove"

(* The new container of p, before it is promoted.  *)
AtStage(p) ==
    /\ entry[p] = "first" \/ pc[p] = "stage" => place[p] = "nowhere"
    /\ /\ entry[p] = "promote"
       /\ pc[p] \in Recovering \union {"enter", "conflict", "move graph", "point", "journal",
                                       "move old", "move new"}
       => place[p] = "stage"
    /\ pc[p] \in {"unstage", "use", "discard"} => entry[p] # "promote"

Position(p) == AtRecovery(p) /\ AtPromotion(p) /\ AtRemoval(p) /\ AtStage(p)

(* Two commands do not discard the same container.  *)
Distinct ==
    \A p, q \in Processes :
        p # q /\ pc[p] = "discard" /\ (pc[q] = "discard" \/ Taken(q)) => aside[p] # aside[q]

Whereabouts == Registry /\ Files /\ Distinct /\ \A p \in Processes : Position(p)

-----------------------------------------------------------------------------
(* A journal that a step writes is one that is there.  *)
LEMMA JournalIsThere ==
    ASSUME TypeOK, NEW p \in Processes
    PROVE  /\ [package |-> command[p].package, backup |-> aside[p]] \in Journals
           /\ [package |-> command[p].package, backup |-> aside[p]] # None
<1>1. command[p].package \in Packages /\ aside[p] \in Containers \union {None}
  BY DEF TypeOK, Commands
<1>2. [package |-> command[p].package, backup |-> aside[p]] \in Journals
  BY <1>1 DEF Journals
<1> QED
  BY <1>2, NoneAssumption

(* What every step of p spares.  *)
Spares(p) ==
    /\ command' = command
    /\ \A q \in Processes : q # p => status'[q] = status[q]
    /\ \A q \in Processes :
         q # p /\ place[q] \in {"nowhere", "stage"} => place'[q] = place[q]
    /\ \A c \in Containers : place[c] = "inactive" =>
         \/ place'[c] = "inactive"
         \/ c = aside[p] /\ pc[p] \in {"discard", "bring back"}

(* What a step from outside of the registry leaves alone. *)
FromOutside(p) ==
    /\ journal' = journal
    /\ \A c \in Containers :
         \/ place'[c] = place[c] /\ (c \in debris' <=> c \in debris) /\ graph'[c] = graph[c]
         \/ /\ place[c] \in {"nowhere", "stage"}
            /\ place'[c] \in {"nowhere", "stage"}
         \/ /\ place[c] = place'[c]
            /\ (c \in debris' <=> c \in debris)
            /\ graph[c] # "root" /\ graph'[c] # "root"
         \/ place[c] = "inactive" /\ c = aside[p] /\ pc[p] = "discard"
            /\ place'[c] \in {"nowhere", "inactive"}
    /\ \A package \in Packages :
         place'[package] # "nowhere" \/ package \in debris' =>
         place[package] # "nowhere" \/ package \in debris

(* So the files stay as they should be.  *)
LEMMA OutsideKeepsFiles ==
    ASSUME Whereabouts, NEW p \in Processes, Spares(p), FromOutside(p)
    PROVE  Files'
<1>0. Packages \subseteq Containers /\ command' = command /\ journal' = journal
  BY DEF Containers, Spares, FromOutside
<1>1. /\ \A c \in Containers :
           place'[c] \in {"active", "backup"} <=> place[c] \in {"active", "backup"}
      /\ \A c \in Containers : place[c] \in {"active", "backup"} =>
           place'[c] = place[c] /\ (Whole(c)' <=> Whole(c))
  BY DEF FromOutside, Whole
<1>2. \A package : Active(package)' = Active(package)
  BY <1>0, <1>1 DEF Active, PackageOf
<1>3. OneActive'
  BY <1>2 DEF Whereabouts, Files, OneActive
<1>4. ActiveWhole'
  BY <1>0, <1>1, <1>2 DEF Whereabouts, Files, ActiveWhole, Active
<1>5. BackupWhole'
  <2>1. journal # None => journal.backup \in Containers \union {None}
    BY DEF Whereabouts, Registry, TypeOK, Journals
  <2> QED
    BY <1>0, <1>1, <2>1 DEF Whereabouts, Files, BackupWhole, PackageOf
<1>6. Kept'
  <2>1. \A package \in Packages : Owed(package)' => Owed(package)
    BY <1>0 DEF Owed, FromOutside
  <2> QED
    BY <1>0, <1>2, <2>1 DEF Whereabouts, Files, Kept
<1> QED
  BY <1>3, <1>4, <1>5, <1>6 DEF Files

(* The position of another process is still true.  *)
LEMMA OthersStay ==
    ASSUME Whereabouts, NEW p \in Processes, Apart(p), Spares(p),
           pc[p] \notin Inside => FromOutside(p),
           NEW q \in Processes, q # p
    PROVE  Position(q)'
<1>0. /\ pc'[q] = pc[q] /\ entry'[q] = entry[q] /\ aside'[q] = aside[q]
      /\ status'[q] = status[q] /\ command' = command
      /\ Position(q)
  BY DEF Apart, Spares, Whereabouts
<1>1. AtStage(q)'
  BY <1>0 DEF AtStage, Position, Spares
<1>2. pc[q] = "discard" => place'[aside[q]] = "inactive"
  <2> SUFFICES ASSUME pc[q] = "discard"
               PROVE  place'[aside[q]] = "inactive"
    OBVIOUS
  <2>1. place[aside[q]] = "inactive" /\ aside[q] # None
    BY <1>0 DEF Position, AtRemoval, Whereabouts, Registry, SetAside, OnAside
  <2>2. aside[q] \in Containers
    BY <2>1 DEF Whereabouts, Registry, TypeOK
  <2>3. pc[p] \in {"discard", "bring back"} => aside[p] # aside[q]
    BY DEF Whereabouts, Distinct, Taken
  <2> QED
    BY <2>1, <2>2, <2>3 DEF Spares
<1>3. CASE pc[q] \notin Inside
  <2>1. /\ pc[q] \notin Unjournaled \union {"judge", "remove target", "put back",
                                            "check restored", "clear"}
        /\ ~ Mine(q) /\ ~ Taken(q) /\ pc[q] # "journal" /\ pc[q] # "move away"
    BY <1>3 DEF Inside, Recovering, Operating, Releasing, Unjournaled, Mine, Taken
  <2>2. AtRecovery(q)'
    BY <1>0, <2>1 DEF AtRecovery, Unjournaled
  <2>3. AtPromotion(q)'
    BY <1>0, <2>1 DEF AtPromotion, Mine
  <2>4. AtRemoval(q)'
    BY <1>0, <1>2, <2>1 DEF AtRemoval, Taken, Position
  <2> QED
    BY <1>1, <2>2, <2>3, <2>4 DEF Position
<1>4. CASE pc[q] \in Inside
  <2>1. pc[p] \notin Inside /\ FromOutside(p)
    BY <1>4 DEF Whereabouts, Registry, Exclusive
  <2>2. /\ \A c \in Containers :
             place'[c] \in {"active", "backup"} <=> place[c] \in {"active", "backup"}
        /\ \A c \in Containers : place[c] \in {"active", "backup"} =>
             place'[c] = place[c] /\ (Whole(c)' <=> Whole(c))
        /\ journal' = journal
    BY <2>1 DEF FromOutside, Whole
  <2>3. \A package : Active(package)' = Active(package)
    BY <1>0, <2>2 DEF Active, PackageOf
  <2>4. /\ journal # None => journal.backup \in Containers \union {None}
        /\ aside[q] \in Containers \union {None}
        /\ q \in Containers /\ None \notin Containers
    BY PluginsAssumption DEF Whereabouts, Registry, TypeOK, Journals, Containers
  <2>5. /\ pc[q] \in OnJournal => journal # None
        /\ pc[q] \in OnAside \/ (pc[q] = "release" /\ entry[q] = "remove") => aside[q] # None
    BY DEF Whereabouts, Registry, Journaled, SetAside
  <2>6. Target' = Target /\ Active(command[q].package)' = Active(command[q].package)
    BY <1>0, <2>2, <2>3 DEF Target
  <2>7. /\ journal # None /\ BackedUp => BackedUp'
        /\ journal # None /\ Reverted => Reverted'
    BY <2>2, <2>4, <2>6 DEF BackedUp, Reverted
  <2>8. AtRecovery(q)'
    <3>1. \A c \in Target : Whole(c)' <=> Whole(c)
      BY <2>2 DEF Target, Active
    <3>2. pc[q] = "drop backup" => place'[aside[q]] = "backup"
      BY <1>0, <2>2, <2>4, <2>5 DEF Position, AtRecovery, OnAside
    <3> QED
      BY <1>0, <2>2, <2>5, <2>6, <2>7, <3>1, <3>2
         DEF Position, AtRecovery, OnJournal
  <2>9. AtPromotion(q)'
    <3>1. Mine(q)' <=> Mine(q)
      BY <1>0 DEF Mine
    <3>2. Mine(q) => journal # None
      BY <1>0, JournalIsThere DEF Position, AtPromotion, Whereabouts, Registry
    <3>3. pc[q] \in {"move old", "unjournal", "move new", "give back"} => Mine(q)
      BY DEF Mine
    <3>4. place[q] = "active" => place'[q] = "active"
      BY <2>2, <2>4
    <3> QED
      BY <1>0, <2>2, <2>6, <2>7, <3>1, <3>2, <3>3, <3>4 DEF Position, AtPromotion
  <2>10. AtRemoval(q)'
    <3>1. Taken(q)' <=> Taken(q)
      BY <1>0 DEF Taken
    <3>2. Taken(q) => aside[q] \in Containers /\ place[aside[q]] = "inactive"
      BY <1>0, <2>4, <2>5 DEF Position, AtRemoval, Taken, OnAside
    <3>3. Taken(q) /\ pc[p] = "discard" => aside[q] # aside[p]
      BY DEF Whereabouts, Distinct
    <3>4. Taken(q) => place'[aside[q]] = "inactive" /\ (Whole(aside[q]) => Whole(aside[q])')
      BY <1>0, <2>1, <3>2, <3>3 DEF FromOutside, Whole
    <3> QED
      BY <1>0, <1>2, <2>2, <2>6, <3>1, <3>4 DEF Position, AtRemoval, PackageOf
  <2> QED
    BY <1>1, <2>8, <2>9, <2>10 DEF Position
<1> QED
  BY <1>3, <1>4

-----------------------------------------------------------------------------
(* Distinct needs this of p: what it is about to discard it has set aside  *)
(* before, or it was active.                                               *)
Takes(p) ==
    pc'[p] = "discard" \/ Taken(p)' =>
        /\ aside'[p] = aside[p]
        /\ pc[p] = "discard" \/ Taken(p) \/ place[aside[p]] = "active"

(* What is to be shown of each action. *)
Lands(p) ==
    /\ Spares(p)
    /\ pc[p] \notin Inside => FromOutside(p)
    /\ Files'
    /\ Position(p)'
    /\ Takes(p)

LEMMA WhereaboutsStay ==
    ASSUME Whereabouts, NEW p \in Processes, Registry', Apart(p), Lands(p)
    PROVE  Whereabouts'
<1>1. \A q \in Processes : Position(q)'
  BY OthersStay DEF Lands
<1>2. Distinct'
  <2> SUFFICES ASSUME NEW q \in Processes, NEW r \in Processes, q # r,
                      pc'[q] = "discard", pc'[r] = "discard" \/ Taken(r)'
               PROVE  aside'[q] # aside'[r]
    BY DEF Distinct
  <2>1. \A s \in Processes : s # p =>
          pc'[s] = pc[s] /\ aside'[s] = aside[s] /\ (Taken(s)' <=> Taken(s))
    BY DEF Apart, Taken
  <2>2. \A s \in Processes : pc[s] = "discard" \/ Taken(s) => place[aside[s]] = "inactive"
    BY DEF Whereabouts, Position, AtRemoval
  <2>3. CASE q = p
    <3>0. \A s \in Processes : Taken(s) => holder = s
      BY DEF Whereabouts, Registry, Exclusive, Taken, Inside, Operating, Releasing
    <3>1. ~ (Taken(p) /\ Taken(r))
      BY <2>3, <3>0
    <3> QED
      BY <2>1, <2>2, <2>3, <3>1 DEF Whereabouts, Distinct, Lands, Takes
  <2>4. CASE r = p
    BY <2>1, <2>2, <2>4 DEF Whereabouts, Distinct, Lands, Takes
  <2>5. CASE q # p /\ r # p
    BY <2>1, <2>5 DEF Whereabouts, Distinct
  <2> QED
    BY <2>3, <2>4, <2>5
<1> QED
  BY <1>1, <1>2 DEF Whereabouts, Lands

(* A step that moves no container and leaves the journal alone.  *)
Quiet(p) ==
    /\ UNCHANGED <<command, journal, place, debris, graph>>
    /\ \A q \in Processes : q # p => status'[q] = status[q]

LEMMA QuietStep ==
    ASSUME Whereabouts, NEW p \in Processes, Quiet(p)
    PROVE  /\ Spares(p) /\ FromOutside(p) /\ Files'
           /\ \A package : Active(package)' = Active(package)
           /\ Target' = Target /\ (BackedUp' <=> BackedUp) /\ (Reverted' <=> Reverted)
           /\ \A c : Whole(c)' <=> Whole(c)
<1>1. Spares(p) /\ FromOutside(p)
  BY DEF Quiet, Spares, FromOutside
<1>2. Files'
  BY <1>1, OutsideKeepsFiles
<1>3. \A package : Active(package)' = Active(package)
  BY DEF Quiet, Active, PackageOf
<1>4. Target' = Target
  BY <1>3 DEF Target, Quiet
<1> QED
  BY <1>1, <1>2, <1>3, <1>4 DEF Quiet, BackedUp, Reverted, Whole

(* Steps at which the invariant asks for little.  *)
LEMMA Rests ==
    ASSUME Whereabouts, NEW p \in Processes, command' = command,
           entry'[p] = "remove" => entry[p] = "remove",
           entry'[p] = "first" => entry[p] = "first",
           place[p] = "nowhere" => place'[p] = "nowhere",
           \/ pc'[p] \in {"fail", "ended", "crashed", "unload"}
           \/ pc'[p] \in {"unstage", "use"} /\ entry'[p] # "promote"
           \/ pc'[p] = "enter" /\ entry'[p] # "promote"
           \/ pc'[p] = "release" /\ entry'[p] \notin {"promote", "remove"}
    PROVE  Position(p)' /\ Takes(p)
<1>1. AtRecovery(p)'
  BY DEF AtRecovery, Unjournaled
<1>2. ~ Mine(p)' /\ ~ Taken(p)'
  BY DEF Mine, Taken
<1>3. AtPromotion(p)'
  BY <1>2 DEF AtPromotion, Mine
<1>4. AtRemoval(p)'
  BY <1>2 DEF AtRemoval, Whereabouts, Position
<1>5. AtStage(p)'
  BY DEF AtStage, Whereabouts, Position, Recovering
<1> QED
  BY <1>1, <1>2, <1>3, <1>4, <1>5 DEF Position, Takes

(* What is known of p before its step.  *)
LEMMA Knowing ==
    ASSUME Whereabouts, NEW p \in Processes
    PROVE  /\ pc \in [Processes -> Steps] /\ entry \in [Processes -> Entries]
           /\ status \in [Processes -> Statuses]
           /\ aside \in [Processes -> Containers \union {None}]
           /\ place \in [Containers -> Places] /\ graph \in [Containers -> Graphs]
           /\ debris \subseteq Containers
           /\ Packages \subseteq Containers /\ Processes \subseteq Containers
           /\ None \notin Containers /\ p \notin Packages
           /\ command[p] \in Commands /\ command[p].package \in Packages
           /\ PackageOf(p) = command[p].package
           /\ journal # None =>
                /\ journal.package \in Packages
                /\ journal.backup \in Containers \union {None}
           /\ AtRecovery(p) /\ AtPromotion(p) /\ AtRemoval(p) /\ AtStage(p)
           /\ pc[p] \in OnJournal => journal # None
           /\ pc[p] \in OnAside => aside[p] # None
<1>1. Typed
  BY TypedIsTypeOK DEF Whereabouts, Registry
<1>2. /\ Packages \subseteq Containers /\ Processes \subseteq Containers
      /\ None \notin Containers /\ p \notin Packages
  BY PluginsAssumption DEF Containers
<1>3. command[p] \in Commands /\ command[p].package \in Packages
  BY <1>1 DEF Typed, Commands
<1>4. PackageOf(p) = command[p].package
  BY <1>2 DEF PackageOf
<1>5. journal # None =>
        journal.package \in Packages /\ journal.backup \in Containers \union {None}
  BY <1>1 DEF Typed, Journals
<1> QED
  BY <1>1, <1>2, <1>3, <1>4, <1>5
     DEF Typed, Whereabouts, Position, Registry, Journaled, SetAside

LEMMA OneTarget ==
    ASSUME Whereabouts, NEW p \in Processes, pc[p] \in OnJournal, NEW c \in Target
    PROVE  /\ \A d \in Target : d = c
           /\ c \in Containers /\ place[c] = "active" /\ PackageOf(c) = journal.package
<1>1. journal.package \in Packages
  BY Knowing
<1>2. Target = Active(journal.package)
  BY DEF Target
<1>3. \A d, e \in Active(journal.package) : d = e
  BY <1>1 DEF Whereabouts, Files, OneActive
<1> QED
  BY <1>2, <1>3 DEF Active

(* The rename of one container, and what is active after it. *)
LEMMA MovedStep ==
    ASSUME Whereabouts, command' = command, NEW c \in Containers, NEW to \in Places,
           Moves(c, to)
    PROVE  /\ place'[c] = to
           /\ \A d \in Containers : d # c => place'[d] = place[d]
           /\ to # "active" => \A package : Active(package)' = Active(package) \ {c}
           /\ to = "active" => \A package :
                Active(package)' =
                  Active(package) \union (IF PackageOf(c) = package THEN {c} ELSE {})
<1>1. place \in [Containers -> Places]
  BY TypedIsTypeOK DEF Whereabouts, Registry, Typed
<1>2. /\ place'[c] = to
      /\ \A d \in Containers : d # c => place'[d] = place[d]
  BY <1>1 DEF Moves
<1>3. \A d \in Containers : PackageOf(d)' = PackageOf(d)
  BY DEF PackageOf
<1>4. \A package, d :
        d \in Active(package)' <=>
          d \in Containers /\ PackageOf(d) = package /\ place'[d] = "active"
  BY <1>3 DEF Active
<1>5. \A package, d :
        d \in Active(package) <=>
          d \in Containers /\ PackageOf(d) = package /\ place[d] = "active"
  BY DEF Active
<1>6. ASSUME to # "active", NEW package
      PROVE  Active(package)' = Active(package) \ {c}
  BY <1>2, <1>4, <1>5, <1>6
<1>7. ASSUME to = "active", NEW package
      PROVE  Active(package)' =
               Active(package) \union (IF PackageOf(c) = package THEN {c} ELSE {})
  BY <1>2, <1>4, <1>5, <1>7
<1> QED
  BY <1>2, <1>6, <1>7

(* From one step of the recovery to the next.  *)
LEMMA StillRecovering ==
    ASSUME Whereabouts, NEW p \in Processes, command' = command,
           pc[p] \in Recovering, pc'[p] \in Recovering, entry'[p] = entry[p],
           place[p] \in {"nowhere", "stage"} => place'[p] = place[p]
    PROVE  AtPromotion(p)' /\ AtRemoval(p)' /\ AtStage(p)' /\ Takes(p)
<1>1. /\ ~ Mine(p)' /\ ~ Taken(p)'
      /\ pc'[p] \notin {"journal", "move old", "unjournal", "move new", "give back",
                         "move away", "discard"}
  BY DEF Mine, Taken, Recovering
<1>2. AtPromotion(p)' /\ AtRemoval(p)' /\ Takes(p)
  <2>1. AtPromotion(p)'
    BY <1>1 DEF AtPromotion
  <2>2. AtRemoval(p)'
    BY <1>1, Knowing DEF AtRemoval
  <2> QED
    BY <1>1, <2>1, <2>2 DEF Takes
<1>3. AtStage(p)'
  BY Knowing DEF AtStage, Recovering
<1> QED
  BY <1>2, <1>3

(* Recovery, action by action: it ends without a journal, and with a       *)
(* complete adapter wherever there was one.                                *)
LEMMA JournalRead ==
    ASSUME Whereabouts, NEW p \in Processes, RecoverClientPluginPromotion(p)
    PROVE  Lands(p)
<1>0. /\ pc[p] = "recover" /\ pc[p] \in Recovering /\ pc[p] \in Inside
      /\ UNCHANGED <<command, entry, aside, journal, place, debris, graph>>
      /\ status'[p] = "none"
  BY Knowing DEF RecoverClientPluginPromotion, files, Recovering, Inside
<1>1. Quiet(p)
  BY <1>0, Knowing DEF RecoverClientPluginPromotion, Quiet
<1>2. /\ Spares(p) /\ Files' /\ Target' = Target
      /\ (BackedUp' <=> BackedUp) /\ (Reverted' <=> Reverted)
  BY <1>1, QuietStep
<1>3. pc'[p] \in Recovering \union {"fail"}
  BY Knowing DEF RecoverClientPluginPromotion, Goto, Recovering
<1>4. CASE pc'[p] = "fail"
  BY <1>0, <1>2, <1>4, Rests DEF Lands
<1>5. CASE pc'[p] \in Recovering
  <2>2. AtPromotion(p)' /\ AtRemoval(p)' /\ AtStage(p)' /\ Takes(p)
    BY <1>0, <1>5, StillRecovering
  <2>4. CASE journal = None /\ Goto(p, "sweep")
    <3>1. pc'[p] = "sweep"
      BY <2>4, Knowing DEF Goto
    <3> QED
      BY <1>0, <1>2, <2>2, <2>4, <3>1 DEF Lands, Position, AtRecovery
  <2>5. CASE journal # None
    <3>1. /\ Target # {} => pc'[p] \in {"judge", "check restored"}
          /\ Target = {} => pc'[p] \in {"put back", "clear"}
          /\ pc'[p] = "judge" => BackedUp
          /\ pc'[p] = "check restored" =>
               journal.backup # None /\ place[journal.backup] # "backup"
          /\ pc'[p] = "put back" => journal.backup # None /\ BackedUp
          /\ pc'[p] = "clear" => journal.backup = None
      BY <1>5, <2>5, Knowing
         DEF RecoverClientPluginPromotion, Goto, Target, BackedUp, Recovering
    <3>2. pc'[p] = "check restored" => Reverted
      BY <2>5, <3>1, Knowing DEF Whereabouts, Files, BackupWhole, Reverted
    <3>3. pc'[p] = "clear" => Reverted
      BY <3>1 DEF Reverted
    <3>4. AtRecovery(p)'
      BY <1>0, <1>2, <2>5, <3>1, <3>2, <3>3 DEF AtRecovery, Unjournaled
    <3> QED
      BY <1>0, <1>2, <2>2, <3>4 DEF Lands, Position
  <2> QED
    BY <2>4, <2>5 DEF RecoverClientPluginPromotion
<1> QED
  BY <1>3, <1>4, <1>5

LEMMA Judged ==
    ASSUME Whereabouts, NEW p \in Processes, Judge(p)
    PROVE  Lands(p)
<1>0. /\ pc[p] = "judge" /\ pc[p] \in Recovering /\ pc[p] \in Inside
      /\ UNCHANGED <<command, entry, aside, journal, place, debris, graph>>
  BY DEF Judge, files, Recovering, Inside
<1>1. Quiet(p)
  BY <1>0, Knowing DEF Judge, Quiet
<1>2. /\ Spares(p) /\ Files' /\ Target' = Target
      /\ (BackedUp' <=> BackedUp) /\ (Reverted' <=> Reverted)
      /\ \A c : Whole(c)' <=> Whole(c)
  BY <1>1, QuietStep
<1>3. journal # None /\ journal.package \in Packages /\ BackedUp
  BY <1>0, Knowing DEF AtRecovery, OnJournal
<1>4. PICK c \in Target :
        \/ Whole(c) /\ status' = [status EXCEPT ![p] = "completed"] /\ Goto(p, "clear")
        \/ Goto(p, "remove target") /\ UNCHANGED status
  BY DEF Judge, Target
<1>5. \A d \in Target : d = c
  BY <1>0, OneTarget DEF OnJournal
<1>6. \/ pc'[p] = "clear" /\ status'[p] = "completed" /\ Whole(c)
      \/ pc'[p] = "remove target"
  BY <1>4, Knowing DEF Goto
<1>7. pc'[p] \in Recovering
  BY <1>6 DEF Recovering
<1>8. AtPromotion(p)' /\ AtRemoval(p)' /\ AtStage(p)' /\ Takes(p)
  BY <1>0, <1>7, StillRecovering
<1>9. AtRecovery(p)'
  BY <1>2, <1>3, <1>5, <1>6 DEF AtRecovery, Unjournaled
<1> QED
  BY <1>0, <1>2, <1>8, <1>9 DEF Lands, Position

LEMMA TargetRemoved ==
    ASSUME Whereabouts, NEW p \in Processes, RemoveTarget(p)
    PROVE  Lands(p)
<1>0. /\ pc[p] = "remove target" /\ pc[p] \in Recovering /\ pc[p] \in Inside
      /\ UNCHANGED <<command, entry, aside, journal, graph>>
      /\ status'[p] = "reverted"
      /\ \A q \in Processes : q # p => status'[q] = status[q]
  BY Knowing DEF RemoveTarget, Recovering, Inside
<1>1. journal # None /\ journal.package \in Packages /\ BackedUp
      /\ journal.backup \in Containers \union {None}
  BY <1>0, Knowing DEF AtRecovery, OnJournal
<1>2. PICK c \in Target :
        Deletes(p, c, IF journal.backup = None THEN "clear" ELSE "put back", "fail")
  BY DEF RemoveTarget, Target
<1>3. /\ \A d \in Target : d = c
      /\ c \in Containers /\ place[c] = "active" /\ PackageOf(c) = journal.package
  BY <1>0, OneTarget DEF OnJournal
<1>4. /\ debris' = debris \union {c}
      /\ \/ pc'[p] = "remove target" /\ place' = place
         \/ /\ pc'[p] = IF journal.backup = None THEN "clear" ELSE "put back"
            /\ place' = [place EXCEPT ![c] = "nowhere"]
         \/ pc'[p] = "fail" /\ place' = place
  BY <1>0, <1>2, Knowing DEF Deletes, Goto, Moves
<1>5. /\ \A d \in Containers : d # c => place'[d] = place[d] /\ (Whole(d)' <=> Whole(d))
      /\ place'[c] \in {"active", "nowhere"}
      /\ place' # place => place'[c] = "nowhere"
  BY <1>0, <1>3, <1>4, Knowing DEF Whole
<1>6. Spares(p)
  BY <1>0, <1>3, <1>5, Knowing DEF Spares
<1>7. /\ \A package \in Packages : Active(package)' \subseteq Active(package)
      /\ \A package \in Packages : package # journal.package =>
           Active(package)' = Active(package) /\ c \notin Active(package)
      /\ place' # place => Target' = {}
  <2>1. \A d \in Containers : PackageOf(d)' = PackageOf(d)
    BY <1>0 DEF PackageOf
  <2>2. \A package \in Packages : Active(package)' \subseteq Active(package)
    BY <1>3, <1>5, <2>1 DEF Active
  <2>3. \A package \in Packages : package # journal.package =>
           Active(package)' = Active(package) /\ c \notin Active(package)
    BY <1>3, <1>5, <2>1 DEF Active
  <2>4. place' # place => c \notin Target'
    BY <1>0, <1>5 DEF Active, Target
  <2>5. Target' \subseteq Target
    BY <1>0, <1>1, <2>2 DEF Target
  <2> QED
    BY <1>3, <2>2, <2>3, <2>4, <2>5
<1>8. journal.backup # None => journal.backup # c /\ place'[journal.backup] = "backup"
  BY <1>1, <1>3, <1>5 DEF BackedUp
<1>9. Files'
  <2>1. OneActive'
    BY <1>7 DEF Whereabouts, Files, OneActive
  <2>2. ActiveWhole'
    BY <1>0, <1>1, <1>5, <1>7, ActiveContainers DEF Whereabouts, Files, ActiveWhole
  <2>3. BackupWhole'
    BY <1>0, <1>1, <1>5, <1>8 DEF Whereabouts, Files, BackupWhole, PackageOf
  <2>4. \A package \in Packages : Owed(package)' => Owed(package)
    BY <1>0, <1>3, <1>4, <1>5, Knowing DEF Owed
  <2>5. Kept'
    BY <1>0, <1>1, <1>7, <2>4 DEF Whereabouts, Files, Kept
  <2> QED
    BY <2>1, <2>2, <2>3, <2>5 DEF Files
<1>10. CASE pc'[p] = "fail"
  BY <1>0, <1>3, <1>5, <1>6, <1>9, <1>10, Knowing, Rests DEF Lands
<1>11. CASE pc'[p] # "fail"
  <2>0. \/ pc'[p] = "remove target"
        \/ pc'[p] = "clear" /\ journal.backup = None /\ Target' = {}
        \/ pc'[p] = "put back" /\ journal.backup # None /\ Target' = {}
    BY <1>3, <1>4, <1>5, <1>7, <1>11, Knowing
  <2>1. pc'[p] \in Recovering
    BY <2>0 DEF Recovering
  <2>2. place[p] \in {"nowhere", "stage"} => place'[p] = place[p]
    BY <1>3, <1>5, Knowing
  <2>3. AtPromotion(p)' /\ AtRemoval(p)' /\ AtStage(p)' /\ Takes(p)
    BY <1>0, <2>1, <2>2, StillRecovering
  <2>4. AtRecovery(p)'
    BY <1>0, <1>8, <2>0 DEF AtRecovery, Unjournaled, BackedUp, Reverted
  <2> QED
    BY <1>0, <1>6, <1>9, <2>3, <2>4 DEF Lands, Position
<1> QED
  BY <1>10, <1>11

LEMMA BackPut ==
    ASSUME Whereabouts, NEW p \in Processes, PutBack(p)
    PROVE  Lands(p)
<1>0. /\ pc[p] = "put back" /\ pc[p] \in Recovering /\ pc[p] \in Inside /\ pc[p] \in OnJournal
      /\ UNCHANGED <<command, entry, status, aside, journal, debris, graph>>
  BY DEF PutBack, Recovering, Inside, OnJournal
<1>1. /\ journal # None /\ journal.package \in Packages /\ journal.backup \in Containers
      /\ place[journal.backup] = "backup" /\ Target = {}
      /\ PackageOf(journal.backup) = journal.package
  BY <1>0, Knowing DEF AtRecovery, BackedUp, Whereabouts, Files, BackupWhole
<1>2. \/ Moves(journal.backup, "active") /\ pc'[p] = "check restored"
      \/ Moves(journal.backup, "active") /\ pc'[p] = "fail"
      \/ UNCHANGED place /\ pc'[p] = "fail"
  BY Knowing DEF PutBack, Renames, Goto
<1>3. CASE UNCHANGED place
  <2>1. Quiet(p)
    BY <1>0, <1>3 DEF Quiet
  <2>2. pc'[p] = "fail"
    BY <1>1, <1>2, <1>3, Knowing DEF Moves
  <2> QED
    BY <1>0, <1>3, <2>1, <2>2, QuietStep, Rests DEF Lands
<1>4. CASE Moves(journal.backup, "active")
  <2>1. /\ place'[journal.backup] = "active"
        /\ \A d \in Containers : d # journal.backup => place'[d] = place[d]
        /\ \A package : Active(package)' =
             Active(package) \union (IF journal.package = package THEN {journal.backup} ELSE {})
    BY <1>0, <1>1, <1>4, MovedStep DEF Places
  <2>2. \A c \in Containers : Whole(c)' <=> Whole(c)
    BY <1>0 DEF Whole
  <2>3. Spares(p)
    BY <1>0, <1>1, <2>1, Knowing DEF Spares
  <2>4. Files'
    <3>1. OneActive'
      BY <1>1, <2>1 DEF Whereabouts, Files, OneActive, Target
    <3>2. ActiveWhole'
      BY <1>0, <1>1, <2>1, <2>2, ActiveContainers DEF Whereabouts, Files, ActiveWhole
    <3>3. BackupWhole'
      BY <1>0, <1>1, <2>1, <2>2 DEF Whereabouts, Files, BackupWhole, PackageOf
    <3>4. \A package \in Packages : Owed(package)' => Owed(package)
      BY <1>0, <1>1, <2>1, Knowing DEF Owed
    <3>5. Kept'
      BY <1>0, <1>1, <2>1, <3>4 DEF Whereabouts, Files, Kept
    <3> QED
      BY <3>1, <3>2, <3>3, <3>5 DEF Files
  <2>5. CASE pc'[p] = "fail"
    BY <1>0, <1>1, <2>1, <2>3, <2>4, <2>5, Knowing, Rests DEF Lands
  <2>6. CASE pc'[p] = "check restored"
    <3>1. AtPromotion(p)' /\ AtRemoval(p)' /\ AtStage(p)' /\ Takes(p)
      BY <1>0, <1>1, <2>1, <2>6, Knowing, StillRecovering DEF Recovering
    <3>2. AtRecovery(p)'
      BY <1>0, <1>1, <2>1, <2>6, Knowing DEF AtRecovery, Unjournaled, Reverted
    <3> QED
      BY <1>0, <2>3, <2>4, <3>1, <3>2 DEF Lands, Position
  <2> QED
    BY <1>2, <1>4, <2>5, <2>6
<1> QED
  BY <1>2, <1>3, <1>4

LEMMA RestoredChecked ==
    ASSUME Whereabouts, NEW p \in Processes, CheckRestored(p)
    PROVE  Lands(p)
<1>0. /\ pc[p] = "check restored" /\ pc[p] \in Recovering /\ pc[p] \in Inside
      /\ UNCHANGED <<command, entry, aside, journal, place, debris, graph>>
      /\ status'[p] = "reverted"
      /\ \A q \in Processes : q # p => status'[q] = status[q]
      /\ pc'[p] \in {"clear", "fail"}
  BY Knowing DEF CheckRestored, files, Recovering, Inside, Goto
<1>1. Quiet(p)
  BY <1>0 DEF Quiet
<1>2. Spares(p) /\ Files' /\ (Reverted' <=> Reverted)
  BY <1>1, QuietStep
<1>3. CASE pc'[p] = "fail"
  BY <1>0, <1>2, <1>3, Rests DEF Lands
<1>4. CASE pc'[p] = "clear"
  <2>1. AtPromotion(p)' /\ AtRemoval(p)' /\ AtStage(p)' /\ Takes(p)
    BY <1>0, <1>4, StillRecovering DEF Recovering
  <2>2. AtRecovery(p)'
    BY <1>0, <1>2, <1>4, Knowing DEF AtRecovery, Unjournaled
  <2> QED
    BY <1>0, <1>2, <2>1, <2>2 DEF Lands, Position
<1> QED
  BY <1>0, <1>3, <1>4

(* Without its journal a promotion that was completed, or reverted, is over. *)
LEMMA JournalDropped ==
    ASSUME Whereabouts, journal # None, journal' \in {None, journal},
           UNCHANGED <<command, place, debris, graph>>,
           \/ Target # {} /\ \A c \in Target : Whole(c)
           \/ Reverted
    PROVE  Files'
<1>0. /\ journal.package \in Packages /\ journal.backup \in Containers \union {None}
      /\ Files
  BY DEF Whereabouts, Registry, TypeOK, Journals
<1>1. \A package : Active(package)' = Active(package)
  BY DEF Active, PackageOf
<1>2. \A c : Whole(c)' <=> Whole(c)
  BY DEF Whole
<1>3. /\ \A c \in Target : Whole(c)
      /\ journal.backup # None => Target # {}
  <2>1. CASE Target # {} /\ \A c \in Target : Whole(c)
    BY <2>1
  <2>2. CASE Reverted /\ journal.backup = None
    BY <2>2 DEF Reverted
  <2>3. CASE Reverted /\ journal.backup # None
    <3>1. journal.backup \in Target /\ Whole(journal.backup)
      BY <1>0, <2>3 DEF Reverted, Files, BackupWhole, Target, Active
    <3>2. \A c \in Target : c = journal.backup
      BY <1>0, <3>1 DEF Files, OneActive, Target
    <3> QED
      BY <3>1, <3>2
  <2> QED
    BY <2>1, <2>2, <2>3
<1>4. OneActive'
  BY <1>0, <1>1 DEF Files, OneActive
<1>5. ActiveWhole'
  BY <1>0, <1>1, <1>2, <1>3 DEF Files, ActiveWhole, Target
<1>6. BackupWhole'
  BY <1>0, <1>2 DEF Files, BackupWhole, PackageOf
<1>7. Kept'
  <2>1. \A package \in Packages : Owed(package)' <=> Owed(package)
    BY DEF Owed
  <2> QED
    BY <1>0, <1>1, <1>3, <2>1 DEF Files, Kept, Target
<1> QED
  BY <1>4, <1>5, <1>6, <1>7 DEF Files

LEMMA Cleared ==
    ASSUME Whereabouts, NEW p \in Processes, Clear(p)
    PROVE  Lands(p)
<1>0. /\ pc[p] = "clear" /\ pc[p] \in Recovering /\ pc[p] \in Inside
      /\ UNCHANGED <<command, entry, status, place, debris, graph>>
      /\ journal # None /\ journal' \in {None, journal}
      /\ journal.backup \in Containers \union {None}
  BY Knowing DEF Clear, Clears, Recovering, Inside, OnJournal
<1>1. \/ Target # {} /\ \A c \in Target : Whole(c)
      \/ Reverted
  BY <1>0, Knowing DEF AtRecovery
<1>2. Files'
  BY <1>0, <1>1, JournalDropped
<1>3. Spares(p)
  BY <1>0 DEF Spares
<1>4. \/ /\ journal' = None
         /\ IF status[p] = "completed" /\ journal.backup # None
            THEN pc'[p] = "drop backup" /\ aside'[p] = journal.backup
            ELSE pc'[p] = "sweep"
      \/ pc'[p] = "fail"
  BY Knowing DEF Clear, Clears, Goto
<1>5. CASE pc'[p] = "fail"
  BY <1>0, <1>2, <1>3, <1>5, Rests DEF Lands
<1>6. CASE pc'[p] \in {"sweep", "drop backup"} /\ journal' = None
  <2>1. AtPromotion(p)' /\ AtRemoval(p)' /\ AtStage(p)' /\ Takes(p)
    BY <1>0, <1>6, StillRecovering DEF Recovering
  <2>2. AtRecovery(p)'
    BY <1>0, <1>4, <1>6, Knowing DEF AtRecovery, BackedUp
  <2> QED
    BY <1>0, <1>2, <1>3, <2>1, <2>2 DEF Lands, Position
<1> QED
  BY <1>4, <1>5, <1>6

LEMMA BackupDropped ==
    ASSUME Whereabouts, NEW p \in Processes, DropBackup(p)
    PROVE  Lands(p)
<1>0. /\ pc[p] = "drop backup" /\ pc[p] \in Recovering /\ pc[p] \in Inside
      /\ UNCHANGED <<command, entry, status, aside, journal, graph>>
      /\ journal = None /\ aside[p] \in Containers /\ place[aside[p]] = "backup"
  BY Knowing DEF DropBackup, Recovering, Inside, AtRecovery, Unjournaled, OnAside
<1>1. /\ debris' = debris \union {aside[p]}
      /\ \/ pc'[p] = "drop backup" /\ place' = place
         \/ pc'[p] = "sweep" /\ place' = place
         \/ pc'[p] = "sweep" /\ place' = [place EXCEPT ![aside[p]] = "nowhere"]
  BY <1>0, Knowing DEF DropBackup, Deletes, Goto, Moves
<1>2. /\ \A d \in Containers : d # aside[p] =>
           place'[d] = place[d] /\ (Whole(d)' <=> Whole(d))
      /\ place'[aside[p]] \in {"backup", "nowhere"}
      /\ pc'[p] = "drop backup" => place'[aside[p]] = "backup"
  BY <1>0, <1>1, Knowing DEF Whole
<1>3. \A package : Active(package)' = Active(package) /\ aside[p] \notin Active(package)
  BY <1>0, <1>2 DEF Active, PackageOf
<1>4. Spares(p)
  BY <1>0, <1>2, Knowing DEF Spares
<1>5. Files'
  <2>1. OneActive'
    BY <1>3 DEF Whereabouts, Files, OneActive
  <2>2. ActiveWhole'
    BY <1>0, <1>2, <1>3, ActiveContainers DEF Whereabouts, Files, ActiveWhole
  <2>3. BackupWhole'
    BY <1>0 DEF BackupWhole
  <2>4. \A package \in Packages : Owed(package)' => Owed(package)
    BY <1>0, <1>1, <1>2, Knowing DEF Owed
  <2>5. Kept'
    BY <1>0, <1>3, <2>4 DEF Whereabouts, Files, Kept
  <2> QED
    BY <2>1, <2>2, <2>3, <2>5 DEF Files
<1>6. AtPromotion(p)' /\ AtRemoval(p)' /\ AtStage(p)' /\ Takes(p)
  BY <1>0, <1>1, <1>2, Knowing, StillRecovering DEF Recovering
<1>7. AtRecovery(p)'
  BY <1>0, <1>1, <1>2 DEF AtRecovery
<1> QED
  BY <1>0, <1>4, <1>5, <1>6, <1>7 DEF Lands, Position

(* No file operation of a step failed.  *)
LEMMA NoFault == faults = 0 /\ faults' = 0 => ~ Fault
  BY DEF Fault

(* The sweep spares the module graphs of active containers: here it has to *)
(* read the pointers.                                                      *)
LEMMA Swept ==
    ASSUME Whereabouts, PointersReadable \/ (faults = 0 /\ faults' = 0), NEW p \in Processes,
           SweepUnreferencedModuleGraphs(p)
    PROVE  Lands(p)
<1>0. /\ pc[p] = "sweep" /\ pc[p] \in Recovering /\ pc[p] \in Inside
      /\ UNCHANGED <<command, entry, status, aside, journal, place, debris>>
      /\ journal = None
  BY Knowing DEF SweepUnreferencedModuleGraphs, Recovering, Inside, AtRecovery, Unjournaled
<1>1. PICK removed \in SUBSET Needless({}) :
        graph' = [c \in Containers |-> IF c \in removed THEN "nowhere" ELSE graph[c]]
  BY NoFault DEF SweepUnreferencedModuleGraphs
<1>2. \A c \in Containers : place[c] = "active" /\ Whole(c) => Whole(c)'
  BY <1>0, <1>1 DEF Whole, Needless
<1>3. \A package : Active(package)' = Active(package)
  BY <1>0 DEF Active, PackageOf
<1>4. Files'
  <2>1. OneActive'
    BY <1>3 DEF Whereabouts, Files, OneActive
  <2>2. ActiveWhole'
    BY <1>0, <1>2, <1>3 DEF Whereabouts, Files, ActiveWhole, Active
  <2>3. BackupWhole'
    BY <1>0 DEF BackupWhole
  <2>4. \A package \in Packages : Owed(package)' => Owed(package)
    BY <1>0 DEF Owed
  <2>5. Kept'
    BY <1>0, <1>3, <2>4 DEF Whereabouts, Files, Kept
  <2> QED
    BY <2>1, <2>2, <2>3, <2>5 DEF Files
<1>5. Spares(p)
  BY <1>0 DEF Spares
<1>6. /\ pc'[p] \in {Operation(p), "fail"}
      /\ Operation(p) \in {"conflict", "load", "find", "release"}
  BY Knowing, OperationStep DEF SweepUnreferencedModuleGraphs, Goto
<1>7. /\ Operation(p) = "conflict" => entry[p] = "promote"
      /\ Operation(p) = "load" => entry[p] = "load"
      /\ Operation(p) = "find" => entry[p] = "remove"
      /\ Operation(p) = "release" => entry[p] \notin {"promote", "remove"}
  <2>1. entry[p] = "promote" => Operation(p) = "conflict"
    BY Zenon DEF Operation
  <2> QED
    BY <2>1, Knowing, OperationStep
<1>8. CASE pc'[p] \in {"fail", "release"}
  BY <1>0, <1>4, <1>5, <1>6, <1>7, <1>8, Rests DEF Lands
<1>9. CASE pc'[p] \in {"conflict", "load", "find"}
  <2>1. ~ Mine(p)' /\ ~ Taken(p)'
    BY <1>9 DEF Mine, Taken
  <2>2. AtPromotion(p)' /\ AtRemoval(p)' /\ Takes(p)
    BY <1>0, <1>9, <2>1, Knowing DEF AtPromotion, AtRemoval, Takes
  <2>3. AtRecovery(p)'
    BY <1>0, <1>9 DEF AtRecovery
  <2>4. AtStage(p)'
    BY <1>0, <1>6, <1>7, <1>9, Knowing DEF AtStage, Recovering
  <2> QED
    BY <1>0, <1>4, <1>5, <2>2, <2>3, <2>4 DEF Lands, Position
<1> QED
  BY <1>6, <1>8, <1>9

(* The visits.  *)
LEMMA FailureEntry ==
    ASSUME entry \in [Processes -> Entries], NEW p \in Processes, AfterFailure(p)
    PROVE  /\ entry'[p] \in {entry[p], "cleanup", "after"}
           /\ entry'[p] # "promote"
  BY DEF AfterFailure, Continue

LEMMA SuccessEntry ==
    ASSUME pc \in [Processes -> Steps], entry \in [Processes -> Entries],
           NEW p \in Processes, AfterSuccess(p)
    PROVE  \/ entry[p] = "first" /\ pc'[p] = "stage" /\ entry'[p] = "promote"
           \/ entry[p] = "remove" /\ pc'[p] = "discard" /\ entry'[p] = "after"
           \/ /\ entry[p] \notin {"first", "remove"}
              /\ pc'[p] \in {"enter", "unstage", "use", "ended"}
              /\ entry'[p] \in {"confirm", "cleanup", "unload", "after"}
  BY DEF AfterSuccess, Continue, Goto

LEMMA Entered ==
    ASSUME Whereabouts, NEW p \in Processes, Enter(p)
    PROVE  Lands(p)
<1>0. /\ pc[p] = "enter"
      /\ UNCHANGED <<command, status, aside, journal, place, debris, graph>>
  BY DEF Enter, files
<1>1. Quiet(p)
  BY <1>0 DEF Quiet
<1>2. Spares(p) /\ Files' /\ FromOutside(p)
  BY <1>1, QuietStep
<1>3. CASE Goto(p, IF entry[p] = "unload" THEN "unload" ELSE "recover") /\ UNCHANGED entry
  <2>1. CASE pc'[p] = "unload"
    BY <1>0, <1>2, <1>3, <2>1, Rests DEF Lands
  <2>2. CASE pc'[p] = "recover"
    <3>1. ~ Mine(p)' /\ ~ Taken(p)'
      BY <2>2 DEF Mine, Taken
    <3>2. AtPromotion(p)' /\ AtRemoval(p)' /\ Takes(p)
      BY <1>0, <1>3, <2>2, <3>1, Knowing DEF AtPromotion, AtRemoval, Takes
    <3>3. AtRecovery(p)'
      BY <2>2 DEF AtRecovery, Unjournaled
    <3>4. AtStage(p)'
      BY <1>0, <1>3, <2>2, Knowing DEF AtStage
    <3> QED
      BY <1>2, <3>2, <3>3, <3>4 DEF Lands, Position
  <2> QED
    BY <1>3, <2>1, <2>2, Knowing DEF Goto
<1>4. CASE AfterFailure(p)
  <2>1. /\ pc'[p] \in {"ended", "unstage"}
        /\ entry'[p] \in {entry[p], "cleanup", "after"} /\ entry'[p] # "promote"
    BY <1>4, Knowing, FailureStep, FailureEntry DEF Whereabouts, Registry, TypeOK, Outcomes
  <2> QED
    BY <1>0, <1>2, <2>1, Rests DEF Lands
<1> QED
  BY <1>3, <1>4 DEF Enter

LEMMA ReadFailed ==
    ASSUME Whereabouts, NEW p \in Processes, RecoveryFails(p)
    PROVE  Lands(p)
<1>0. /\ UNCHANGED <<command, status, entry, aside, journal, place, debris, graph>>
      /\ pc'[p] = "fail"
  BY Knowing DEF RecoveryFails, files, Goto
<1>1. Quiet(p)
  BY <1>0 DEF Quiet
<1> QED
  BY <1>0, <1>1, QuietStep, Rests DEF Lands

LEMMA Released ==
    ASSUME Whereabouts, NEW p \in Processes, Release(p)
    PROVE  Lands(p)
<1>0. /\ pc[p] = "release" /\ pc[p] \in Inside
      /\ UNCHANGED <<command, journal, place, debris, graph>>
      /\ \A q \in Processes : q # p => status'[q] = status[q]
      /\ entry[p] = "remove" => aside'[p] = aside[p]
  BY Knowing DEF Release, files, Inside, Releasing, Forgets
<1>1. Quiet(p)
  BY <1>0 DEF Quiet
<1>2. /\ Spares(p) /\ Files' /\ Target' = Target
      /\ (BackedUp' <=> BackedUp)
      /\ \A package : Active(package)' = Active(package)
      /\ \A c : Whole(c)' <=> Whole(c)
  BY <1>1, QuietStep
<1>3. CASE AfterSuccess(p)
  <2>1. CASE entry[p] = "first" /\ pc'[p] = "stage" /\ entry'[p] = "promote"
    <3>1. ~ Mine(p)' /\ ~ Taken(p)'
      BY <2>1 DEF Mine, Taken
    <3>2. AtPromotion(p)' /\ AtRemoval(p)' /\ Takes(p)
      BY <1>0, <2>1, <3>1, Knowing DEF AtPromotion, AtRemoval, Takes
    <3>3. AtRecovery(p)'
      BY <2>1 DEF AtRecovery, Unjournaled
    <3>4. AtStage(p)'
      BY <1>0, <2>1, Knowing DEF AtStage, Recovering
    <3> QED
      BY <1>0, <1>2, <3>2, <3>3, <3>4 DEF Lands, Position
  <2>2. CASE entry[p] = "remove" /\ pc'[p] = "discard" /\ entry'[p] = "after"
    <3>1. ~ Mine(p)' /\ ~ Taken(p)' /\ Taken(p)
      BY <1>0, <2>2 DEF Mine, Taken
    <3>2. AtPromotion(p)'
      BY <2>2, <3>1 DEF AtPromotion
    <3>3. AtRemoval(p)' /\ Takes(p)
      BY <1>0, <2>2, <3>1, Knowing DEF AtRemoval, Takes
    <3>4. AtRecovery(p)'
      BY <2>2 DEF AtRecovery, Unjournaled
    <3>5. AtStage(p)'
      BY <1>0, <2>2, Knowing DEF AtStage, Recovering
    <3> QED
      BY <1>0, <1>2, <3>2, <3>3, <3>4, <3>5 DEF Lands, Position
  <2>3. CASE /\ entry[p] \notin {"first", "remove"}
             /\ pc'[p] \in {"enter", "unstage", "use", "ended"}
             /\ entry'[p] \in {"confirm", "cleanup", "unload", "after"}
    BY <1>0, <1>2, <2>3, Rests DEF Lands
  <2> QED
    BY <1>3, <2>1, <2>2, <2>3, Knowing, SuccessEntry
<1>4. CASE Goto(p, RollBack(p)) /\ UNCHANGED <<entry, aside>>
  <2>1. /\ pc'[p] = RollBack(p)
        /\ pc'[p] \in {"take back", "unload", "bring back", "fail"}
        /\ pc'[p] = "take back" => entry[p] = "promote"
        /\ pc'[p] = "bring back" => entry[p] = "remove"
    BY <1>4, Knowing, RollBackStep DEF Goto, Steps, Inside, Operating, Releasing
  <2>2. CASE pc'[p] \in {"unload", "fail"}
    BY <1>0, <1>2, <1>4, <2>2, Rests DEF Lands
  <2>3. CASE pc'[p] = "take back"
    <3>1. Mine(p) /\ Mine(p)' /\ ~ Taken(p)'
      BY <1>0, <1>4, <2>1, <2>3 DEF Mine, Taken
    <3>2. AtPromotion(p)'
      BY <1>0, <1>2, <1>4, <2>3, <3>1, Knowing DEF AtPromotion
    <3>3. AtRemoval(p)' /\ Takes(p)
      BY <1>0, <1>4, <2>3, <3>1, Knowing DEF AtRemoval, Takes
    <3>4. AtRecovery(p)'
      BY <2>3 DEF AtRecovery, Unjournaled
    <3>5. AtStage(p)'
      BY <1>0, <1>4, <2>3, Knowing DEF AtStage, Recovering
    <3> QED
      BY <1>0, <1>2, <3>2, <3>3, <3>4, <3>5 DEF Lands, Position
  <2>4. CASE pc'[p] = "bring back"
    <3>1. ~ Mine(p)' /\ Taken(p)' /\ Taken(p)
      BY <1>0, <1>4, <2>1, <2>4 DEF Mine, Taken
    <3>2. AtPromotion(p)'
      BY <2>4, <3>1 DEF AtPromotion
    <3>3. AtRemoval(p)' /\ Takes(p)
      BY <1>0, <1>2, <1>4, <2>4, <3>1, Knowing DEF AtRemoval, Takes, PackageOf
    <3>4. AtRecovery(p)'
      BY <1>0, <2>4, <3>1, Knowing DEF AtRecovery, AtRemoval
    <3>5. AtStage(p)'
      BY <1>0, <1>4, <2>4, Knowing DEF AtStage, Recovering
    <3> QED
      BY <1>0, <1>2, <3>2, <3>3, <3>4, <3>5 DEF Lands, Position
  <2> QED
    BY <2>1, <2>2, <2>3, <2>4
<1> QED
  BY <1>3, <1>4 DEF Release

LEMMA Failed ==
    ASSUME Whereabouts, NEW p \in Processes, Fail(p)
    PROVE  Lands(p)
<1>0. /\ pc[p] = "fail" /\ pc[p] \in Inside
      /\ UNCHANGED <<command, journal, place, debris, graph>>
      /\ \A q \in Processes : q # p => status'[q] = status[q]
  BY Knowing DEF Fail, files, Inside, Releasing, Forgets
<1>1. Quiet(p)
  BY <1>0 DEF Quiet
<1>2. /\ pc'[p] \in {"ended", "unstage"}
      /\ entry'[p] \in {entry[p], "cleanup", "after"} /\ entry'[p] # "promote"
  BY Knowing, FailureStep, FailureEntry DEF Fail, Whereabouts, Registry, TypeOK, Outcomes
<1> QED
  BY <1>0, <1>1, <1>2, QuietStep, Rests DEF Lands

LEMMA Crashed ==
    ASSUME Whereabouts, NEW p \in Processes, Crash(p)
    PROVE  Lands(p)
<1>0. /\ UNCHANGED <<command, entry, journal, place, debris, graph>>
      /\ \A q \in Processes : q # p => status'[q] = status[q]
      /\ pc'[p] = "crashed"
  BY Knowing DEF Crash, files, Forgets, Goto
<1>1. Quiet(p)
  BY <1>0 DEF Quiet
<1> QED
  BY <1>0, <1>1, QuietStep, Rests DEF Lands

LEMMA LoadsLand ==
    ASSUME Whereabouts, NEW p \in Processes, Loads(p)
    PROVE  Lands(p)
<1>0. UNCHANGED <<command, status, entry, aside, journal, place, debris, graph>>
  BY DEF Loads, Load, Use, Unload, files
<1>1. Quiet(p)
  BY <1>0 DEF Quiet
<1>2. Spares(p) /\ Files' /\ FromOutside(p)
  BY <1>1, QuietStep
<1>3. /\ pc[p] = "load" => entry[p] = "load"
      /\ pc[p] = "unload" => entry[p] \in {"load", "unload"}
      /\ pc[p] = "use" => entry[p] # "promote"
  BY Knowing DEF Whereabouts, Registry, Visits, AtStage
<1>4. CASE Load(p)
  <2>1. pc'[p] \in {"release", "unload"} /\ entry[p] = "load"
    BY <1>3, <1>4, Knowing DEF Load, Goto
  <2> QED
    BY <1>0, <1>2, <2>1, Rests DEF Lands
<1>5. CASE Use(p)
  <2>1. pc'[p] = "enter" /\ entry[p] # "promote"
    BY <1>3, <1>5, Knowing DEF Use, Goto
  <2> QED
    BY <1>0, <1>2, <2>1, Rests DEF Lands
<1>6. CASE Unload(p)
  <2>1. pc'[p] \in {"release", "fail"} /\ entry[p] \in {"load", "unload"}
    BY <1>3, <1>6, Knowing DEF Unload, Goto
  <2> QED
    BY <1>0, <1>2, <2>1, Rests DEF Lands
<1> QED
  BY <1>4, <1>5, <1>6 DEF Loads

(* The installation.  *)
LEMMA Staged ==
    ASSUME Whereabouts, NEW p \in Processes, Stage(p)
    PROVE  Lands(p)
<1>0. /\ pc[p] = "stage" /\ place[p] = "nowhere" /\ entry[p] = "promote"
      /\ UNCHANGED <<command, status, aside, journal, debris>>
  BY Knowing DEF Stage, AtStage, Whereabouts, Registry, Visits, OfPromotion
<1>1. CASE Continue(p, "unstage", "cleanup", "failed") /\ UNCHANGED <<place, graph>>
  <2>1. Quiet(p)
    BY <1>0, <1>1 DEF Quiet
  <2>2. pc'[p] = "unstage" /\ entry'[p] = "cleanup"
    BY <1>1, Knowing DEF Continue, Goto
  <2> QED
    BY <1>0, <1>1, <2>1, <2>2, QuietStep, Rests DEF Lands
<1>2. CASE /\ Moves(p, "stage") /\ graph' = [graph EXCEPT ![p] = "stage"]
           /\ Goto(p, "enter") /\ UNCHANGED <<entry, outcome>>
  <2>1. /\ place'[p] = "stage" /\ pc'[p] = "enter"
        /\ \A d \in Containers : d # p => place'[d] = place[d] /\ graph'[d] = graph[d]
    BY <1>2, Knowing DEF Moves, Goto
  <2>2. Spares(p) /\ FromOutside(p)
    BY <1>0, <2>1, Knowing DEF Spares, FromOutside
  <2>3. Files'
    BY <2>2, OutsideKeepsFiles
  <2>4. ~ Mine(p)' /\ ~ Taken(p)'
    BY <2>1 DEF Mine, Taken
  <2>5. AtPromotion(p)' /\ AtRemoval(p)' /\ Takes(p)
    BY <1>0, <1>2, <2>1, <2>4, Knowing DEF AtPromotion, AtRemoval, Takes
  <2>6. AtRecovery(p)'
    BY <2>1 DEF AtRecovery, Unjournaled
  <2>7. AtStage(p)'
    BY <1>0, <1>2, <2>1 DEF AtStage, Recovering
  <2> QED
    BY <2>2, <2>3, <2>5, <2>6, <2>7 DEF Lands, Position
<1> QED
  BY <1>1, <1>2 DEF Stage

LEMMA Unstaged ==
    ASSUME Whereabouts, NEW p \in Processes, Unstage(p)
    PROVE  Lands(p)
<1>0. /\ pc[p] = "unstage" /\ entry[p] # "promote"
      /\ UNCHANGED <<command, status, aside, journal, debris, entry>>
      /\ pc'[p] \in {"enter", "ended"}
  BY Knowing DEF Unstage, AtStage, Goto
<1>1. CASE UNCHANGED <<place, graph>>
  <2>1. Quiet(p)
    BY <1>0, <1>1 DEF Quiet
  <2> QED
    BY <1>0, <1>1, <2>1, QuietStep, Rests DEF Lands
<1>2. CASE /\ place' = [place EXCEPT ![p] = IF @ = "stage" THEN "nowhere" ELSE @]
           /\ graph' = [graph EXCEPT ![p] = IF @ = "stage" THEN "nowhere" ELSE @]
  <2>1. /\ \A d \in Containers : d # p => place'[d] = place[d] /\ graph'[d] = graph[d]
        /\ place'[p] = IF place[p] = "stage" THEN "nowhere" ELSE place[p]
        /\ graph'[p] = IF graph[p] = "stage" THEN "nowhere" ELSE graph[p]
    BY <1>2, Knowing
  <2>2. Spares(p)
    BY <1>0, <2>1, Knowing DEF Spares
  <2>3. FromOutside(p)
    BY <1>0, <2>1, Knowing DEF FromOutside
  <2>4. Files'
    BY <2>2, <2>3, OutsideKeepsFiles
  <2> QED
    BY <1>0, <2>1, <2>2, <2>3, <2>4, Knowing, Rests DEF Lands
<1> QED
  BY <1>1, <1>2 DEF Unstage

LEMMA Admitted ==
    ASSUME Whereabouts, NEW p \in Processes, AssertNoConflict(p) \/ WritePointer(p)
    PROVE  Lands(p)
<1>0. /\ pc[p] \in {"conflict", "point"} /\ pc[p] \in Inside
      /\ UNCHANGED <<command, status, entry, journal, place, debris, graph>>
      /\ journal = None
  BY Knowing DEF AssertNoConflict, WritePointer, Promoting, Inside, Operating, AtRecovery,
                 Unjournaled
<1>1. Quiet(p)
  BY <1>0 DEF Quiet
<1>2. Spares(p) /\ Files' /\ \A package : Active(package)' = Active(package)
  BY <1>1, QuietStep
<1>3. /\ pc'[p] \in {"move graph", "journal", "fail"}
      /\ pc'[p] = "journal" =>
           IF Active(command[p].package) = {} THEN aside'[p] = None
           ELSE aside'[p] \in Active(command[p].package)
  BY <1>0, Knowing DEF AssertNoConflict, WritePointer, Goto
<1>4. CASE pc'[p] = "fail"
  BY <1>0, <1>2, <1>4, Rests DEF Lands
<1>5. CASE pc'[p] \in {"move graph", "journal"}
  <2>1. ~ Mine(p)' /\ ~ Taken(p)'
    BY <1>5 DEF Mine, Taken
  <2>2. AtPromotion(p)'
    BY <1>0, <1>2, <1>3, <1>5, <2>1, Knowing, ActiveContainers DEF AtPromotion
  <2>3. AtRemoval(p)' /\ Takes(p)
    BY <1>0, <1>5, <2>1, Knowing DEF AtRemoval, Takes
  <2>4. AtRecovery(p)'
    BY <1>0, <1>5 DEF AtRecovery
  <2>5. AtStage(p)'
    BY <1>0, <1>5, Knowing DEF AtStage, Recovering
  <2> QED
    BY <1>0, <1>2, <2>2, <2>3, <2>4, <2>5 DEF Lands, Position
<1> QED
  BY <1>3, <1>4, <1>5

LEMMA GraphMoved ==
    ASSUME Whereabouts, NEW p \in Processes, MoveGraph(p)
    PROVE  Lands(p)
<1>0. /\ pc[p] = "move graph" /\ pc[p] \in Inside
      /\ UNCHANGED <<command, status, entry, aside, journal, place, debris>>
      /\ journal = None /\ entry[p] = "promote" /\ place[p] = "stage"
      /\ graph' \in {graph, [graph EXCEPT ![p] = "root"]}
      /\ pc'[p] \in {"point", "fail"}
  <2>1. /\ pc[p] = "move graph" /\ pc[p] \in Inside
        /\ UNCHANGED <<command, status, entry, aside, journal, place, debris>>
        /\ graph' \in {graph, [graph EXCEPT ![p] = "root"]}
    BY DEF MoveGraph, Promoting, Inside, Operating
  <2>2. pc'[p] \in {"point", "fail"}
    BY Knowing DEF MoveGraph, Goto
  <2>3. entry[p] = "promote"
    BY <2>1 DEF Whereabouts, Registry, Visits, OfPromotion
  <2>4. journal = None /\ place[p] = "stage"
    BY <2>1, <2>3, Knowing DEF AtRecovery, Unjournaled, AtStage
  <2> QED
    BY <2>1, <2>2, <2>3, <2>4
<1>1. \A c \in Containers : c # p => (Whole(c)' <=> Whole(c))
  BY <1>0, Knowing DEF Whole
<1>2. \A package : Active(package)' = Active(package) /\ p \notin Active(package)
  BY <1>0 DEF Active, PackageOf
<1>3. Spares(p)
  BY <1>0 DEF Spares
<1>4. Files'
  <2>1. OneActive'
    BY <1>2 DEF Whereabouts, Files, OneActive
  <2>2. ActiveWhole'
    BY <1>0, <1>1, <1>2, ActiveContainers DEF Whereabouts, Files, ActiveWhole
  <2>3. BackupWhole'
    BY <1>0 DEF BackupWhole
  <2>4. \A package \in Packages : Owed(package)' => Owed(package)
    BY <1>0 DEF Owed
  <2>5. Kept'
    BY <1>0, <1>2, <2>4 DEF Whereabouts, Files, Kept
  <2> QED
    BY <2>1, <2>2, <2>3, <2>5 DEF Files
<1>5. CASE pc'[p] = "fail"
  BY <1>0, <1>3, <1>4, <1>5, Rests DEF Lands
<1>6. CASE pc'[p] = "point"
  <2>1. ~ Mine(p)' /\ ~ Taken(p)'
    BY <1>6 DEF Mine, Taken
  <2>2. AtPromotion(p)' /\ AtRemoval(p)' /\ Takes(p)
    BY <1>0, <1>6, <2>1, Knowing DEF AtPromotion, AtRemoval, Takes
  <2>3. AtRecovery(p)'
    BY <1>0, <1>6 DEF AtRecovery
  <2>4. AtStage(p)'
    BY <1>0, <1>6, Knowing DEF AtStage, Recovering
  <2> QED
    BY <1>0, <1>3, <1>4, <2>2, <2>3, <2>4 DEF Lands, Position
<1> QED
  BY <1>0, <1>5, <1>6

(* With the journal the old container becomes the backup.  *)
LEMMA Journalled ==
    ASSUME Whereabouts, NEW p \in Processes, WriteJournal(p)
    PROVE  Lands(p)
<1>0. /\ pc[p] = "journal" /\ pc[p] \in Inside
      /\ UNCHANGED <<command, status, entry, aside, place, debris, graph>>
      /\ journal = None /\ entry[p] = "promote" /\ place[p] = "stage"
      /\ aside[p] = None => Active(command[p].package) = {}
      /\ aside[p] # None => aside[p] \in Active(command[p].package)
  BY Knowing DEF WriteJournal, Promoting, Inside, Operating, AtRecovery, Unjournaled, AtStage,
                 Whereabouts, Registry, Visits, OfPromotion, AtPromotion
<1>1. Spares(p)
  BY <1>0 DEF Spares
<1>2. \A package : Active(package)' = Active(package)
  BY <1>0 DEF Active, PackageOf
<1>3. \A c : Whole(c)' <=> Whole(c)
  BY <1>0 DEF Whole
<1>4. CASE journal' = journal /\ Goto(p, "fail")
  <2>1. Quiet(p)
    BY <1>0, <1>4 DEF Quiet
  <2>2. pc'[p] = "fail"
    BY <1>4, Knowing DEF Goto
  <2> QED
    BY <1>0, <2>1, <2>2, QuietStep, Rests DEF Lands
<1>5. CASE /\ journal' = [package |-> command[p].package, backup |-> aside[p]]
           /\ \/ Goto(p, IF aside[p] = None THEN "move new" ELSE "move old")
              \/ Goto(p, "fail")
  <2>1. /\ journal'.package = command[p].package /\ journal'.backup = aside[p]
        /\ journal' # None
    BY <1>5, JournalIsThere DEF Whereabouts, Registry
  <2>2. aside[p] # None =>
          /\ aside[p] \in Containers /\ place[aside[p]] = "active"
          /\ PackageOf(aside[p]) = command[p].package /\ Whole(aside[p])
    BY <1>0, Knowing DEF Active, Whereabouts, Files, ActiveWhole
  <2>3. Files'
    <3>1. OneActive'
      BY <1>2 DEF Whereabouts, Files, OneActive
    <3>2. ActiveWhole'
      BY <1>0, <1>2, <1>3 DEF Whereabouts, Files, ActiveWhole
    <3>3. BackupWhole'
      BY <1>0, <1>3, <2>1, <2>2 DEF BackupWhole, PackageOf
    <3>4. \A package \in Packages : Owed(package)' => Owed(package)
      BY <1>0 DEF Owed
    <3>5. Kept'
      BY <1>0, <1>2, <2>1, <3>4 DEF Whereabouts, Files, Kept
    <3> QED
      BY <3>1, <3>2, <3>3, <3>5 DEF Files
  <2>4. CASE pc'[p] = "fail"
    BY <1>0, <1>1, <2>3, <2>4, Rests DEF Lands
  <2>5. CASE pc'[p] = IF aside[p] = None THEN "move new" ELSE "move old"
    <3>1. Mine(p)' /\ ~ Taken(p)'
      BY <2>5 DEF Mine, Taken
    <3>2. aside[p] # None => Reverted'
      BY <1>0, <2>1, <2>2 DEF Reverted
    <3>3. aside[p] = None => BackedUp' /\ Target' = {}
      BY <1>0, <1>2, <2>1 DEF BackedUp, Target
    <3>4. AtPromotion(p)'
      BY <1>0, <1>5, <2>5, <3>1, <3>2, <3>3 DEF AtPromotion
    <3>5. AtRemoval(p)' /\ Takes(p)
      BY <1>0, <2>5, <3>1, Knowing DEF AtRemoval, Takes
    <3>6. AtRecovery(p)'
      BY <2>5 DEF AtRecovery, Unjournaled
    <3>7. AtStage(p)'
      BY <1>0, <2>5, Knowing DEF AtStage, Recovering
    <3> QED
      BY <1>0, <1>1, <2>3, <3>4, <3>5, <3>6, <3>7 DEF Lands, Position
  <2> QED
    BY <1>5, <2>4, <2>5, Knowing DEF Goto
<1> QED
  BY <1>0, <1>4, <1>5 DEF WriteJournal

(* The steps that carry a promotion out, or undo it. *)
LEMMA MineNow ==
    ASSUME Whereabouts, NEW p \in Processes, Mine(p)
    PROVE  /\ journal # None /\ journal.package = command[p].package
           /\ journal.backup = aside[p] /\ pc[p] \in Inside
           /\ journal.package \in Packages
           /\ aside[p] # None =>
                /\ aside[p] \in Containers /\ PackageOf(aside[p]) = journal.package
                /\ Whole(aside[p]) /\ place[aside[p]] \in {"active", "backup"}
           /\ entry[p] = "promote"
<1>1. journal = [package |-> command[p].package, backup |-> aside[p]]
  BY Knowing DEF AtPromotion
<1>2. journal # None
  BY <1>1, JournalIsThere DEF Whereabouts, Registry
<1>3. /\ journal.package = command[p].package /\ journal.backup = aside[p]
      /\ journal.package \in Packages
  BY <1>1, Knowing
<1>4. aside[p] # None =>
        /\ aside[p] \in Containers /\ PackageOf(aside[p]) = journal.package
        /\ Whole(aside[p]) /\ place[aside[p]] \in {"active", "backup"}
  BY <1>2, <1>3, Knowing DEF Whereabouts, Files, BackupWhole
<1>5. pc[p] \in Inside /\ entry[p] = "promote"
  BY DEF Mine, Inside, Operating, Releasing, OfPromotion, Whereabouts, Registry, Visits
<1> QED
  BY <1>2, <1>3, <1>4, <1>5

(* A container of the package that the journal names moves.  *)
LEMMA PromotedFiles ==
    ASSUME Whereabouts, NEW p \in Processes, Mine(p), NEW c \in Containers, NEW to \in Places,
           Moves(c, to), PackageOf(c) = journal.package,
           UNCHANGED <<command, journal, debris, graph>>,
           c = aside[p] => to \in {"active", "backup"},
           c \in Processes \/ place[c] # "nowhere",
           to = "active" => Target \subseteq {c}
    PROVE  Files'
<1>0. /\ journal # None /\ journal.backup = aside[p] /\ journal.package \in Packages
      /\ aside[p] # None =>
           /\ aside[p] \in Containers /\ PackageOf(aside[p]) = journal.package
           /\ Whole(aside[p]) /\ place[aside[p]] \in {"active", "backup"}
  BY MineNow
<1>1. /\ place'[c] = to
      /\ \A d \in Containers : d # c => place'[d] = place[d]
      /\ to # "active" => \A package : Active(package)' = Active(package) \ {c}
      /\ to = "active" => \A package :
           Active(package)' =
             Active(package) \union (IF PackageOf(c) = package THEN {c} ELSE {})
  BY MovedStep
<1>2. \A d \in Containers : Whole(d)' <=> Whole(d)
  BY DEF Whole
<1>3. \A package \in Packages : package # journal.package => Active(package)' = Active(package)
  BY <1>1 DEF Active
<1>4. OneActive'
  <2> SUFFICES ASSUME NEW package \in Packages,
                      NEW d \in Active(package)', NEW e \in Active(package)'
               PROVE  d = e
    BY DEF OneActive
  <2>1. CASE package # journal.package \/ to # "active"
    BY <1>1, <1>3, <2>1 DEF Whereabouts, Files, OneActive
  <2>2. CASE package = journal.package /\ to = "active"
    BY <1>1, <2>2 DEF Target
  <2> QED
    BY <2>1, <2>2
<1>5. ActiveWhole'
  BY <1>0, <1>2, <1>3, ActiveContainers DEF Whereabouts, Files, ActiveWhole
<1>6. BackupWhole'
  BY <1>0, <1>1, <1>2 DEF BackupWhole, PackageOf
<1>7. \A package \in Packages : Owed(package)' => Owed(package)
  BY <1>1, Knowing DEF Owed
<1>8. Kept'
  BY <1>0, <1>3, <1>7 DEF Whereabouts, Files, Kept
<1> QED
  BY <1>4, <1>5, <1>6, <1>8 DEF Files

(* The rest of the invariant at such a step. *)
LEMMA StillPromoting ==
    ASSUME Whereabouts, NEW p \in Processes, Mine(p), Mine(p)',
           UNCHANGED <<command, entry, aside, journal>>,
           pc'[p] \in {"move old", "unjournal"} => Reverted',
           pc'[p] \in {"move new", "give back"} => BackedUp' /\ Target' = {},
           pc'[p] \in {"accept", "take back", "release"} => BackedUp' /\ place'[p] = "active",
           pc'[p] \in {"move old", "move new"} => place'[p] = "stage"
    PROVE  Position(p)' /\ Takes(p)
<1>1. /\ entry[p] = "promote"
      /\ journal = [package |-> command[p].package, backup |-> aside[p]]
  BY MineNow, Knowing DEF AtPromotion
<1>2. /\ pc'[p] \in {"move old", "move new", "accept", "take back", "give back", "unjournal",
                     "release"}
      /\ ~ Taken(p)'
  BY <1>1 DEF Mine, Taken
<1>3. AtRecovery(p)'
  BY <1>2 DEF AtRecovery, Unjournaled
<1>4. AtPromotion(p)'
  BY <1>1, <1>2 DEF AtPromotion
<1>5. AtRemoval(p)' /\ Takes(p)
  BY <1>1, <1>2 DEF AtRemoval, Takes
<1>6. AtStage(p)'
  BY <1>1, <1>2 DEF AtStage, Recovering
<1> QED
  BY <1>3, <1>4, <1>5, <1>6 DEF Position

LEMMA OldMoved ==
    ASSUME Whereabouts, NEW p \in Processes, MoveOld(p)
    PROVE  Lands(p)
<1>0. /\ pc[p] = "move old" /\ Mine(p)
      /\ UNCHANGED <<command, status, entry, aside, journal, debris, graph>>
  BY DEF MoveOld, Promoting, Mine
<1>1. /\ journal.backup = aside[p] /\ aside[p] # None /\ aside[p] \in Containers
      /\ PackageOf(aside[p]) = journal.package /\ pc[p] \in Inside
      /\ journal.package \in Packages
  BY <1>0, MineNow, Knowing DEF OnAside
<1>2. place[aside[p]] = "active" /\ place[p] = "stage" /\ Reverted
  BY <1>0, <1>1, MineNow, Knowing DEF AtPromotion, AtStage, Reverted
<1>3. \/ Moves(aside[p], "backup") /\ pc'[p] \in {"move new", "give back"}
      \/ UNCHANGED place /\ pc'[p] = "unjournal"
  BY Knowing DEF MoveOld, Renames, Goto
<1>4. CASE UNCHANGED place /\ pc'[p] = "unjournal"
  <2>1. Quiet(p) /\ Mine(p)'
    BY <1>0, <1>4 DEF Quiet, Mine
  <2>2. Spares(p) /\ Files' /\ Reverted'
    BY <1>2, <2>1, QuietStep
  <2>3. Position(p)' /\ Takes(p)
    BY <1>0, <1>4, <2>1, <2>2, StillPromoting
  <2> QED
    BY <1>1, <2>2, <2>3 DEF Lands
<1>5. CASE Moves(aside[p], "backup") /\ pc'[p] \in {"move new", "give back"}
  <2>1. /\ place'[aside[p]] = "backup"
        /\ \A d \in Containers : d # aside[p] => place'[d] = place[d]
        /\ \A package : Active(package)' = Active(package) \ {aside[p]}
    BY <1>0, <1>1, <1>5, MovedStep DEF Places
  <2>2. Files'
    BY <1>0, <1>1, <1>2, <1>5, PromotedFiles DEF Places
  <2>3. Spares(p)
    BY <1>0, <1>2, <2>1, Knowing DEF Spares
  <2>4. BackedUp' /\ Target' = {}
    <3>1. \A d \in Target : d = aside[p]
      BY <1>1, <1>2 DEF Whereabouts, Files, OneActive, Target, Active
    <3>2. Target' = Target \ {aside[p]}
      BY <1>0, <2>1 DEF Target
    <3> QED
      BY <1>0, <1>1, <2>1, <3>1, <3>2 DEF BackedUp
  <2>5. Mine(p)' /\ place'[p] = "stage"
    BY <1>2, <1>5, <2>1, Knowing DEF Mine
  <2>6. Position(p)' /\ Takes(p)
    BY <1>0, <1>5, <2>4, <2>5, StillPromoting
  <2> QED
    BY <1>1, <2>2, <2>3, <2>6 DEF Lands
<1> QED
  BY <1>3, <1>4, <1>5

LEMMA NewMoved ==
    ASSUME Whereabouts, NEW p \in Processes, MoveNew(p)
    PROVE  Lands(p)
<1>0. /\ pc[p] = "move new" /\ Mine(p)
      /\ UNCHANGED <<command, status, entry, aside, journal, debris, graph>>
  BY DEF MoveNew, Promoting, Mine
<1>1. /\ journal.backup = aside[p] /\ PackageOf(p) = journal.package /\ pc[p] \in Inside
      /\ journal.package \in Packages /\ p \in Containers
  BY <1>0, MineNow, Knowing
<1>2. place[p] = "stage" /\ BackedUp /\ Target = {} /\ aside[p] # p
  <2>1. BackedUp /\ Target = {}
    BY <1>0, Knowing DEF AtPromotion
  <2>2. place[p] = "stage"
    BY <1>0, MineNow, Knowing DEF AtStage
  <2> QED
    BY <1>1, <2>1, <2>2, Knowing DEF BackedUp
<1>3. \/ Moves(p, "active") /\ pc'[p] \in {"accept", "take back"}
      \/ UNCHANGED place /\ pc'[p] = GiveBackIfMoved(p)
  BY Knowing DEF MoveNew, Renames, Goto, GiveBackIfMoved
<1>4. CASE UNCHANGED place /\ pc'[p] = GiveBackIfMoved(p)
  <2>1. Quiet(p) /\ Mine(p)'
    BY <1>0, <1>4 DEF Quiet, Mine, GiveBackIfMoved
  <2>2. Spares(p) /\ Files' /\ BackedUp' /\ Target' = {}
    BY <1>2, <2>1, QuietStep
  <2>3. /\ pc'[p] = "unjournal" => Reverted'
        /\ pc'[p] \in {"unjournal", "give back"}
    BY <1>0, <1>1, <1>4, <2>2 DEF GiveBackIfMoved, Reverted
  <2>4. Position(p)' /\ Takes(p)
    BY <1>0, <2>1, <2>2, <2>3, StillPromoting
  <2> QED
    BY <1>1, <2>2, <2>4 DEF Lands
<1>5. CASE Moves(p, "active") /\ pc'[p] \in {"accept", "take back"}
  <2>1. /\ place'[p] = "active"
        /\ \A d \in Containers : d # p => place'[d] = place[d]
    BY <1>0, <1>1, <1>5, MovedStep DEF Places
  <2>2. Files'
    BY <1>0, <1>1, <1>2, <1>5, PromotedFiles DEF Places
  <2>3. Spares(p)
    BY <1>0, <1>2, <2>1, Knowing DEF Spares
  <2>4. BackedUp'
    BY <1>0, <1>1, <1>2, <2>1, MineNow DEF BackedUp
  <2>5. Mine(p)'
    BY <1>5 DEF Mine
  <2>6. Position(p)' /\ Takes(p)
    BY <1>0, <1>5, <2>1, <2>4, <2>5, StillPromoting
  <2> QED
    BY <1>1, <2>2, <2>3, <2>6 DEF Lands
<1> QED
  BY <1>3, <1>4, <1>5

LEMMA Accepted ==
    ASSUME Whereabouts, NEW p \in Processes, Accept(p)
    PROVE  Lands(p)
<1>0. /\ pc[p] = "accept" /\ Mine(p)
      /\ UNCHANGED <<command, status, entry, aside, journal, place, debris, graph>>
      /\ pc'[p] \in {"release", "take back"}
  BY Knowing DEF Accept, Promoting, Mine, Goto
<1>1. Quiet(p) /\ Mine(p)' /\ pc[p] \in Inside
  BY <1>0, MineNow DEF Quiet, Mine
<1>2. BackedUp /\ place[p] = "active"
  BY <1>0, Knowing DEF AtPromotion
<1>3. Spares(p) /\ Files' /\ BackedUp' /\ place'[p] = "active"
  BY <1>0, <1>1, <1>2, QuietStep
<1>4. Position(p)' /\ Takes(p)
  BY <1>0, <1>1, <1>3, StillPromoting
<1> QED
  BY <1>1, <1>3, <1>4 DEF Lands

LEMMA BackTaken ==
    ASSUME Whereabouts, NEW p \in Processes, TakeBack(p)
    PROVE  Lands(p)
<1>0. /\ pc[p] = "take back" /\ Mine(p)
      /\ UNCHANGED <<command, status, entry, aside, journal, debris, graph>>
  BY DEF TakeBack, Promoting, Mine
<1>1. /\ journal.backup = aside[p] /\ PackageOf(p) = journal.package /\ pc[p] \in Inside
      /\ journal.package \in Packages /\ p \in Containers
  BY <1>0, MineNow, Knowing
<1>2. place[p] = "active" /\ BackedUp /\ aside[p] # p
  <2>1. place[p] = "active" /\ BackedUp
    BY <1>0, Knowing DEF AtPromotion
  <2> QED
    BY <1>1, <2>1, Knowing DEF BackedUp
<1>3. \/ Moves(p, "stage") /\ pc'[p] = GiveBackIfMoved(p)
      \/ UNCHANGED place /\ pc'[p] = "fail"
  BY Knowing DEF TakeBack, Goto, GiveBackIfMoved
<1>4. CASE UNCHANGED place /\ pc'[p] = "fail"
  <2>1. Quiet(p)
    BY <1>0, <1>4 DEF Quiet
  <2> QED
    BY <1>0, <1>4, <2>1, QuietStep, Rests DEF Lands
<1>5. CASE Moves(p, "stage") /\ pc'[p] = GiveBackIfMoved(p)
  <2>1. /\ place'[p] = "stage"
        /\ \A d \in Containers : d # p => place'[d] = place[d]
        /\ \A package : Active(package)' = Active(package) \ {p}
    BY <1>0, <1>1, <1>5, MovedStep DEF Places
  <2>2. Files'
    BY <1>0, <1>1, <1>2, <1>5, PromotedFiles DEF Places
  <2>3. Spares(p)
    BY <1>0, <1>2, <2>1, Knowing DEF Spares
  <2>4. BackedUp' /\ Target' = {}
    <3>1. \A d \in Target : d = p
      BY <1>1, <1>2 DEF Whereabouts, Files, OneActive, Target, Active
    <3>2. Target' = Target \ {p}
      BY <1>0, <2>1 DEF Target
    <3> QED
      BY <1>0, <1>1, <1>2, <2>1, <3>1, <3>2, MineNow DEF BackedUp
  <2>5. /\ pc'[p] = "unjournal" => Reverted'
        /\ pc'[p] \in {"unjournal", "give back"}
    BY <1>0, <1>1, <1>5, <2>4 DEF GiveBackIfMoved, Reverted
  <2>6. Mine(p)'
    BY <2>5 DEF Mine
  <2>7. Position(p)' /\ Takes(p)
    BY <1>0, <2>4, <2>5, <2>6, StillPromoting
  <2> QED
    BY <1>1, <2>2, <2>3, <2>7 DEF Lands
<1> QED
  BY <1>3, <1>4, <1>5

LEMMA BackGiven ==
    ASSUME Whereabouts, NEW p \in Processes, GiveBack(p)
    PROVE  Lands(p)
<1>0. /\ pc[p] = "give back" /\ Mine(p)
      /\ UNCHANGED <<command, status, entry, aside, journal, debris, graph>>
  BY DEF GiveBack, Promoting, Mine
<1>1. /\ journal.backup = aside[p] /\ aside[p] # None /\ aside[p] \in Containers
      /\ PackageOf(aside[p]) = journal.package /\ pc[p] \in Inside
      /\ journal.package \in Packages
  BY <1>0, MineNow, Knowing DEF OnAside
<1>2. place[aside[p]] = "backup" /\ Target = {}
  BY <1>0, <1>1, Knowing DEF AtPromotion, BackedUp
<1>3. \/ Moves(aside[p], "active") /\ pc'[p] \in {"unjournal", "fail"}
      \/ UNCHANGED place /\ pc'[p] = "fail"
  BY Knowing DEF GiveBack, Renames, Goto
<1>4. CASE UNCHANGED place /\ pc'[p] = "fail"
  <2>1. Quiet(p)
    BY <1>0, <1>4 DEF Quiet
  <2> QED
    BY <1>0, <1>4, <2>1, QuietStep, Rests DEF Lands
<1>5. CASE Moves(aside[p], "active") /\ pc'[p] \in {"unjournal", "fail"}
  <2>1. /\ place'[aside[p]] = "active"
        /\ \A d \in Containers : d # aside[p] => place'[d] = place[d]
    BY <1>0, <1>1, <1>5, MovedStep DEF Places
  <2>2. Files'
    BY <1>0, <1>1, <1>2, <1>5, PromotedFiles DEF Places
  <2>3. Spares(p)
    BY <1>0, <1>2, <2>1, Knowing DEF Spares
  <2>4. CASE pc'[p] = "fail"
    BY <1>0, <1>1, <1>2, <2>1, <2>2, <2>3, <2>4, Knowing, Rests DEF Lands
  <2>5. CASE pc'[p] = "unjournal"
    <3>1. Reverted'
      BY <1>0, <1>1, <2>1 DEF Reverted
    <3>2. Mine(p)'
      BY <2>5 DEF Mine
    <3>3. Position(p)' /\ Takes(p)
      BY <1>0, <2>5, <3>1, <3>2, StillPromoting
    <3> QED
      BY <1>1, <2>2, <2>3, <3>3 DEF Lands
  <2> QED
    BY <1>5, <2>4, <2>5
<1> QED
  BY <1>3, <1>4, <1>5

LEMMA Unjournalled ==
    ASSUME Whereabouts, NEW p \in Processes, Unjournal(p)
    PROVE  Lands(p)
<1>0. /\ pc[p] = "unjournal" /\ Mine(p)
      /\ UNCHANGED <<command, status, entry, aside, place, debris, graph>>
      /\ journal' \in {None, journal} /\ pc'[p] = "fail"
  BY Knowing DEF Unjournal, Promoting, Mine, Goto
<1>1. journal # None /\ Reverted /\ pc[p] \in Inside
  BY <1>0, MineNow, Knowing DEF AtPromotion
<1>2. Files'
  BY <1>0, <1>1, JournalDropped
<1>3. Spares(p)
  BY <1>0 DEF Spares
<1> QED
  BY <1>0, <1>1, <1>2, <1>3, Rests DEF Lands

(* The removal.  *)
LEMMA Found ==
    ASSUME Whereabouts, NEW p \in Processes, Find(p)
    PROVE  Lands(p)
<1>0. /\ pc[p] = "find" /\ pc[p] \in Inside
      /\ UNCHANGED <<command, status, entry, journal, place, debris, graph>>
      /\ journal = None
  BY Knowing DEF Find, Removing, Inside, Operating, AtRecovery, Unjournaled
<1>1. Quiet(p)
  BY <1>0 DEF Quiet
<1>2. Spares(p) /\ Files' /\ \A package : Active(package)' = Active(package)
  BY <1>1, QuietStep
<1>3. \/ pc'[p] = "move away" /\ aside'[p] \in Active(command[p].package)
      \/ pc'[p] = "fail"
  BY Knowing DEF Find, Goto
<1>4. CASE pc'[p] = "fail"
  BY <1>0, <1>2, <1>4, Rests DEF Lands
<1>5. CASE pc'[p] = "move away" /\ aside'[p] \in Active(command[p].package)
  <2>1. ~ Mine(p)' /\ ~ Taken(p)'
    BY <1>5 DEF Mine, Taken
  <2>2. AtPromotion(p)'
    BY <1>5, <2>1 DEF AtPromotion
  <2>3. AtRemoval(p)' /\ Takes(p)
    BY <1>0, <1>2, <1>5, <2>1, Knowing DEF AtRemoval, Takes
  <2>4. AtRecovery(p)'
    BY <1>0, <1>5 DEF AtRecovery
  <2>5. AtStage(p)'
    BY <1>0, <1>5, Knowing DEF AtStage, Recovering
  <2> QED
    BY <1>0, <1>2, <2>2, <2>3, <2>4, <2>5 DEF Lands, Position
<1> QED
  BY <1>3, <1>4, <1>5

(* The package that p removes is owed to nobody.  *)
LEMMA RemovedIsNotOwed ==
    ASSUME Whereabouts, NEW p \in Processes, entry[p] = "remove", command' = command
    PROVE  \A package \in Packages : Owed(package) \/ Owed(package)' =>
             package # command[p].package
<1>1. command[p] \in Commands /\ command[p].kind = "remove"
  BY Knowing DEF AtRemoval
<1>2. command[p] = [kind |-> "remove", package |-> command[p].package]
  BY <1>1 DEF Commands
<1> QED
  BY <1>2 DEF Owed

LEMMA AwayMoved ==
    ASSUME Whereabouts, NEW p \in Processes, MoveAway(p)
    PROVE  Lands(p)
<1>0. /\ pc[p] = "move away" /\ pc[p] \in Inside /\ entry[p] = "remove"
      /\ UNCHANGED <<command, status, entry, aside, journal, debris, graph>>
      /\ journal = None
  <2>1. /\ pc[p] = "move away" /\ pc[p] \in Inside
        /\ UNCHANGED <<command, status, entry, aside, journal, debris, graph>>
    BY DEF MoveAway, Removing, Inside, Operating
  <2>2. journal = None
    BY <2>1, Knowing DEF AtRecovery, Unjournaled
  <2>3. entry[p] = "remove"
    BY <2>1 DEF Whereabouts, Registry, Visits
  <2> QED
    BY <2>1, <2>2, <2>3
<1>1. /\ aside[p] \in Active(command[p].package)
      /\ aside[p] \in Containers /\ place[aside[p]] = "active"
      /\ PackageOf(aside[p]) = command[p].package /\ command[p].package \in Packages
  BY <1>0, Knowing DEF AtRemoval, Active
<1>2. /\ \A d \in Active(command[p].package) : d = aside[p]
      /\ Whole(aside[p])
  BY <1>0, <1>1 DEF Whereabouts, Files, OneActive, ActiveWhole
<1>3. \/ Moves(aside[p], "inactive") /\ pc'[p] \in {"release", "bring back"}
      \/ UNCHANGED place /\ pc'[p] = "fail"
  BY Knowing DEF MoveAway, Renames, Goto
<1>4. CASE UNCHANGED place /\ pc'[p] = "fail"
  <2>1. Quiet(p)
    BY <1>0, <1>4 DEF Quiet
  <2> QED
    BY <1>0, <1>4, <2>1, QuietStep, Rests DEF Lands
<1>5. CASE Moves(aside[p], "inactive") /\ pc'[p] \in {"release", "bring back"}
  <2>1. /\ place'[aside[p]] = "inactive"
        /\ \A d \in Containers : d # aside[p] => place'[d] = place[d]
        /\ \A package : Active(package)' = Active(package) \ {aside[p]}
    BY <1>0, <1>1, <1>5, MovedStep DEF Places
  <2>2. \A c : Whole(c)' <=> Whole(c)
    BY <1>0 DEF Whole
  <2>3. Files'
    <3>1. OneActive'
      BY <2>1 DEF Whereabouts, Files, OneActive
    <3>2. ActiveWhole'
      BY <1>0, <2>1, <2>2 DEF Whereabouts, Files, ActiveWhole
    <3>3. BackupWhole'
      BY <1>0 DEF BackupWhole
    <3>4. \A package \in Packages :
            Owed(package)' => Owed(package) /\ package # command[p].package
      <4>1. \A package \in Packages : Owed(package)' => Owed(package)
        BY <1>0, <1>1, <2>1, Knowing DEF Owed
      <4>2. \A package \in Packages : Owed(package)' => package # command[p].package
        BY <1>0, RemovedIsNotOwed
      <4> QED
        BY <4>1, <4>2
    <3>5. \A package \in Packages : package # command[p].package =>
            Active(package)' = Active(package)
      BY <1>1, <2>1 DEF Active
    <3>6. Kept'
      BY <1>0, <3>4, <3>5 DEF Whereabouts, Files, Kept
    <3> QED
      BY <3>1, <3>2, <3>3, <3>6 DEF Files
  <2>4. Spares(p)
    BY <1>0, <1>1, <2>1, Knowing DEF Spares
  <2>5. ~ Mine(p)' /\ Taken(p)'
    BY <1>0, <1>5 DEF Mine, Taken
  <2>6. AtPromotion(p)'
    BY <1>5, <2>5 DEF AtPromotion
  <2>7. AtRemoval(p)'
    <3>1. Active(command[p].package)' = {}
      BY <1>0, <1>2, <2>1
    <3>2. PackageOf(aside[p])' = PackageOf(aside[p])
      BY <1>0 DEF PackageOf
    <3> QED
      BY <1>0, <1>1, <1>2, <1>5, <2>1, <2>2, <3>1, <3>2, Knowing DEF AtRemoval
  <2>8. Takes(p)
    BY <1>0, <1>1 DEF Takes
  <2>9. AtRecovery(p)'
    BY <1>0, <1>5 DEF AtRecovery
  <2>10. AtStage(p)'
    BY <1>0, <1>5 DEF AtStage, Recovering
  <2> QED
    BY <1>0, <2>3, <2>4, <2>6, <2>7, <2>8, <2>9, <2>10 DEF Lands, Position
<1> QED
  BY <1>3, <1>4, <1>5

LEMMA BackBrought ==
    ASSUME Whereabouts, NEW p \in Processes, BringBack(p)
    PROVE  Lands(p)
<1>0. /\ pc[p] = "bring back" /\ pc[p] \in Inside /\ Taken(p)
      /\ UNCHANGED <<command, status, entry, aside, journal, debris, graph>>
      /\ pc'[p] = "fail"
  BY Knowing DEF BringBack, Removing, Inside, Operating, Taken, Renames, Goto
<1>1. /\ aside[p] \in Containers /\ place[aside[p]] = "inactive" /\ Whole(aside[p])
      /\ PackageOf(aside[p]) = command[p].package /\ command[p].package \in Packages
      /\ Active(command[p].package) = {} /\ journal = None
  <2>1. aside[p] \in Containers
    BY <1>0, Knowing DEF OnAside
  <2>2. AtRemoval(p) /\ AtRecovery(p) /\ command[p].package \in Packages
    BY Knowing
  <2> QED
    BY <1>0, <2>1, <2>2 DEF AtRemoval, Taken
<1>2. CASE UNCHANGED place
  <2>1. Quiet(p)
    BY <1>0, <1>2 DEF Quiet
  <2> QED
    BY <1>0, <1>2, <2>1, QuietStep, Rests DEF Lands
<1>3. CASE Moves(aside[p], "active")
  <2>1. /\ place'[aside[p]] = "active"
        /\ \A d \in Containers : d # aside[p] => place'[d] = place[d]
        /\ \A package : Active(package)' =
             Active(package) \union (IF command[p].package = package THEN {aside[p]} ELSE {})
    BY <1>0, <1>1, <1>3, MovedStep DEF Places
  <2>2. \A c : Whole(c)' <=> Whole(c)
    BY <1>0 DEF Whole
  <2>3. Files'
    <3>1. OneActive'
      BY <1>1, <2>1 DEF Whereabouts, Files, OneActive
    <3>2. ActiveWhole'
      BY <1>0, <1>1, <2>1, <2>2 DEF Whereabouts, Files, ActiveWhole
    <3>3. BackupWhole'
      BY <1>0, <1>1 DEF BackupWhole
    <3>4. \A package \in Packages : Owed(package)' => Owed(package)
      BY <1>0, <1>1, <2>1, Knowing DEF Owed
    <3>5. Kept'
      BY <1>0, <1>1, <2>1, <3>4 DEF Whereabouts, Files, Kept
    <3> QED
      BY <3>1, <3>2, <3>3, <3>5 DEF Files
  <2>4. Spares(p)
    BY <1>0, <1>1, <2>1, Knowing DEF Spares
  <2> QED
    BY <1>0, <1>1, <2>1, <2>3, <2>4, Knowing, Rests DEF Lands
<1> QED
  BY <1>2, <1>3 DEF BringBack, Renames

LEMMA Discarded ==
    ASSUME Whereabouts, NEW p \in Processes, Discard(p)
    PROVE  Lands(p)
<1>0. /\ pc[p] = "discard" /\ entry[p] # "promote"
      /\ UNCHANGED <<command, status, entry, journal, graph>>
      /\ aside[p] \in Containers /\ place[aside[p]] = "inactive"
  <2>1. /\ pc[p] = "discard"
        /\ UNCHANGED <<command, status, entry, journal, graph>>
    BY DEF Discard, Removing
  <2>2. aside[p] \in Containers
    BY <2>1, Knowing DEF OnAside
  <2>3. entry[p] # "promote"
    BY <2>1, Knowing DEF AtStage
  <2>4. place[aside[p]] = "inactive"
    BY <2>1, Knowing DEF AtRemoval
  <2> QED
    BY <2>1, <2>2, <2>3, <2>4
<1>1. /\ debris' = debris \union {aside[p]}
      /\ \/ pc'[p] = "discard" /\ place' = place /\ aside'[p] = aside[p]
         \/ pc'[p] = "enter" /\ place' = place
         \/ pc'[p] = "enter" /\ place' = [place EXCEPT ![aside[p]] = "nowhere"]
  BY <1>0, Knowing DEF Discard, Deletes, Goto, Moves
<1>2. /\ \A d \in Containers : d # aside[p] =>
           place'[d] = place[d] /\ (d \in debris' <=> d \in debris)
      /\ place'[aside[p]] \in {"inactive", "nowhere"}
      /\ pc'[p] = "discard" => place'[aside[p]] = "inactive"
  BY <1>0, <1>1, Knowing
<1>3. FromOutside(p)
  BY <1>0, <1>2, Knowing DEF FromOutside
<1>4. Spares(p)
  BY <1>0, <1>2, Knowing DEF Spares
<1>5. Files'
  BY <1>3, <1>4, OutsideKeepsFiles
<1>6. CASE pc'[p] = "enter"
  BY <1>0, <1>2, <1>3, <1>4, <1>5, <1>6, Knowing, Rests DEF Lands
<1>7. CASE pc'[p] = "discard" /\ aside'[p] = aside[p]
  <2>1. ~ Mine(p)' /\ ~ Taken(p)'
    BY <1>7 DEF Mine, Taken
  <2>2. AtPromotion(p)'
    BY <1>7, <2>1 DEF AtPromotion
  <2>3. AtRemoval(p)' /\ Takes(p)
    BY <1>0, <1>2, <1>7, <2>1, Knowing DEF AtRemoval, Takes
  <2>4. AtRecovery(p)'
    BY <1>7 DEF AtRecovery, Unjournaled
  <2>5. AtStage(p)'
    BY <1>0, <1>2, <1>7, Knowing DEF AtStage, Recovering
  <2> QED
    BY <1>3, <1>4, <1>5, <2>2, <2>3, <2>4, <2>5 DEF Lands, Position
<1> QED
  BY <1>1, <1>6, <1>7

-----------------------------------------------------------------------------
(* The invariant holds at first. *)
LEMMA StartWhereabouts == Init => Whereabouts
<1> SUFFICES ASSUME Init
             PROVE  Whereabouts
  OBVIOUS
<1>0. Registry
  BY Start
<1>1. /\ \A p \in Processes : pc[p] = "enter" /\ entry[p] # "promote"
      /\ \A p \in Processes : entry[p] = "remove" => command[p].kind = "remove"
      /\ journal = None /\ debris = {}
  BY DEF Init, Commands, FirstEntry
<1>2. PICK installed \in SUBSET Packages :
        /\ place = [c \in Containers |-> IF c \in installed THEN "active" ELSE "nowhere"]
        /\ graph = [c \in Containers |-> IF c \in installed THEN "root" ELSE "nowhere"]
  BY DEF Init
<1>3. /\ \A package : \A c \in Active(package) :
           c = package /\ c \in installed /\ Whole(c)
      /\ \A package \in installed : package \in Active(package)
      /\ \A package \in Packages : place[package] # "nowhere" => package \in installed
      /\ \A p \in Processes : place[p] = "nowhere"
  BY <1>1, <1>2, PluginsAssumption DEF Active, PackageOf, Whole, Containers
<1>4. Files
  <2>1. OneActive /\ ActiveWhole
    BY <1>3 DEF OneActive, ActiveWhole
  <2>2. BackupWhole /\ Kept
    BY <1>1, <1>3 DEF BackupWhole, Kept, Owed
  <2> QED
    BY <2>1, <2>2 DEF Files
<1>5. ASSUME NEW p \in Processes
      PROVE  Position(p)
  <2>1. ~ Mine(p) /\ ~ Taken(p) /\ pc[p] = "enter"
    BY <1>1 DEF Mine, Taken
  <2>2. AtRecovery(p)
    BY <2>1 DEF AtRecovery, Unjournaled
  <2>3. AtPromotion(p)
    BY <2>1 DEF AtPromotion
  <2>4. AtRemoval(p)
    BY <1>1, <2>1 DEF AtRemoval
  <2>5. AtStage(p)
    BY <1>1, <1>3, <2>1 DEF AtStage
  <2> QED
    BY <2>2, <2>3, <2>4, <2>5 DEF Position
<1>6. Distinct
  BY <1>1 DEF Distinct
<1> QED
  BY <1>0, <1>4, <1>5, <1>6 DEF Whereabouts

(* A step of p. *)
Acts(p) ==
    \/ Enter(p) \/ Release(p) \/ Fail(p)
    \/ Recovers(p) \/ Installs(p) \/ Loads(p) \/ Removes(p)
    \/ Crash(p)

(* Every step keeps it, if the sweep can read the pointers.  *)
LEMMA ActsLand ==
    ASSUME Whereabouts, PointersReadable \/ (faults = 0 /\ faults' = 0),
           NEW p \in Processes, Acts(p)
    PROVE  Typed' /\ Apart(p) /\ Lands(p) /\ Whereabouts'
<1>1. Registry
  BY DEF Whereabouts
<1>2. Typed' /\ Apart(p) /\ Arrives(p)
  BY <1>1, Effect DEF Acts
<1>3. Registry'
  BY <1>1, <1>2, Keeps
<1>4. Recovers(p) => Lands(p)
  BY JournalRead, ReadFailed, Judged, TargetRemoved, BackPut, RestoredChecked, Cleared,
     BackupDropped, Swept DEF Recovers
<1>5. Installs(p) => Lands(p)
  BY Staged, Unstaged, Admitted, GraphMoved, Journalled, OldMoved, NewMoved, Accepted,
     BackTaken, BackGiven, Unjournalled DEF Installs
<1>6. Removes(p) => Lands(p)
  BY Found, AwayMoved, BackBrought, Discarded DEF Removes
<1>7. Lands(p)
  BY <1>4, <1>5, <1>6, Entered, Released, Failed, LoadsLand, Crashed DEF Acts
<1> QED
  BY <1>2, <1>3, <1>7, WhereaboutsStay

(* A step that changes nothing keeps it. *)
LEMMA StutterWhereabouts ==
    ASSUME Whereabouts, UNCHANGED vars
    PROVE  Whereabouts'
<1>1. UNCHANGED <<command, pc, entry, status, aside, journal, place, debris, graph>>
  BY DEF vars
<1>2. Registry'
  BY Step DEF Whereabouts
<1>3. /\ \A package : Active(package)' = Active(package)
      /\ \A c : (Whole(c)' <=> Whole(c)) /\ PackageOf(c)' = PackageOf(c)
  BY <1>1 DEF Active, PackageOf, Whole
<1>4. Files'
  BY <1>1, <1>3 DEF Whereabouts, Files, OneActive, ActiveWhole, BackupWhole, Kept, Owed
<1>5. Distinct'
  BY <1>1 DEF Whereabouts, Distinct, Taken
<1>6. ASSUME NEW p \in Processes
      PROVE  Position(p)'
  <2>1. Position(p) /\ (Mine(p)' <=> Mine(p)) /\ (Taken(p)' <=> Taken(p))
    BY <1>1 DEF Whereabouts, Mine, Taken
  <2>2. Target' = Target
    BY <1>1, <1>3 DEF Target
  <2>3. (BackedUp' <=> BackedUp) /\ (Reverted' <=> Reverted)
    BY <1>1, <2>2 DEF BackedUp, Reverted
  <2>4. AtRecovery(p)'
    BY <1>1, <1>3, <2>1, <2>2, <2>3 DEF Position, AtRecovery
  <2>5. AtPromotion(p)'
    BY <1>1, <1>3, <2>1, <2>2, <2>3 DEF Position, AtPromotion
  <2>6. AtRemoval(p)'
    BY <1>1, <1>3, <2>1 DEF Position, AtRemoval
  <2>7. AtStage(p)'
    BY <1>1, <2>1 DEF Position, AtStage
  <2> QED
    BY <2>4, <2>5, <2>6, <2>7 DEF Position
<1> QED
  BY <1>2, <1>4, <1>5, <1>6 DEF Whereabouts

LEMMA StepWhereabouts ==
    ASSUME Whereabouts, PointersReadable \/ (faults = 0 /\ faults' = 0), [Next]_vars
    PROVE  Whereabouts'
<1>1. CASE Next
  <2>1. PICK p \in Processes : Acts(p)
    BY <1>1 DEF Next, Acts
  <2> QED
    BY <2>1, ActsLand
<1>2. CASE UNCHANGED vars
  BY <1>2, StutterWhereabouts
<1> QED
  BY <1>1, <1>2

(* The invariant, for any number of processes, packages, crashes and I/O   *)
(* errors, as long as no error keeps the sweep from reading a pointer.     *)
THEOREM Located ==
    ASSUME PointersReadable
    PROVE  Spec => []Whereabouts
<1>1. Whereabouts /\ [Next]_vars => Whereabouts'
  BY StepWhereabouts
<1> QED
  BY <1>1, StartWhereabouts, PTL DEF Spec

(* An adapter that was installed and that nobody removes is never lost,    *)
(* whatever crashes and fails (promoteStage, recoverClientPluginPromotion  *)
(* and their rollbacks).                                                   *)
THEOREM Survival ==
    ASSUME PointersReadable
    PROVE  Spec => []AdapterSurvives
<1>1. Whereabouts => AdapterSurvives
  <2> SUFFICES ASSUME Whereabouts, NEW package \in Packages, Owed(package)
               PROVE  \E c \in Containers :
                        /\ PackageOf(c) = package
                        /\ Whole(c)
                        /\ \/ place[c] = "active"
                           \/ place[c] = "backup" /\ journal # None /\ journal.backup = c
    BY DEF AdapterSurvives, Owed
  <2>1. CASE journal # None /\ journal.package = package
    <3>1. journal.backup # None
      BY <2>1 DEF Whereabouts, Files, Kept
    <3>2. journal.backup \in Containers
      BY <2>1, <3>1 DEF Whereabouts, Registry, TypeOK, Journals
    <3> QED
      BY <2>1, <3>1, <3>2 DEF Whereabouts, Files, BackupWhole
  <2>2. CASE ~ (journal # None /\ journal.package = package)
    <3>1. PICK c \in Active(package) : TRUE
      BY <2>2 DEF Whereabouts, Files, Kept
    <3>2. Whole(c)
      BY <2>2, <3>1 DEF Whereabouts, Files, ActiveWhole
    <3> QED
      BY <3>1, <3>2 DEF Active
  <2> QED
    BY <2>1, <2>2
<1> QED
  BY <1>1, Located, PTL

(* Between visits the registry is whole, or its recovery has a way to go   *)
(* that no file's state refuses (recoverClientPluginPromotion).            *)
THEOREM Recovery ==
    ASSUME PointersReadable
    PROVE  Spec => []WholeOrRecoverable
<1>1. Whereabouts => WholeOrRecoverable
  <2> SUFFICES ASSUME Whereabouts
               PROVE  WholeOrRecoverable
    OBVIOUS
  <2>1. ASSUME journal = None, NEW package \in Packages
        PROVE  /\ Cardinality(Active(package)) <= 1
               /\ \A c \in Active(package) : Whole(c)
    <3>1. \A c \in Active(package) : Whole(c)
      BY <2>1 DEF Whereabouts, Files, ActiveWhole
    <3>2. CASE Active(package) = {}
      BY <3>1, <3>2, FS_EmptySet
    <3>3. CASE Active(package) # {}
      <4>1. PICK c \in Active(package) : TRUE
        BY <3>3
      <4>2. Active(package) = {c}
        BY <4>1 DEF Whereabouts, Files, OneActive
      <4>3. Cardinality(Active(package)) = 1
        BY <4>2, FS_Singleton
      <4> QED
        BY <3>1, <4>3
    <3> QED
      BY <3>2, <3>3
  <2>2. ASSUME journal # None
        PROVE  LET target == Active(journal.package)
                   backup == {c \in {journal.backup} \ {None} : place[c] = "backup"}
               IN /\ journal.backup # None => target \union backup # {}
                  /\ \A c \in backup : Whole(c)
                  /\ journal.backup # None /\ backup = {} => \A c \in target : Whole(c)
    <3> DEFINE backup == {c \in {journal.backup} \ {None} : place[c] = "backup"}
    <3>1. journal.package \in Packages /\ journal.backup \in Containers \union {None}
      BY <2>2 DEF Whereabouts, Registry, TypeOK, Journals
    <3>2. journal.backup # None =>
            \/ place[journal.backup] = "backup" /\ journal.backup \in backup
            \/ /\ place[journal.backup] = "active"
               /\ journal.backup \in Active(journal.package)
      BY <2>2, <3>1 DEF Whereabouts, Files, BackupWhole, Active
    <3>3. \A c \in backup : Whole(c)
      BY <2>2 DEF Whereabouts, Files, BackupWhole
    <3>4. ASSUME journal.backup # None, backup = {}, NEW c \in Active(journal.package)
          PROVE  Whole(c)
      <4>1. c = journal.backup
        BY <3>1, <3>2, <3>4 DEF Whereabouts, Files, OneActive
      <4> QED
        BY <2>2, <3>4, <4>1 DEF Whereabouts, Files, BackupWhole
    <3> QED
      BY <3>2, <3>3, <3>4
  <2> QED
    BY <2>1, <2>2 DEF WholeOrRecoverable
<1> QED
  BY <1>1, Located, PTL

-----------------------------------------------------------------------------
(* Outcomes are honest and nothing is left behind, as long as no file      *)
(* operation fails.  The invariant says what becomes of a promotion that   *)
(* was accepted and who still owes the registry a sweep.                   *)

OfInstall == {"first", "promote", "confirm", "cleanup"}

(* The new container of p is complete until it was accepted or taken back. *)
Ready(p) ==
    \/ pc[p] \in {"point", "journal", "move old", "move new", "accept", "take back"}
    \/ pc[p] = "release" /\ entry[p] = "promote"

(* What a command is about at each step.  *)
Regular(p) ==
    /\ command[p].kind # "install" => entry[p] \notin OfInstall /\ place[p] = "nowhere"
    /\ place[p] = "stage" \/ entry[p] = "first" \/ pc[p] = "stage" => p \notin debris
    /\ Ready(p) => Whole(p)
    /\ pc[p] \in {"give back", "unjournal"} => place[p] = "stage"
    /\ pc[p] = "release" /\ entry[p] \notin {"promote", "unload"} => journal = None
    /\ pc[p] = "ended" => entry[p] \notin {"promote", "confirm"}
    /\ pc[p] = "unstage" => entry[p] = "cleanup"
    /\ pc[p] = "use" => entry[p] = "unload"
    /\ pc[p] = "discard" => entry[p] = "after"

(* The promotion of p was accepted and waits for its recovery.  *)
Pending(p) ==
    /\ journal # None
    /\ journal.package = command[p].package
    /\ BackedUp
    /\ place[p] = "active"
    /\ Whole(p)

(* A promotion that was accepted is recovered, and never reverted; visits  *)
(* fail only where they may.                                               *)
Sound(p) ==
    /\ entry[p] = "confirm" => p \in confirmed \/ Pending(p)
    /\ outcome[p] = "installed" => p \in confirmed
    /\ pc[p] = "remove target" =>
         \A c \in Target \intersect Processes : entry[c] = "confirm" => ~ Whole(c)
    /\ pc[p] = "fail" => entry[p] \in {"promote", "remove"} /\ place[p] \in {"nowhere", "stage"}
    /\ pc[p] = "unload" => entry[p] = "unload"

(* No process crashed.  Then no promotion is reverted but by its promoter. *)
NoCrash == \A p \in Processes : pc[p] # "crashed"

Straight(p) ==
    /\ status[p] # "reverted"
    /\ pc[p] \notin {"remove target", "put back", "check restored"}
    /\ outcome[p] = "failed" => place[p] \in {"nowhere", "stage"}
    /\ place[p] = "stage" => entry[p] = "promote" \/ (pc[p] = "unstage" /\ outcome[p] = "failed")
    /\ entry[p] = "unload" <=> outcome[p] = "loaded"
    /\ entry[p] = "promote" => outcome[p] = "none"

(* p holds leases; it sweeps before it ends, or keeps what it has loaded.  *)
Leases(p) ==
    \/ pc[p] = "release" /\ entry[p] = "load"
    \/ pc[p] = "use"
    \/ pc[p] \in {"enter", "unload"} /\ entry[p] = "unload"

Minds(p) ==
    \/ outcome[p] = "loaded"
    \/ pc[p] = "release" /\ entry[p] = "load"
    \/ pc[p] \in Recovering
    \/ pc[p] = "enter" /\ entry[p] # "unload"

(* Whatever is not at rest belongs to a step that some process is at.  *)
Drops(p, c) == pc[p] = "drop backup" /\ aside[p] = c
Disposes(p, c) == aside[p] = c /\ (Taken(p) \/ pc[p] = "discard")

Tidy ==
    /\ journal # None => \E p \in Processes : Mine(p) \/ (entry[p] = "confirm" /\ Pending(p))
    /\ \A lease \in leases : Leases(lease[1])
    /\ \A c \in Containers : place[c] = "backup" =>
         (journal # None /\ journal.backup = c) \/ \E p \in Processes : Drops(p, c)
    /\ \A c \in Containers : place[c] = "inactive" => \E p \in Processes : Disposes(p, c)
    /\ \A c \in Packages : place[c] # "stage"
    /\ \A c \in Containers : graph[c] = "root" /\ place[c] = "nowhere" =>
         \E p \in Processes : Minds(p)

Honest ==
    /\ Whereabouts
    /\ faults = 0
    /\ \A p \in Processes : Regular(p) /\ Sound(p)
    /\ NoCrash => Tidy /\ \A p \in Processes : Straight(p)

-----------------------------------------------------------------------------
(* What a step of p leaves to the others.  *)
Frame(p) ==
    /\ \A q \in Processes : q # p => outcome'[q] = outcome[q]
    /\ confirmed \subseteq confirmed'
    /\ \A c \in Containers : c # p /\ place'[c] = "stage" => place[c] = "stage"
    /\ \A c \in debris' : c \in debris \/ place[c] \in {"active", "backup", "inactive"}
    /\ pc[p] \notin Inside =>
         /\ entry'[p] = "confirm" => entry[p] = "confirm"
         /\ \A c \in Containers :
              c # p /\ place[c] \in {"stage", "active"} /\ Whole(c) => Whole(c)'

(* What p itself can say for certain after the step.  *)
Certain(p) ==
    /\ entry'[p] = "confirm" => entry[p] = "confirm" \/ Pending(p)'
    /\ outcome'[p] = "installed" => p \in confirmed'
    /\ pc'[p] = "remove target" =>
         \A c \in Target' \intersect Processes : entry'[c] = "confirm" => ~ Whole(c)'
    /\ pc'[p] = "fail" =>
         entry'[p] \in {"promote", "remove"} /\ place'[p] \in {"nowhere", "stage"}
    /\ pc'[p] = "unload" => entry'[p] = "unload"

(* What is p's after the step was so before, or is at a step of p.  *)
Clean(p) ==
    /\ journal' # None =>
         /\ journal' = journal \/ Mine(p)'
         /\ Mine(p) => Mine(p)' \/ entry'[p] = "confirm"
    /\ journal # None /\ entry[p] = "confirm" => entry'[p] = "confirm"
    /\ \A lease \in leases' : lease \in leases \/ lease[1] = p
    /\ \A lease \in leases' : lease[1] = p => Leases(p)'
    /\ \A c \in Containers : place'[c] = "backup" =>
         \/ journal' # None /\ journal'.backup = c
         \/ Drops(p, c)'
         \/ place[c] = "backup" /\ journal' = journal /\ ~ Drops(p, c)
    /\ \A c \in Containers : place'[c] = "inactive" =>
         \/ Disposes(p, c)'
         \/ place[c] = "inactive" /\ ~ Disposes(p, c)
    /\ \A c \in Containers : graph'[c] = "root" /\ place'[c] = "nowhere" =>
         \/ Minds(p)'
         \/ \E q \in Processes : q # p /\ Minds(q)
         \/ graph[c] = "root" /\ place[c] = "nowhere" /\ ~ Minds(p)

(* What is to be shown of each action.  *)
Behaves(p) ==
    /\ Frame(p)
    /\ Regular(p)'
    /\ Certain(p)
    /\ NoCrash /\ pc'[p] # "crashed" => Straight(p)' /\ Clean(p)

(* What is known before and after a step in which no file operation fails. *)
Stepping(p) ==
    /\ Honest
    /\ faults' = 0
    /\ Whereabouts'
    /\ Typed'
    /\ Apart(p)
    /\ Lands(p)

(* While a promotion waits, a step leaves it so or confirms it.  *)
LEMMA PendingStays ==
    ASSUME NEW p \in Processes, Stepping(p), Acts(p),
           NEW q \in Processes, entry[q] = "confirm", Pending(q)
    PROVE  Pending(q)' \/ (q \in confirmed' /\ journal' = None)
<1>0. /\ command' = command
      /\ pc \in [Processes -> Steps]
      /\ Regular(p) /\ Sound(p) /\ AtRecovery(p) /\ AtPromotion(p)
      /\ ~ Fault
      /\ q \in Containers /\ PackageOf(q) = journal.package /\ q \in Target
      /\ journal # None /\ journal.package \in Packages
      /\ journal.backup \in Containers \union {None}
  <2>1. ~ Fault
    BY NoFault DEF Stepping, Honest
  <2> QED
    BY <2>1, Knowing DEF Stepping, Honest, Lands, Spares, Pending, Target, Active
<1>1. ASSUME UNCHANGED <<journal, place, debris, graph>>
      PROVE  Pending(q)'
    BY <1>0, <1>1 DEF Pending, BackedUp, Whole
<1>2. CASE pc[p] \notin Inside
  <2>1. FromOutside(p)
    BY <1>2 DEF Stepping, Lands
  <2> QED
    BY <1>0, <2>1 DEF FromOutside, Pending, BackedUp, Whole
<1>3. ~ Reverted /\ Target # {} /\ BackedUp
  BY <1>0 DEF Pending, Reverted, BackedUp
<1>4. pc[p] \notin Unjournaled \union
                  {"remove target", "put back", "check restored", "move old", "move new",
                   "give back", "unjournal"}
  <2>1. pc[p] # "remove target"
    BY <1>0 DEF Sound, Pending
  <2> QED
    BY <1>0, <1>3, <2>1 DEF AtRecovery, AtPromotion
<1>5. pc[p] \notin {"accept", "take back"} /\ ~ (pc[p] = "release" /\ entry[p] = "promote")
  <2> SUFFICES ASSUME pc[p] \in {"accept", "take back"}
                        \/ (pc[p] = "release" /\ entry[p] = "promote")
               PROVE  FALSE
    OBVIOUS
  <2>1. Mine(p) /\ entry[p] = "promote"
    BY DEF Mine, Stepping, Honest, Whereabouts, Registry, Visits, OfPromotion
  <2>2. place[p] = "active" /\ PackageOf(p) = journal.package /\ p \in Containers
    <3>1. PackageOf(p) = command[p].package /\ p \in Containers
      BY Knowing DEF Stepping, Honest
    <3>2. /\ journal = [package |-> command[p].package, backup |-> aside[p]]
          /\ place[p] = "active"
      BY <1>0, <2>1 DEF AtPromotion
    <3> QED
      BY <3>1, <3>2
  <2>3. p \in Target
    BY <2>2 DEF Target, Active
  <2>4. p = q
    BY <1>0, <2>3 DEF Stepping, Honest, Whereabouts, Files, OneActive, Target
  <2> QED
    BY <2>1, <2>4
<1>6. CASE pc[p] \in {"recover", "judge", "fail", "release", "unload"}
  <2>1. \/ Enter(p) \/ Release(p) \/ Fail(p) \/ RecoverClientPluginPromotion(p)
        \/ RecoveryFails(p) \/ Judge(p) \/ Unload(p) \/ Crash(p)
    BY <1>6
       DEF Acts, Recovers, Installs, Loads, Removes, RemoveTarget, PutBack, CheckRestored,
           Clear, DropBackup, SweepUnreferencedModuleGraphs, Stage, Unstage,
           AssertNoConflict, MoveGraph, WritePointer, WriteJournal, MoveOld, MoveNew, Accept,
           TakeBack, GiveBack, Unjournal, Load, Use, Find, MoveAway, BringBack, Discard
  <2>2. UNCHANGED <<journal, place, debris, graph>>
    BY <2>1
       DEF files, Enter, Release, Fail, RecoverClientPluginPromotion, RecoveryFails, Judge,
           Unload, Crash
  <2> QED
    BY <1>1, <2>2
<1>7. CASE pc[p] = "clear"
  <2>1. Clear(p) \/ Crash(p)
    BY <1>7
       DEF Acts, Recovers, Installs, Loads, Removes, Enter, Release, Fail,
           RecoverClientPluginPromotion, RecoveryFails, Judge, RemoveTarget, PutBack,
           CheckRestored, DropBackup, SweepUnreferencedModuleGraphs, Stage, Unstage,
           AssertNoConflict, MoveGraph, WritePointer, WriteJournal, MoveOld, MoveNew, Accept,
           TakeBack, GiveBack, Unjournal, Load, Use, Unload, Find, MoveAway, BringBack,
           Discard
  <2>2. CASE Crash(p)
    BY <1>1, <2>2 DEF Crash, files
  <2>3. CASE Clear(p)
    <3>1. status[p] = "completed"
      BY <1>0, <1>3, <1>7 DEF AtRecovery
    <3>2. journal' = None
      BY <1>0, <2>3 DEF Clear, Clears
    <3>3. q \in confirmed'
      BY <1>0, <2>3, <3>1, <3>2 DEF Clear, Clears, Target
    <3> QED
      BY <3>2, <3>3
  <2> QED
    BY <2>1, <2>2, <2>3
<1> QED
  BY <1>0, <1>2, <1>4, <1>5, <1>6, <1>7
     DEF Inside, Recovering, Operating, Releasing, Unjournaled

(* So the invariant stays. *)
LEMMA HonestStays ==
    ASSUME NEW p \in Processes, Stepping(p), Acts(p), Behaves(p)
    PROVE  Honest'
<1>0. /\ command' = command
      /\ \A q \in Processes : q # p =>
           /\ pc'[q] = pc[q] /\ entry'[q] = entry[q] /\ aside'[q] = aside[q]
           /\ status'[q] = status[q] /\ outcome'[q] = outcome[q]
      /\ \A q \in Processes :
           q # p /\ place[q] \in {"nowhere", "stage"} => place'[q] = place[q]
      /\ \A q \in Processes : q # p /\ place'[q] = "stage" => place[q] = "stage"
      /\ confirmed \subseteq confirmed'
      /\ \A q \in Processes : Regular(q) /\ Sound(q) /\ Position(q)
      /\ Processes \subseteq Containers /\ Packages \subseteq Containers
      /\ Processes \intersect Packages = {}
  BY PluginsAssumption
     DEF Stepping, Honest, Apart, Lands, Spares, Behaves, Frame, Whereabouts, Containers
<1>1. \A q \in Processes : pc[q] \in Inside => q = p \/ pc[p] \notin Inside
  BY DEF Stepping, Honest, Whereabouts, Registry, Exclusive
<1>2. ASSUME NEW q \in Processes, q # p
      PROVE  Regular(q)'
  <2>1. place'[q] = "stage" \/ entry'[q] = "first" \/ pc'[q] = "stage" => q \notin debris'
    <3>1. entry[q] = "first" \/ pc[q] = "stage" => place[q] = "nowhere"
      BY <1>0 DEF Position, AtStage
    <3> QED
      BY <1>0, <1>2, <3>1 DEF Regular, Behaves, Frame
  <2>2. Ready(q)' => Whole(q)'
    <3> SUFFICES ASSUME Ready(q)'
                 PROVE  Whole(q)'
      OBVIOUS
    <3>1. Ready(q)
      BY <1>0, <1>2 DEF Ready
    <3>2. pc[q] \in Inside
      BY <3>1 DEF Ready, Inside, Operating, Releasing
    <3>3. place[q] \in {"stage", "active"}
      <4>1. pc[q] \in OfPromotion => entry[q] = "promote"
        BY DEF Stepping, Honest, Whereabouts, Registry, Visits
      <4>2. CASE pc[q] \in {"point", "journal", "move old", "move new"}
        BY <1>0, <4>1, <4>2 DEF Position, AtStage, OfPromotion
      <4>3. CASE pc[q] \in {"accept", "take back"} \/ (pc[q] = "release" /\ entry[q] = "promote")
        BY <1>0, <4>3 DEF Position, AtPromotion, Mine
      <4> QED
        BY <3>1, <4>2, <4>3 DEF Ready
    <3> QED
      BY <1>0, <1>1, <1>2, <3>1, <3>2, <3>3 DEF Behaves, Frame, Regular
  <2>3. pc'[q] = "release" /\ entry'[q] \notin {"promote", "unload"} => journal' = None
    <3>1. pc[q] = "release" => journal' = journal
      BY <1>1, <1>2 DEF Stepping, Apart, Inside, Releasing
    <3> QED
      BY <1>0, <1>2, <3>1 DEF Regular
  <2> QED
    BY <1>0, <1>2, <2>1, <2>2, <2>3 DEF Regular
<1>3. ASSUME NEW q \in Processes
      PROVE  Sound(q)'
  <2>1. entry'[q] = "confirm" => q \in confirmed' \/ Pending(q)'
    <3>1. CASE entry[q] = "confirm"
      BY <1>0, <3>1, PendingStays DEF Sound
    <3>2. CASE entry[q] # "confirm"
      BY <1>0, <3>2 DEF Behaves, Certain
    <3> QED
      BY <3>1, <3>2
  <2>2. CASE q = p
    BY <2>1, <2>2 DEF Sound, Behaves, Certain
  <2>3. CASE q # p
    <3>1. ASSUME pc[q] = "remove target",
                 NEW c \in Target' \intersect Processes, entry'[c] = "confirm"
          PROVE  ~ Whole(c)'
      <4>1. pc[p] \notin Inside /\ FromOutside(p) /\ entry[c] = "confirm"
        BY <1>0, <1>1, <2>3, <3>1
           DEF Inside, Recovering, Stepping, Lands, Behaves, Frame
      <4>2. place'[c] = "active" /\ PackageOf(c)' = journal'.package
        BY <3>1 DEF Target, Active
      <4>3. place[c] = "active" /\ PackageOf(c) = journal.package /\ (Whole(c)' <=> Whole(c))
        BY <1>0, <4>1, <4>2 DEF FromOutside, PackageOf, Whole
      <4>4. c \in Target
        BY <1>0, <4>3 DEF Target, Active
      <4> QED
        BY <1>0, <3>1, <4>1, <4>3, <4>4 DEF Sound
    <3> QED
      BY <1>0, <2>1, <2>3, <3>1 DEF Sound
  <2> QED
    BY <2>2, <2>3
<1>4. ASSUME NoCrash'
      PROVE  Tidy' /\ \A q \in Processes : Straight(q)'
  <2>0. /\ NoCrash /\ pc'[p] # "crashed" /\ Tidy /\ \A q \in Processes : Straight(q)
        /\ Clean(p) /\ Straight(p)'
    <3>1. NoCrash /\ pc'[p] # "crashed"
      BY <1>0, <1>4 DEF NoCrash, Stepping, Apart, Alive
    <3> QED
      BY <3>1 DEF Stepping, Honest, Behaves
  <2>1. ASSUME NEW q \in Processes
        PROVE  Straight(q)'
    <3>1. CASE q = p
      BY <2>0, <3>1
    <3>2. CASE q # p
      <4>1. Straight(q)
        BY <2>0
      <4> QED
        BY <1>0, <3>2, <4>1 DEF Straight
    <3> QED
      BY <3>1, <3>2
  <2>2. journal' # None =>
          \E q \in Processes : (Mine(q) \/ (entry[q] = "confirm" /\ Pending(q)))'
    <3> SUFFICES ASSUME journal' # None, ~ Mine(p)'
                 PROVE  \E q \in Processes : (Mine(q) \/ (entry[q] = "confirm" /\ Pending(q)))'
      OBVIOUS
    <3>1. journal' = journal
      BY <2>0 DEF Clean
    <3>2. PICK q \in Processes : Mine(q) \/ (entry[q] = "confirm" /\ Pending(q))
      BY <2>0, <3>1 DEF Tidy
    <3>3. CASE entry[q] = "confirm" /\ Pending(q)
      <4>1. Pending(q)'
        BY <3>3, PendingStays
      <4>2. entry'[q] = "confirm"
        BY <1>0, <2>0, <3>1, <3>3 DEF Clean
      <4> QED
        BY <4>1, <4>2
    <3>4. CASE Mine(q) /\ q # p
      BY <1>0, <3>4 DEF Mine
    <3>5. CASE Mine(q) /\ q = p
      <4>1. entry'[p] = "confirm"
        BY <2>0, <3>5 DEF Clean
      <4>2. entry[p] # "confirm"
        BY <3>5 DEF Mine, Stepping, Honest, Whereabouts, Registry, Visits, OfPromotion
      <4> QED
        BY <4>1, <4>2 DEF Behaves, Certain
    <3> QED
      BY <3>2, <3>3, <3>4, <3>5
  <2>3. \A lease \in leases' : Leases(lease[1])'
    <3>1. \A lease \in leases' : lease[1] \in Processes
      BY DEF Stepping, Typed
    <3> QED
      BY <1>0, <2>0, <3>1 DEF Clean, Tidy, Leases
  <2>4. ASSUME NEW c \in Containers, place'[c] = "backup",
               ~ (journal' # None /\ journal'.backup = c), ~ Drops(p, c)'
        PROVE  \E q \in Processes : Drops(q, c)'
    <3>1. place[c] = "backup" /\ journal' = journal /\ ~ Drops(p, c)
      BY <2>0, <2>4 DEF Clean
    <3>2. PICK q \in Processes : Drops(q, c)
      BY <2>0, <2>4, <3>1 DEF Tidy
    <3> QED
      BY <1>0, <3>1, <3>2 DEF Drops
  <2>5. ASSUME NEW c \in Containers, place'[c] = "inactive", ~ Disposes(p, c)'
        PROVE  \E q \in Processes : Disposes(q, c)'
    <3>1. place[c] = "inactive" /\ ~ Disposes(p, c)
      BY <2>0, <2>5 DEF Clean
    <3>2. PICK q \in Processes : Disposes(q, c)
      BY <2>0, <2>5, <3>1 DEF Tidy
    <3> QED
      BY <1>0, <3>1, <3>2 DEF Disposes, Taken
  <2>6. \A c \in Packages : place'[c] # "stage"
    BY <1>0, <2>0 DEF Tidy, Behaves, Frame
  <2>7. ASSUME NEW c \in Containers, graph'[c] = "root", place'[c] = "nowhere", ~ Minds(p)'
        PROVE  \E q \in Processes : Minds(q)'
    <3>1. PICK q \in Processes : q # p /\ Minds(q)
      BY <2>0, <2>7 DEF Clean, Tidy
    <3> QED
      BY <1>0, <3>1 DEF Minds
  <2> QED
    BY <2>1, <2>2, <2>3, <2>4, <2>5, <2>6, <2>7 DEF Tidy
<1> QED
  BY <1>2, <1>3, <1>4 DEF Stepping, Honest, Behaves

(* What is known of p before the step.  *)
LEMMA Known ==
    ASSUME NEW p \in Processes, Stepping(p)
    PROVE  /\ ~ Fault
           /\ pc \in [Processes -> Steps] /\ entry \in [Processes -> Entries]
           /\ status \in [Processes -> Statuses] /\ outcome \in [Processes -> Outcomes]
           /\ aside \in [Processes -> Containers \union {None}]
           /\ place \in [Containers -> Places] /\ graph \in [Containers -> Graphs]
           /\ p \in Containers /\ None \notin Containers
           /\ command' = command
           /\ \A q \in Processes : q # p => entry'[q] = entry[q] /\ aside'[q] = aside[q]
           /\ Regular(p) /\ Sound(p)
           /\ NoCrash => Straight(p) /\ Tidy
           /\ AtRecovery(p) /\ AtPromotion(p) /\ AtRemoval(p) /\ AtStage(p)
           /\ AtRecovery(p)' /\ AtPromotion(p)' /\ AtRemoval(p)' /\ AtStage(p)'
           /\ pc[p] \in OfPromotion => entry[p] = "promote"
           /\ pc[p] = "load" => entry[p] = "load"
           /\ pc[p] = "unload" => entry[p] \in {"load", "unload"}
           /\ pc[p] \in {"find", "move away", "bring back"} => entry[p] = "remove"
           /\ pc'[p] \in OfPromotion => entry'[p] = "promote"
           /\ pc[p] \in OnJournal => journal # None
           /\ pc[p] \in OnAside => aside[p] \in Containers
           /\ journal # None => journal.backup \in Containers \union {None}
<1>1. ~ Fault
  BY NoFault DEF Stepping, Honest
<1>2. outcome \in [Processes -> Outcomes]
  BY TypedIsTypeOK DEF Stepping, Honest, Whereabouts, Registry, Typed
<1>3. /\ pc[p] \in OfPromotion => entry[p] = "promote"
      /\ pc[p] = "load" => entry[p] = "load"
      /\ pc[p] = "unload" => entry[p] \in {"load", "unload"}
      /\ pc[p] \in {"find", "move away", "bring back"} => entry[p] = "remove"
      /\ pc'[p] \in OfPromotion => entry'[p] = "promote"
  BY DEF Stepping, Honest, Whereabouts, Registry, Visits
<1>4. Position(p) /\ Position(p)'
  BY DEF Stepping, Honest, Whereabouts
<1>5. /\ command' = command
      /\ \A q \in Processes : q # p => entry'[q] = entry[q] /\ aside'[q] = aside[q]
  BY DEF Stepping, Lands, Spares, Apart
<1>6. Regular(p) /\ Sound(p) /\ (NoCrash => Straight(p) /\ Tidy)
  BY DEF Stepping, Honest
<1>7. pc[p] \in OnAside => aside[p] \in Containers
  BY Knowing DEF Stepping, Honest
<1> QED
  BY <1>1, <1>2, <1>3, <1>4, <1>5, <1>6, <1>7, Knowing DEF Stepping, Honest, Position

(* Steps that move no container and leave the journal alone.  *)
LEMMA QuietFrame ==
    ASSUME NEW p \in Processes, Stepping(p), Quiet(p), confirmed' = confirmed,
           \A q \in Processes : q # p => outcome'[q] = outcome[q],
           pc[p] \notin Inside => entry'[p] = entry[p]
    PROVE  Frame(p)
<1>1. UNCHANGED <<place, debris, graph>>
  BY DEF Quiet
<1>2. \A c \in Containers : Whole(c)' <=> Whole(c)
  BY <1>1 DEF Whole
<1> QED
  BY <1>1, <1>2 DEF Frame

LEMMA QuietClean ==
    ASSUME NEW p \in Processes, Stepping(p), Quiet(p), leases' = leases, NoCrash,
           Mine(p) /\ journal # None => Mine(p)' \/ entry'[p] = "confirm",
           journal # None /\ entry[p] = "confirm" => entry'[p] = "confirm",
           Leases(p) => Leases(p)',
           \A c \in Containers : Drops(p, c) => Drops(p, c)',
           \A c \in Containers : Disposes(p, c) => Disposes(p, c)',
           Minds(p) => Minds(p)'
    PROVE  Clean(p)
<1>1. UNCHANGED <<journal, place, debris, graph>>
  BY DEF Quiet
<1>2. \A lease \in leases : Leases(lease[1])
  BY Known DEF Tidy
<1> QED
  BY <1>1, <1>2 DEF Clean

(* A step within a visit: the control and nothing else.  *)
LEMMA EnterBehaves ==
    ASSUME NEW p \in Processes, Stepping(p), Enter(p)
    PROVE  Behaves(p)
<1>0. /\ UNCHANGED <<entry, outcome, status, aside, journal, place, debris, graph, leases,
                     confirmed>>
      /\ pc[p] = "enter"
      /\ pc'[p] = IF entry[p] = "unload" THEN "unload" ELSE "recover"
      /\ pc[p] \notin Inside
  BY Known DEF Enter, Goto, files, Inside, Recovering, Operating, Releasing
<1>1. Quiet(p)
  BY <1>0, Known DEF Quiet
<1>2. Frame(p)
  BY <1>0, <1>1, QuietFrame
<1>3. Regular(p)'
  BY <1>0, Known DEF Regular, Ready
<1>4. Certain(p)
  BY <1>0, Known DEF Certain, Sound
<1>5. ASSUME NoCrash
      PROVE  Straight(p)' /\ Clean(p)
  <2>1. Straight(p)'
    BY <1>0, <1>5, Known DEF Straight
  <2>2. Leases(p) => Leases(p)'
    BY <1>0 DEF Leases
  <2>3. Minds(p) => Minds(p)'
    BY <1>0 DEF Minds, Recovering
  <2>4. /\ ~ Mine(p)
        /\ \A c \in Containers : ~ Drops(p, c) /\ ~ Disposes(p, c)
    BY <1>0 DEF Mine, Drops, Disposes, Taken
  <2> QED
    BY <1>0, <1>1, <1>5, <2>1, <2>2, <2>3, <2>4, QuietClean
<1> QED
  BY <1>2, <1>3, <1>4, <1>5 DEF Behaves

(* The end of a visit, with all it assigns.  *)
LEMMA ContinueAll ==
    ASSUME NEW p \in Processes, Stepping(p), NEW step, NEW next, NEW result,
           Continue(p, step, next, result)
    PROVE  /\ pc'[p] = step /\ entry'[p] = next /\ outcome'[p] = result
           /\ \A q \in Processes : q # p => outcome'[q] = outcome[q]
  BY Known DEF Continue, Goto

LEMMA UseBehaves ==
    ASSUME NEW p \in Processes, Stepping(p), Use(p)
    PROVE  Behaves(p)
<1>0. /\ UNCHANGED <<entry, outcome, status, aside, journal, place, debris, graph, leases,
                     confirmed>>
      /\ pc[p] = "use" /\ pc'[p] = "enter" /\ entry[p] = "unload"
  BY Known DEF Use, Goto, files, Regular
<1>1. Quiet(p)
  BY <1>0, Known DEF Quiet
<1>2. Frame(p)
  BY <1>0, <1>1, QuietFrame
<1>3. Regular(p)'
  BY <1>0, Known DEF Regular, Ready
<1>4. Certain(p)
  BY <1>0, Known DEF Certain, Sound
<1>5. ASSUME NoCrash
      PROVE  Straight(p)' /\ Clean(p)
  <2>1. Straight(p)'
    BY <1>0, <1>5, Known DEF Straight
  <2>2. Leases(p)' /\ ~ Mine(p) /\ (Minds(p) => Minds(p)')
    BY <1>0 DEF Leases, Mine, Minds, Recovering
  <2>3. \A c \in Containers : ~ Drops(p, c) /\ ~ Disposes(p, c)
    BY <1>0 DEF Drops, Disposes, Taken
  <2> QED
    BY <1>0, <1>1, <1>5, <2>1, <2>2, <2>3, QuietClean
<1> QED
  BY <1>2, <1>3, <1>4, <1>5 DEF Behaves

LEMMA CrashBehaves ==
    ASSUME NEW p \in Processes, Stepping(p), Crash(p)
    PROVE  Behaves(p)
<1>0. /\ UNCHANGED <<entry, outcome, journal, place, debris, graph, leases, confirmed>>
      /\ pc'[p] = "crashed"
      /\ \A q \in Processes : q # p => status'[q] = status[q]
  BY Known DEF Crash, Goto, Forgets, files
<1>1. Quiet(p)
  BY <1>0, Known DEF Quiet
<1>2. Frame(p)
  BY <1>0, <1>1, QuietFrame
<1>3. Regular(p)'
  BY <1>0, Known DEF Regular, Ready
<1>4. Certain(p)
  BY <1>0, Known DEF Certain, Sound
<1> QED
  BY <1>0, <1>2, <1>3, <1>4 DEF Behaves

(* Without a crash, a journal that a recovery finds is that of a promotion *)
(* that was accepted.                                                      *)
LEMMA JournalPends ==
    ASSUME NEW p \in Processes, Stepping(p), NoCrash, pc[p] \in Recovering, journal # None
    PROVE  \E q \in Processes :
             /\ entry[q] = "confirm" /\ q \in Target /\ Whole(q) /\ BackedUp
<1>1. PICK q \in Processes : Mine(q) \/ (entry[q] = "confirm" /\ Pending(q))
  BY Known DEF Tidy
<1>2. ~ Mine(q)
  <2>1. Mine(q) => pc[q] \in Inside
    BY DEF Mine, Inside, Operating, Releasing
  <2>2. ~ Mine(p) /\ pc[p] \in Inside
    BY DEF Mine, Inside, Recovering
  <2> QED
    BY <2>1, <2>2 DEF Stepping, Honest, Whereabouts, Registry, Exclusive
<1>3. PackageOf(q) = command[q].package /\ q \in Containers
  BY Knowing DEF Stepping, Honest
<1> QED
  BY <1>1, <1>2, <1>3 DEF Pending, Target, Active

LEMMA ReadBehaves ==
    ASSUME NEW p \in Processes, Stepping(p), RecoverClientPluginPromotion(p)
    PROVE  Behaves(p)
<1>0. /\ UNCHANGED <<entry, outcome, aside, journal, place, debris, graph, leases, confirmed>>
      /\ pc[p] = "recover" /\ pc[p] \in Inside /\ status'[p] = "none"
      /\ \A q \in Processes : q # p => status'[q] = status[q]
  BY Known DEF RecoverClientPluginPromotion, files, Inside, Recovering
<1>1. Quiet(p)
  BY <1>0, Known DEF Quiet
<1>2. /\ pc'[p] \in Recovering \ {"recover", "remove target", "drop backup"}
      /\ pc'[p] \in {"put back", "check restored"} =>
           journal # None /\ (Target = {} \/ ~ BackedUp)
  <2>1. journal # None => Target \subseteq Containers /\ journal.package \in Packages
    BY Knowing DEF Target, Active, Stepping, Honest
  <2>2. journal # None /\ journal.backup # None /\ Target = {} => BackedUp
    BY <2>1, Known, Knowing
       DEF Stepping, Honest, Whereabouts, Files, BackupWhole, BackedUp, Target, Active
  <2> QED
    BY <1>0, <2>2, Known
       DEF RecoverClientPluginPromotion, Goto, Target, BackedUp, Recovering
<1>3. Frame(p)
  BY <1>0, <1>1, QuietFrame
<1>4. Regular(p)'
  BY <1>0, <1>2, Known DEF Regular, Ready, Recovering
<1>5. Certain(p)
  BY <1>0, <1>2, Known DEF Certain, Sound, Recovering
<1>6. ASSUME NoCrash
      PROVE  Straight(p)' /\ Clean(p)
  <2>1. ~ (journal # None /\ (Target = {} \/ ~ BackedUp))
    BY <1>0, <1>6, JournalPends DEF Recovering
  <2>2. Straight(p)'
    BY <1>0, <1>2, <1>6, <2>1, Known DEF Straight, Recovering
  <2>3. ~ Mine(p) /\ ~ Leases(p) /\ Minds(p)'
    BY <1>0, <1>2 DEF Mine, Leases, Minds
  <2>4. \A c \in Containers : ~ Drops(p, c) /\ ~ Disposes(p, c)
    BY <1>0 DEF Drops, Disposes, Taken
  <2> QED
    BY <1>0, <1>1, <1>6, <2>2, <2>3, <2>4, QuietClean
<1> QED
  BY <1>3, <1>4, <1>5, <1>6 DEF Behaves

LEMMA JudgeBehaves ==
    ASSUME NEW p \in Processes, Stepping(p), Judge(p)
    PROVE  Behaves(p)
<1>0. /\ UNCHANGED <<entry, outcome, aside, journal, place, debris, graph, leases, confirmed>>
      /\ pc[p] = "judge" /\ pc[p] \in Inside
      /\ \A q \in Processes : q # p => status'[q] = status[q]
  BY Known DEF Judge, files, Inside, Recovering
<1>1. Quiet(p)
  BY <1>0, Known DEF Quiet
<1>2. PICK c \in Target :
        \/ pc'[p] = "clear" /\ status'[p] = "completed"
        \/ /\ pc'[p] = "remove target"
           /\ status'[p] = status[p]
           /\ ~ (c \in Processes /\ entry[c] = "confirm" /\ Whole(c))
  BY Known DEF Judge, Goto, Target
<1>3. \A d \in Target : d = c
  BY <1>0, OneTarget DEF Stepping, Honest, OnJournal
<1>4. Frame(p)
  BY <1>0, <1>1, QuietFrame
<1>5. Regular(p)'
  BY <1>0, <1>2, Known DEF Regular, Ready
<1>6. Certain(p)
  <2>1. Target' = Target
    BY <1>1, QuietStep DEF Stepping, Honest
  <2>2. \A d : Whole(d)' <=> Whole(d)
    BY <1>0 DEF Whole
  <2> QED
    BY <1>0, <1>2, <1>3, <2>1, <2>2, Known DEF Certain, Sound
<1>7. ASSUME NoCrash
      PROVE  Straight(p)' /\ Clean(p)
  <2>1. pc'[p] = "clear" /\ status'[p] = "completed"
    <3>1. PICK q \in Processes : entry[q] = "confirm" /\ q \in Target /\ Whole(q)
      BY <1>0, <1>7, JournalPends, Known DEF OnJournal, Recovering
    <3> QED
      BY <1>2, <1>3, <3>1
  <2>2. Straight(p)'
    BY <1>0, <1>7, <2>1, Known DEF Straight
  <2>3. ~ Mine(p) /\ ~ Leases(p) /\ Minds(p)'
    BY <1>0, <2>1 DEF Mine, Leases, Minds, Recovering
  <2>4. \A d \in Containers : ~ Drops(p, d) /\ ~ Disposes(p, d)
    BY <1>0 DEF Drops, Disposes, Taken
  <2> QED
    BY <1>0, <1>1, <1>7, <2>2, <2>3, <2>4, QuietClean
<1> QED
  BY <1>4, <1>5, <1>6, <1>7 DEF Behaves

LEMMA CheckBehaves ==
    ASSUME NEW p \in Processes, Stepping(p), CheckRestored(p)
    PROVE  Behaves(p)
<1>0. /\ UNCHANGED <<entry, outcome, aside, journal, place, debris, graph, leases, confirmed>>
      /\ pc[p] = "check restored" /\ pc[p] \in Inside
      /\ \A q \in Processes : q # p => status'[q] = status[q]
  BY Known DEF CheckRestored, files, Inside, Recovering
<1>1. Quiet(p)
  BY <1>0, Known DEF Quiet
<1>2. pc'[p] = "clear"
  <2>1. /\ journal # None /\ journal.backup # None /\ place[journal.backup] = "active"
        /\ journal.backup \in Containers
    BY <1>0, Known DEF AtRecovery, Reverted, OnJournal
  <2>2. Whole(journal.backup) /\ PackageOf(journal.backup) = journal.package
    BY <2>1 DEF Stepping, Honest, Whereabouts, Files, BackupWhole
  <2>3. journal.backup \in Target
    BY <2>1, <2>2 DEF Target, Active
  <2>4. \A c \in Target : Whole(c)
    BY <1>0, <2>2, <2>3, OneTarget DEF Stepping, Honest, OnJournal
  <2> QED
    BY <2>4, Known DEF CheckRestored, Goto, Target
<1>3. Frame(p)
  BY <1>0, <1>1, QuietFrame
<1>4. Regular(p)'
  BY <1>0, <1>2, Known DEF Regular, Ready
<1>5. Certain(p)
  BY <1>0, <1>2, Known DEF Certain, Sound
<1>6. ~ NoCrash
  BY <1>0, Known DEF Straight
<1> QED
  BY <1>3, <1>4, <1>5, <1>6 DEF Behaves

(* Steps of a promotion that move nothing: the conflict is looked for, the *)
(* pointer is written, the adapter is loaded.                              *)
LEMMA PromotingBehaves ==
    ASSUME NEW p \in Processes, Stepping(p), AssertNoConflict(p) \/ WritePointer(p) \/ Accept(p)
    PROVE  Behaves(p)
<1>0. /\ UNCHANGED <<entry, outcome, status, journal, place, debris, graph, leases, confirmed>>
      /\ pc[p] \in Inside /\ entry[p] = "promote"
      /\ \/ pc[p] = "conflict" /\ pc'[p] \in {"move graph", "fail"}
         \/ pc[p] = "point" /\ pc'[p] = "journal"
         \/ pc[p] = "accept" /\ pc'[p] \in {"release", "take back"}
  BY Known
     DEF AssertNoConflict, WritePointer, Accept, Goto, Promoting, Inside, Operating, OfPromotion
<1>1. Quiet(p)
  BY <1>0, Known DEF Quiet
<1>2. Frame(p)
  BY <1>0, <1>1, QuietFrame
<1>3. Regular(p)'
  BY <1>0, Known DEF Regular, Ready, Whole
<1>4. Certain(p)
  BY <1>0, Known DEF Certain, Sound, AtStage
<1>5. ASSUME NoCrash
      PROVE  Straight(p)' /\ Clean(p)
  <2>1. Straight(p)'
    BY <1>0, <1>5, Known DEF Straight
  <2>2. ~ Leases(p) /\ (Mine(p) => Mine(p)') /\ (Minds(p) => Minds(p)')
    BY <1>0, <2>1 DEF Leases, Mine, Minds, Recovering
  <2>3. \A c \in Containers : ~ Drops(p, c) /\ ~ Disposes(p, c)
    BY <1>0 DEF Drops, Disposes, Taken
  <2> QED
    BY <1>0, <1>1, <1>5, <2>1, <2>2, <2>3, QuietClean
<1> QED
  BY <1>2, <1>3, <1>4, <1>5 DEF Behaves

LEMMA FindBehaves ==
    ASSUME NEW p \in Processes, Stepping(p), Find(p)
    PROVE  Behaves(p)
<1>0. /\ UNCHANGED <<entry, outcome, status, journal, place, debris, graph, leases, confirmed>>
      /\ pc[p] = "find" /\ pc[p] \in Inside /\ entry[p] = "remove"
      /\ pc'[p] \in {"move away", "fail"}
  BY Known DEF Find, Goto, Removing, Inside, Operating
<1>1. Quiet(p)
  BY <1>0, Known DEF Quiet
<1>2. Frame(p)
  BY <1>0, <1>1, QuietFrame
<1>3. Regular(p)'
  BY <1>0, Known DEF Regular, Ready
<1>4. Certain(p)
  BY <1>0, Known DEF Certain, Sound, Regular, AtRemoval
<1>5. ASSUME NoCrash
      PROVE  Straight(p)' /\ Clean(p)
  <2>1. Straight(p)'
    BY <1>0, <1>5, Known DEF Straight
  <2>2. ~ Leases(p) /\ ~ Mine(p) /\ (Minds(p) => Minds(p)')
    BY <1>0, <2>1 DEF Leases, Mine, Minds, Recovering
  <2>3. \A c \in Containers : ~ Drops(p, c) /\ ~ Disposes(p, c)
    BY <1>0 DEF Drops, Disposes, Taken
  <2> QED
    BY <1>0, <1>1, <1>5, <2>1, <2>2, <2>3, QuietClean
<1> QED
  BY <1>2, <1>3, <1>4, <1>5 DEF Behaves

LEMMA FailBehaves ==
    ASSUME NEW p \in Processes, Stepping(p), Fail(p)
    PROVE  Behaves(p)
<1>0. /\ UNCHANGED <<journal, place, debris, graph, leases, confirmed>>
      /\ pc[p] = "fail" /\ pc[p] \in Inside
      /\ \A q \in Processes : q # p => status'[q] = status[q]
      /\ status'[p] = "none"
  BY Known DEF Fail, Forgets, files, Inside, Releasing
<1>1. /\ place[p] \in {"nowhere", "stage"} /\ outcome'[p] = "failed"
      /\ \/ entry[p] = "promote" /\ pc'[p] = "unstage" /\ entry'[p] = "cleanup"
         \/ /\ entry[p] = "remove" /\ pc'[p] = "ended" /\ entry'[p] = "remove"
            /\ place[p] = "nowhere"
      /\ \A q \in Processes : q # p => outcome'[q] = outcome[q]
  <2>1. /\ place[p] \in {"nowhere", "stage"} /\ entry[p] \in {"promote", "remove"}
        /\ entry[p] = "remove" => place[p] = "nowhere"
    BY <1>0, Known DEF Sound, Regular, AtRemoval
  <2>2. \/ entry[p] = "promote" /\ Continue(p, "unstage", "cleanup", "failed")
        \/ entry[p] = "remove" /\ Continue(p, "ended", "remove", "failed")
    BY <2>1 DEF Fail, AfterFailure
  <2> QED
    BY <2>1, <2>2, ContinueAll
<1>2. Quiet(p)
  BY <1>0, Known DEF Quiet
<1>3. Frame(p)
  BY <1>0, <1>1, <1>2, QuietFrame
<1>4. Regular(p)'
  BY <1>0, <1>1, Known DEF Regular, Ready, OfInstall
<1>5. Certain(p)
  BY <1>0, <1>1 DEF Certain
<1>6. ASSUME NoCrash
      PROVE  Straight(p)' /\ Clean(p)
  <2>1. Straight(p)'
    BY <1>0, <1>1 DEF Straight
  <2>2. ~ Leases(p) /\ ~ Mine(p) /\ ~ Minds(p)
    BY <1>0, <1>1, <1>6, Known DEF Leases, Mine, Minds, Recovering, Straight
  <2>3. \A c \in Containers : ~ Drops(p, c) /\ ~ Disposes(p, c)
    BY <1>0 DEF Drops, Disposes, Taken
  <2> QED
    BY <1>0, <1>1, <1>2, <1>6, <2>1, <2>2, <2>3, QuietClean
<1> QED
  BY <1>3, <1>4, <1>5, <1>6 DEF Behaves

(* The end of a visit.  *)
LEMMA ReleaseBehaves ==
    ASSUME NEW p \in Processes, Stepping(p), Release(p)
    PROVE  Behaves(p)
<1>0. /\ UNCHANGED <<journal, place, debris, graph, leases, confirmed>>
      /\ pc[p] = "release" /\ pc[p] \in Inside
      /\ AfterSuccess(p)
      /\ \A q \in Processes : q # p => status'[q] = status[q]
      /\ status'[p] \in {status[p], "none"}
      /\ entry[p] = "remove" => aside'[p] = aside[p]
  BY Known DEF Release, Forgets, files, Inside, Releasing
<1>1. /\ \/ entry[p] = "first" /\ pc'[p] = "stage" /\ entry'[p] = "promote"
            /\ outcome'[p] = "none"
         \/ entry[p] = "promote" /\ pc'[p] = "enter" /\ entry'[p] = "confirm"
            /\ outcome'[p] = "none"
         \/ entry[p] = "confirm" /\ pc'[p] = "unstage" /\ entry'[p] = "cleanup"
            /\ outcome'[p] = (IF status[p] = "reverted" THEN "failed" ELSE "installed")
         \/ entry[p] = "load" /\ pc'[p] = "use" /\ entry'[p] = "unload"
            /\ outcome'[p] = "loaded"
         \/ entry[p] = "remove" /\ pc'[p] = "discard" /\ entry'[p] = "after"
            /\ outcome'[p] = "none"
         \/ entry[p] = "after" /\ pc'[p] = "ended" /\ entry'[p] = "after"
            /\ outcome'[p] = "removed"
         \/ entry[p] \in {"cleanup", "unload"} /\ pc'[p] = "ended" /\ entry'[p] = entry[p]
            /\ outcome'[p] = outcome[p]
      /\ \A q \in Processes : q # p => outcome'[q] = outcome[q]
  <2>1. CASE entry[p] = "first" /\ Continue(p, "stage", "promote", "none")
    BY <2>1, ContinueAll
  <2>2. CASE entry[p] = "promote" /\ Continue(p, "enter", "confirm", "none")
    BY <2>2, ContinueAll
  <2>3. CASE /\ entry[p] = "confirm"
             /\ Continue(p, "unstage", "cleanup",
                         IF status[p] = "reverted" THEN "failed" ELSE "installed")
    BY <2>3, ContinueAll
  <2>4. CASE entry[p] = "load" /\ Continue(p, "use", "unload", "loaded")
    BY <2>4, ContinueAll
  <2>5. CASE entry[p] = "remove" /\ Continue(p, "discard", "after", "none")
    BY <2>5, ContinueAll
  <2>6. CASE entry[p] = "after" /\ Continue(p, "ended", "after", "removed")
    BY <2>6, ContinueAll
  <2>7. CASE entry[p] \in {"cleanup", "unload"} /\ Continue(p, "ended", entry[p], outcome[p])
    BY <2>7, ContinueAll
  <2> QED
    BY <1>0, <2>1, <2>2, <2>3, <2>4, <2>5, <2>6, <2>7 DEF AfterSuccess
<1>2. Quiet(p)
  BY <1>0, Known DEF Quiet
<1>3. Frame(p)
  BY <1>0, <1>1, <1>2, QuietFrame
<1>4. Regular(p)'
  BY <1>0, <1>1, Known DEF Regular, Ready, OfInstall
<1>5. Certain(p)
  <2>1. entry[p] = "promote" => Pending(p)'
    <3> SUFFICES ASSUME entry[p] = "promote"
                 PROVE  Pending(p)'
      OBVIOUS
    <3>1. Mine(p) /\ Ready(p)
      BY <1>0 DEF Mine, Ready
    <3>2. /\ journal = [package |-> command[p].package, backup |-> aside[p]]
          /\ BackedUp /\ place[p] = "active"
      BY <1>0, <3>1, Known DEF AtPromotion
    <3>3. journal # None /\ journal.package = command[p].package
      BY <3>2, JournalIsThere DEF Stepping, Honest, Whereabouts, Registry
    <3>4. Whole(p)
      BY <3>1, Known DEF Regular
    <3> QED
      BY <1>0, <3>2, <3>3, <3>4, Known DEF Pending, BackedUp, Whole
  <2>2. entry[p] = "confirm" => p \in confirmed
    BY <1>0, Known DEF Regular, Sound, Pending
  <2> QED
    BY <1>0, <1>1, <2>1, <2>2, Known DEF Certain, Sound
<1>6. ASSUME NoCrash
      PROVE  Straight(p)' /\ Clean(p)
  <2>0. Straight(p)
    BY <1>6, Known
  <2>1. Straight(p)'
    <3>1. status'[p] # "reverted"
      BY <1>0, <2>0 DEF Straight
    <3>2. entry[p] = "confirm" => outcome'[p] = "installed"
      BY <1>1, <2>0 DEF Straight
    <3>3. entry[p] = "promote" => place[p] = "active"
      BY <1>0, Known DEF AtPromotion, Mine
    <3> QED
      BY <1>0, <1>1, <2>0, <3>1, <3>2, <3>3 DEF Straight
  <2>2. /\ Mine(p) => entry'[p] = "confirm"
        /\ Leases(p) => Leases(p)'
        /\ Minds(p) => Minds(p)'
    BY <1>0, <1>1, <1>6, Known DEF Leases, Mine, Minds, Recovering, Straight
  <2>3. \A c \in Containers : ~ Drops(p, c) /\ (Disposes(p, c) => Disposes(p, c)')
    BY <1>0, <1>1 DEF Drops, Disposes, Taken
  <2>4. entry[p] = "confirm" => journal = None
    BY <1>0, Known DEF Regular
  <2> QED
    BY <1>0, <1>2, <1>6, <2>1, <2>2, <2>3, <2>4, QuietClean
<1> QED
  BY <1>3, <1>4, <1>5, <1>6 DEF Behaves

(* Steps that rename one container.  *)
LEMMA MovesFrame ==
    ASSUME NEW p \in Processes, Stepping(p), pc[p] \in Inside,
           UNCHANGED <<outcome, debris, confirmed>>,
           NEW c \in Containers, NEW to \in Places, Moves(c, to), to = "stage" => c = p
    PROVE  Frame(p) /\ place'[c] = to /\ \A d \in Containers : d # c => place'[d] = place[d]
<1>1. place'[c] = to /\ \A d \in Containers : d # c => place'[d] = place[d]
  BY Known DEF Moves
<1> QED
  BY <1>1 DEF Frame

LEMMA MovesClean ==
    ASSUME NEW p \in Processes, Stepping(p), NoCrash,
           UNCHANGED <<entry, outcome, journal, debris, graph, leases>>,
           NEW c \in Containers, NEW to \in Places, Moves(c, to),
           pc[p] \in {"move old", "move new", "take back", "give back", "move away", "bring back"},
           Mine(p) => Mine(p)',
           to = "backup" => journal # None /\ journal.backup = c,
           to = "inactive" => Disposes(p, c)',
           \A d \in Containers : d # c => ~ Drops(p, d) /\ ~ Disposes(p, d),
           to # "nowhere"
    PROVE  Clean(p)
<1>1. place'[c] = to /\ \A d \in Containers : d # c => place'[d] = place[d]
  BY Known DEF Moves
<1>2. \A lease \in leases : Leases(lease[1])
  BY Known DEF Tidy
<1>3. ~ Leases(p) /\ (Minds(p) => Minds(p)')
  BY DEF Leases, Minds, Recovering
<1> QED
  BY <1>1, <1>2, <1>3 DEF Clean

(* The old adapter is moved aside.  *)
LEMMA OldBehaves ==
    ASSUME NEW p \in Processes, Stepping(p), MoveOld(p)
    PROVE  Behaves(p)
<1>0. /\ UNCHANGED <<entry, outcome, status, aside, journal, debris, graph, leases, confirmed>>
      /\ pc[p] = "move old" /\ pc'[p] = "move new" /\ Moves(aside[p], "backup")
      /\ pc[p] \in Inside /\ entry[p] = "promote" /\ Mine(p) /\ Mine(p)'
  BY Known DEF MoveOld, Renames, Goto, Promoting, Inside, Operating, OfPromotion, Mine
<1>1. /\ aside[p] \in Containers /\ "backup" \in Places /\ journal # None
      /\ journal.backup = aside[p] /\ place[aside[p]] = "active" /\ place[p] = "stage"
  <2>1. journal = [package |-> command[p].package, backup |-> aside[p]]
    BY <1>0, Known DEF AtPromotion
  <2>2. journal # None /\ journal.backup = aside[p]
    BY <2>1, JournalIsThere DEF Stepping, Honest, Whereabouts, Registry
  <2>3. aside[p] \in Containers /\ aside[p] # None
    BY <1>0, Known DEF OnAside
  <2>4. Reverted /\ place[p] = "stage"
    BY <1>0, Known DEF AtPromotion, AtStage
  <2> QED
    BY <2>2, <2>3, <2>4 DEF Reverted, Places
<1>2. Frame(p) /\ place'[aside[p]] = "backup" /\ place'[p] = "stage"
  <2>1. p \in Containers /\ p # aside[p]
    BY <1>1, Known
  <2> QED
    BY <1>0, <1>1, <2>1, MovesFrame
<1>3. Regular(p)'
  BY <1>0, <1>1, <1>2, Known DEF Regular, Ready, Whole
<1>4. Certain(p)
  BY <1>0, Known DEF Certain, Sound
<1>5. ASSUME NoCrash
      PROVE  Straight(p)' /\ Clean(p)
  <2>1. Straight(p)'
    BY <1>0, <1>2, <1>5, Known DEF Straight
  <2>2. \A c \in Containers : ~ Drops(p, c) /\ ~ Disposes(p, c)
    BY <1>0 DEF Drops, Disposes, Taken
  <2>3. Clean(p)
    BY <1>0, <1>1, <1>5, <2>2, MovesClean
  <2> QED
    BY <2>1, <2>3
<1> QED
  BY <1>2, <1>3, <1>4, <1>5 DEF Behaves

(* The new one is moved in, or taken back. *)
LEMMA NewBehaves ==
    ASSUME NEW p \in Processes, Stepping(p), MoveNew(p)
    PROVE  Behaves(p)
<1>0. /\ UNCHANGED <<entry, outcome, status, aside, journal, debris, graph, leases, confirmed>>
      /\ pc[p] = "move new" /\ pc'[p] = "accept" /\ Moves(p, "active")
      /\ pc[p] \in Inside /\ entry[p] = "promote" /\ Mine(p) /\ Mine(p)'
      /\ "active" \in Places /\ "active" # "stage"
  BY Known DEF MoveNew, Renames, Goto, Promoting, Inside, Operating, OfPromotion, Mine, Places
<1>1. place[p] = "stage"
  BY <1>0, Known DEF AtStage
<1>2. Frame(p) /\ place'[p] = "active"
  BY <1>0, MovesFrame, Known
<1>3. Regular(p)'
  BY <1>0, <1>1, <1>2, Known DEF Regular, Ready, Whole, OfInstall
<1>4. Certain(p)
  BY <1>0, Known DEF Certain, Sound
<1>5. ASSUME NoCrash
      PROVE  Straight(p)' /\ Clean(p)
  <2>1. Straight(p)'
    BY <1>0, <1>2, <1>5, Known DEF Straight
  <2>2. \A c \in Containers : ~ Drops(p, c) /\ ~ Disposes(p, c)
    BY <1>0 DEF Drops, Disposes, Taken
  <2>3. Clean(p)
    BY <1>0, <1>5, <2>2, MovesClean, Known
  <2> QED
    BY <2>1, <2>3
<1> QED
  BY <1>2, <1>3, <1>4, <1>5 DEF Behaves

LEMMA GiveBackIfMovedStep ==
    ASSUME NEW p \in Processes
    PROVE  GiveBackIfMoved(p) \in {"unjournal", "give back"}
  BY DEF GiveBackIfMoved

LEMMA TakenBehaves ==
    ASSUME NEW p \in Processes, Stepping(p), TakeBack(p)
    PROVE  Behaves(p)
<1>0. /\ UNCHANGED <<entry, outcome, status, aside, journal, debris, graph, leases, confirmed>>
      /\ pc[p] = "take back" /\ pc'[p] \in {"unjournal", "give back"} /\ Moves(p, "stage")
      /\ pc[p] \in Inside /\ entry[p] = "promote" /\ Mine(p) /\ Mine(p)' /\ Ready(p)
      /\ "stage" \in Places
  <2>1. /\ UNCHANGED <<entry, outcome, status, aside, journal, debris, graph, leases, confirmed>>
        /\ pc[p] = "take back" /\ Moves(p, "stage") /\ Goto(p, GiveBackIfMoved(p))
    BY Known DEF TakeBack, Promoting
  <2>2. pc'[p] = GiveBackIfMoved(p)
    BY <2>1, Known DEF Goto
  <2>3. pc'[p] \in {"unjournal", "give back"}
    BY <2>2, GiveBackIfMovedStep
  <2>4. Mine(p) /\ Mine(p)' /\ Ready(p)
    BY <2>1, <2>3 DEF Mine, Ready
  <2>5. pc[p] \in Inside /\ pc[p] \in OfPromotion /\ "stage" \in Places
    BY <2>1 DEF Inside, Operating, OfPromotion, Places
  <2> QED
    BY <2>1, <2>3, <2>4, <2>5, Known
<1>2. Frame(p) /\ place'[p] = "stage"
  <2>1. p \in Containers
    BY Known
  <2> QED
    BY <1>0, <2>1, MovesFrame
<1>3. Regular(p)'
  BY <1>0, <1>2, Known DEF Regular, Ready, Whole, OfInstall
<1>4. Certain(p)
  BY <1>0, Known DEF Certain, Sound
<1>5. ASSUME NoCrash
      PROVE  Straight(p)' /\ Clean(p)
  <2>1. Straight(p)'
    BY <1>0, <1>2, <1>5, Known DEF Straight
  <2>2. \A c \in Containers : ~ Drops(p, c) /\ ~ Disposes(p, c)
    BY <1>0 DEF Drops, Disposes, Taken
  <2>3. Clean(p)
    BY <1>0, <1>5, <2>2, MovesClean, Known
  <2> QED
    BY <2>1, <2>3
<1> QED
  BY <1>2, <1>3, <1>4, <1>5 DEF Behaves

LEMMA GivenBehaves ==
    ASSUME NEW p \in Processes, Stepping(p), GiveBack(p)
    PROVE  Behaves(p)
<1>0. /\ UNCHANGED <<entry, outcome, status, aside, journal, debris, graph, leases, confirmed>>
      /\ pc[p] = "give back" /\ pc'[p] = "unjournal" /\ Moves(aside[p], "active")
      /\ pc[p] \in Inside /\ entry[p] = "promote" /\ Mine(p) /\ Mine(p)'
      /\ "active" \in Places /\ "active" # "stage" /\ aside[p] \in Containers
  <2>1. /\ UNCHANGED <<entry, outcome, status, aside, journal, debris, graph, leases, confirmed>>
        /\ pc[p] = "give back" /\ Moves(aside[p], "active") /\ Goto(p, "unjournal")
    BY Known DEF GiveBack, Renames, Promoting
  <2>2. pc'[p] = "unjournal"
    BY <2>1, Known DEF Goto
  <2>3. aside[p] \in Containers
    BY <2>1, Known DEF OnAside
  <2> QED
    BY <2>1, <2>2, <2>3, Known DEF Inside, Operating, OfPromotion, Mine, Places
<1>1. place[aside[p]] = "backup" /\ place[p] = "stage"
  <2>1. journal = [package |-> command[p].package, backup |-> aside[p]] /\ BackedUp
    BY <1>0, Known DEF AtPromotion
  <2> QED
    BY <1>0, <2>1, Known DEF BackedUp, Regular
<1>2. Frame(p) /\ place'[p] = "stage"
  <2>1. p \in Containers /\ p # aside[p]
    BY <1>1, Known
  <2> QED
    BY <1>0, <1>1, <2>1, MovesFrame
<1>3. Regular(p)'
  BY <1>0, <1>2, Known DEF Regular, Ready, Whole, OfInstall
<1>4. Certain(p)
  BY <1>0, Known DEF Certain, Sound
<1>5. ASSUME NoCrash
      PROVE  Straight(p)' /\ Clean(p)
  <2>1. Straight(p)'
    BY <1>0, <1>2, <1>5, Known DEF Straight
  <2>2. \A c \in Containers : ~ Drops(p, c) /\ ~ Disposes(p, c)
    BY <1>0 DEF Drops, Disposes, Taken
  <2>3. Clean(p)
    BY <1>0, <1>5, <2>2, MovesClean, Known
  <2> QED
    BY <2>1, <2>3
<1> QED
  BY <1>2, <1>3, <1>4, <1>5 DEF Behaves

(* A removal moves the adapter out of the way, or brings it back.  *)
LEMMA AwayBehaves ==
    ASSUME NEW p \in Processes, Stepping(p), MoveAway(p) \/ BringBack(p)
    PROVE  Behaves(p)
<1>0. /\ UNCHANGED <<entry, outcome, status, aside, journal, debris, graph, leases, confirmed>>
      /\ \/ pc[p] = "move away" /\ pc'[p] = "release" /\ Moves(aside[p], "inactive")
         \/ pc[p] = "bring back" /\ pc'[p] = "fail" /\ Moves(aside[p], "active")
      /\ pc[p] \in Inside /\ entry[p] = "remove" /\ aside[p] \in Containers
  <2>1. /\ UNCHANGED <<entry, outcome, status, aside, journal, debris, graph, leases, confirmed>>
        /\ \/ pc[p] = "move away" /\ Goto(p, "release") /\ Moves(aside[p], "inactive")
           \/ pc[p] = "bring back" /\ Goto(p, "fail") /\ Moves(aside[p], "active")
    BY Known DEF MoveAway, BringBack, Renames, Removing
  <2>2. aside[p] \in Containers
    BY <2>1, Known DEF OnAside
  <2> QED
    BY <2>1, <2>2, Known DEF Goto, Inside, Operating
<1>1. PICK to \in {"active", "inactive"} :
        /\ Moves(aside[p], to)
        /\ to = "inactive" => pc'[p] = "release"
  BY <1>0
<1>2. /\ place[aside[p]] \in {"active", "inactive"} /\ place[p] = "nowhere"
      /\ to \in Places /\ to \notin {"stage", "backup", "nowhere"}
  BY <1>0, Known DEF AtRemoval, Taken, Active, Regular, Places
<1>3. Frame(p) /\ place'[p] = "nowhere"
  <2>1. p \in Containers /\ p # aside[p]
    BY <1>2, Known
  <2> QED
    BY <1>0, <1>1, <1>2, <2>1, MovesFrame
<1>4. Regular(p)'
  <2>1. journal = None
    BY <1>0, Known DEF AtRecovery, Unjournaled
  <2> QED
    BY <1>0, <1>3, <2>1, Known DEF Regular, Ready, Whole, OfInstall
<1>5. Certain(p)
  BY <1>0, <1>3, Known DEF Certain, Sound
<1>6. ASSUME NoCrash
      PROVE  Straight(p)' /\ Clean(p)
  <2>1. Straight(p)'
    BY <1>0, <1>3, <1>6, Known DEF Straight
  <2>2. \A c \in Containers : c # aside[p] => ~ Drops(p, c) /\ ~ Disposes(p, c)
    BY <1>0 DEF Drops, Disposes, Taken
  <2>3. to = "inactive" => Disposes(p, aside[p])'
    BY <1>0, <1>1 DEF Disposes, Taken
  <2>4. ~ Mine(p)
    BY <1>0 DEF Mine
  <2>5. Clean(p)
    BY <1>0, <1>1, <1>2, <1>6, <2>2, <2>3, <2>4, MovesClean
  <2> QED
    BY <2>1, <2>5
<1> QED
  BY <1>3, <1>4, <1>5, <1>6 DEF Behaves

(* Recovery, where it moves or removes containers.  *)
LEMMA RemoveBehaves ==
    ASSUME NEW p \in Processes, Stepping(p), RemoveTarget(p)
    PROVE  Behaves(p)
<1>0. /\ UNCHANGED <<entry, outcome, journal, graph, confirmed>>
      /\ pc[p] = "remove target" /\ pc[p] \in Inside /\ status'[p] = "reverted"
  BY Known DEF RemoveTarget, Inside, Recovering
<1>1. PICK c \in Target :
        /\ debris' = debris \union {c}
        /\ \/ pc'[p] = "remove target" /\ place' = place
           \/ pc'[p] \in {"clear", "put back"} /\ place' = [place EXCEPT ![c] = "nowhere"]
  <2>1. PICK c \in Target :
          Deletes(p, c, IF journal.backup = None THEN "clear" ELSE "put back", "fail")
    BY DEF RemoveTarget, Target
  <2> QED
    BY <1>0, <2>1, Known DEF Deletes, Goto, Moves
<1>2. c \in Containers /\ place[c] = "active" /\ \A d \in Target : d = c
  BY <1>0, OneTarget DEF Stepping, Honest, OnJournal
<1>3. /\ \A d \in Containers : d # c => place'[d] = place[d]
      /\ place'[c] \in {"active", "nowhere"}
      /\ pc'[p] \in {"remove target", "clear", "put back"}
  BY <1>1, <1>2, Known
<1>4. Frame(p)
  BY <1>0, <1>1, <1>2, <1>3 DEF Frame
<1>5. Regular(p)'
  <2>1. place'[p] = "stage" => place[p] = "stage"
    BY <1>2, <1>3, Known
  <2>2. place[p] = "nowhere" => place'[p] = "nowhere"
    BY <1>2, <1>3, Known
  <2>3. entry[p] = "first" => place[p] = "nowhere"
    BY Known DEF AtStage
  <2>4. ~ Ready(p)'
    BY <1>3 DEF Ready
  <2>5. place'[p] = "stage" \/ entry'[p] = "first" \/ pc'[p] = "stage" => p \notin debris'
    BY <1>0, <1>1, <1>2, <1>3, <2>1, <2>3, Known DEF Regular
  <2> QED
    BY <1>0, <1>3, <2>2, <2>4, <2>5, Known DEF Regular
<1>6. Certain(p)
  <2>1. ASSUME NEW d \in Target' \intersect Processes, entry'[d] = "confirm"
        PROVE  ~ Whole(d)'
    <3>1. place'[d] = "active" /\ d \in Containers /\ PackageOf(d)' = PackageOf(d)
          /\ PackageOf(d)' = journal.package
      BY <1>0, <2>1, Known DEF Target, Active, PackageOf
    <3>2. d = c \/ place[d] = "active"
      BY <1>3, <3>1
    <3>3. d \in Target
      BY <1>1, <3>1, <3>2 DEF Target, Active
    <3> QED
      BY <1>1, <1>2, <3>3 DEF Whole
  <2> QED
    BY <1>0, <1>3, <2>1, Known DEF Certain, Sound
<1>7. ~ NoCrash
  BY <1>0, Known DEF Straight
<1> QED
  BY <1>4, <1>5, <1>6, <1>7 DEF Behaves

LEMMA PutBehaves ==
    ASSUME NEW p \in Processes, Stepping(p), PutBack(p)
    PROVE  Behaves(p)
<1>0. /\ UNCHANGED <<entry, outcome, journal, debris, graph, confirmed>>
      /\ pc[p] = "put back" /\ pc[p] \in Inside
      /\ pc'[p] = "check restored" /\ Moves(journal.backup, "active")
  BY Known DEF PutBack, Renames, Goto, Inside, Recovering
<1>1. /\ journal.backup \in Containers /\ place[journal.backup] = "backup"
      /\ "active" \in Places /\ "active" # "stage"
  BY <1>0, Known DEF AtRecovery, BackedUp, OnJournal, Places
<1>2. /\ Frame(p) /\ place'[journal.backup] = "active"
      /\ \A c \in Containers : c # journal.backup => place'[c] = place[c]
  BY <1>0, <1>1, MovesFrame
<1>3. Regular(p)'
  <2>1. /\ place'[p] = "stage" => place[p] = "stage"
        /\ place[p] = "nowhere" => place'[p] = "nowhere"
    BY <1>1, <1>2, Known
  <2>2. ~ Ready(p)'
    BY <1>0 DEF Ready
  <2> QED
    BY <1>0, <2>1, <2>2, Known DEF Regular
<1>4. Certain(p)
  BY <1>0, Known DEF Certain, Sound
<1>5. ~ NoCrash
  BY <1>0, Known DEF Straight
<1> QED
  BY <1>2, <1>3, <1>4, <1>5 DEF Behaves

LEMMA ClearBehaves ==
    ASSUME NEW p \in Processes, Stepping(p), Clear(p)
    PROVE  Behaves(p)
<1>0. /\ UNCHANGED <<entry, outcome, status, place, debris, graph, leases>>
      /\ pc[p] = "clear" /\ pc[p] \in Inside /\ journal # None /\ journal' = None
      /\ confirmed \subseteq confirmed'
      /\ aside'[p] = IF status[p] = "completed" THEN journal.backup ELSE None
      /\ pc'[p] = IF status[p] = "completed" /\ journal.backup # None THEN "drop backup"
                                                                      ELSE "sweep"
  BY Known DEF Clear, Clears, Goto, Inside, Recovering, OnJournal
<1>1. pc'[p] \in {"drop backup", "sweep"}
  BY <1>0
<1>2. Frame(p)
  BY <1>0 DEF Frame
<1>3. Regular(p)'
  BY <1>0, <1>1, Known DEF Regular, Ready
<1>4. Certain(p)
  BY <1>0, <1>1, Known DEF Certain, Sound
<1>5. ASSUME NoCrash
      PROVE  Straight(p)' /\ Clean(p)
  <2>1. Straight(p)'
    BY <1>0, <1>1, <1>5, Known DEF Straight
  <2>2. entry[p] = "confirm" => entry'[p] = "confirm"
    BY <1>0
  <2>3. \A lease \in leases' : lease \in leases /\ lease[1] # p
    <3>1. ~ Leases(p)
      BY <1>0 DEF Leases
    <3> QED
      BY <1>0, <1>5, <3>1, Known DEF Tidy
  <2>4. ASSUME NEW c \in Containers, place'[c] = "backup"
        PROVE  Drops(p, c)' \/ (journal' = None /\ \E q \in Processes : q # p /\ Drops(q, c))
    <3>1. CASE journal.backup = c
      <4>1. status[p] = "completed"
        BY <1>0, <2>4, <3>1, Known DEF AtRecovery, Reverted
      <4> QED
        BY <1>0, <2>4, <3>1, <4>1, Known DEF Drops
    <3>2. CASE journal.backup # c
      <4>1. Tidy /\ place[c] = "backup"
        BY <1>0, <1>5, <2>4, Known
      <4>2. PICK q \in Processes : Drops(q, c)
        BY <3>2, <4>1 DEF Tidy
      <4>3. q # p
        BY <1>0, <4>2 DEF Drops
      <4> QED
        BY <1>0, <4>2, <4>3
    <3> QED
      BY <3>1, <3>2
  <2>5. \A q \in Processes : \A c : q # p => ~ Drops(q, c)
    <3>1. \A q \in Processes : \A c : Drops(q, c) => pc[q] \in Inside
      BY DEF Drops, Inside, Recovering
    <3> QED
      BY <1>0, <3>1 DEF Stepping, Honest, Whereabouts, Registry, Exclusive
  <2>6. Minds(p)' /\ \A c : ~ Disposes(p, c)
    BY <1>0, <1>1 DEF Minds, Recovering, Disposes, Taken
  <2> QED
    BY <1>0, <2>1, <2>2, <2>3, <2>4, <2>5, <2>6 DEF Clean
<1> QED
  BY <1>2, <1>3, <1>4, <1>5 DEF Behaves

LEMMA DropBehaves ==
    ASSUME NEW p \in Processes, Stepping(p), DropBackup(p)
    PROVE  Behaves(p)
<1>0. /\ UNCHANGED <<entry, outcome, status, aside, journal, graph, leases, confirmed>>
      /\ pc[p] = "drop backup" /\ pc[p] \in Inside
      /\ debris' = debris \union {aside[p]}
      /\ \/ pc'[p] = "drop backup" /\ place' = place
         \/ pc'[p] = "sweep" /\ place' = [place EXCEPT ![aside[p]] = "nowhere"]
  BY Known DEF DropBackup, Deletes, Goto, Moves, Inside, Recovering
<1>1. aside[p] \in Containers /\ place[aside[p]] = "backup" /\ journal = None
  BY <1>0, Known DEF AtRecovery, OnAside, Unjournaled
<1>2. /\ \A c \in Containers : c # aside[p] => place'[c] = place[c]
      /\ place'[aside[p]] \in {"backup", "nowhere"}
      /\ pc'[p] \in {"drop backup", "sweep"}
      /\ place'[aside[p]] = "backup" => pc'[p] = "drop backup"
  <2>1. place \in [Containers -> Places]
    BY Known
  <2>2. CASE pc'[p] = "drop backup" /\ place' = place
    BY <1>1, <2>2
  <2>3. CASE pc'[p] = "sweep" /\ place' = [place EXCEPT ![aside[p]] = "nowhere"]
    BY <1>1, <2>1, <2>3
  <2> QED
    BY <1>0, <2>2, <2>3
<1>3. Frame(p)
  BY <1>0, <1>1, <1>2 DEF Frame
<1>4. Regular(p)'
  <2>1. /\ place'[p] = "stage" => place[p] = "stage" /\ p # aside[p]
        /\ place[p] = "nowhere" => place'[p] = "nowhere" /\ p # aside[p]
    BY <1>1, <1>2, Known
  <2>2. ~ Ready(p)'
    BY <1>2 DEF Ready
  <2>3. place'[p] = "stage" \/ entry'[p] = "first" \/ pc'[p] = "stage" => p \notin debris'
    BY <1>0, <1>2, <2>1, Known DEF Regular, AtStage
  <2> QED
    BY <1>0, <1>2, <2>1, <2>2, <2>3, Known DEF Regular
<1>5. Certain(p)
  BY <1>0, <1>2, Known DEF Certain, Sound
<1>6. ASSUME NoCrash
      PROVE  Straight(p)' /\ Clean(p)
  <2>1. /\ place'[p] = "stage" => place[p] = "stage"
        /\ place[p] \in {"nowhere", "stage"} => place'[p] = place[p]
    BY <1>1, <1>2, Known
  <2>2. Straight(p)'
    BY <1>0, <1>2, <1>6, <2>1, Known DEF Straight
  <2>3. \A lease \in leases' : lease \in leases /\ lease[1] # p
    <3>1. ~ Leases(p)
      BY <1>0 DEF Leases
    <3>2. \A lease \in leases : Leases(lease[1])
      BY <1>6, Known DEF Tidy
    <3> QED
      BY <1>0, <3>1, <3>2
  <2>4. \A c \in Containers : place'[c] = "backup" =>
          Drops(p, c)' \/ (place[c] = "backup" /\ ~ Drops(p, c))
    BY <1>0, <1>1, <1>2 DEF Drops
  <2>5. Minds(p)' /\ ~ Mine(p) /\ \A c : ~ Disposes(p, c)
    BY <1>0, <1>2 DEF Minds, Recovering, Disposes, Taken, Mine
  <2>6. \A c \in Containers : place'[c] = "inactive" => place[c] = "inactive"
    BY <1>2
  <2> QED
    BY <1>0, <1>1, <2>2, <2>3, <2>4, <2>5, <2>6 DEF Clean
<1> QED
  BY <1>3, <1>4, <1>5, <1>6 DEF Behaves

(* Loading and its leases.  *)
LEMMA LoadBehaves ==
    ASSUME NEW p \in Processes, Stepping(p), Load(p) \/ Unload(p)
    PROVE  Behaves(p)
<1>0. /\ UNCHANGED <<entry, outcome, status, aside, journal, place, debris, graph, confirmed>>
      /\ pc[p] \in Inside /\ pc'[p] = "release"
      /\ \/ /\ pc[p] = "load" /\ entry[p] = "load"
            /\ \A lease \in leases' : lease \in leases \/ lease[1] = p
         \/ /\ pc[p] = "unload" /\ entry[p] = "unload"
            /\ \A lease \in leases' : lease \in leases /\ lease[1] # p
  <2>1. CASE Load(p)
    <3>1. PICK loaded \in SUBSET {c \in Containers : place[c] = "active" /\ Whole(c)} :
            leases' = leases \union ({p} \X loaded)
      BY <2>1 DEF Load
    <3>2. \A lease \in leases' : lease \in leases \/ lease[1] = p
      BY <3>1
    <3> QED
      BY <2>1, <3>2, Known DEF Load, Goto, Inside, Operating
  <2>2. CASE Unload(p)
    <3>1. pc[p] = "unload" /\ entry[p] = "unload"
      BY <2>2, Known DEF Unload, Sound
    <3>2. leases' = leases \ Own(p)
      BY <2>2, Known DEF Unload
    <3>3. \A lease \in leases' : lease \in leases /\ lease[1] # p
      <4>1. leases \subseteq Processes \X Containers
        BY TypedIsTypeOK DEF Stepping, Honest, Whereabouts, Registry, Typed
      <4> QED
        BY <3>2, <4>1 DEF Own
    <3> QED
      BY <2>2, <3>1, <3>3, Known DEF Unload, Goto, Inside, Operating
  <2> QED
    BY <2>1, <2>2
<1>1. Quiet(p)
  BY <1>0, Known DEF Quiet
<1>2. Frame(p)
  BY <1>0, <1>1, QuietFrame
<1>3. Regular(p)'
  <2>1. pc[p] = "load" => journal = None
    BY Known DEF AtRecovery, Unjournaled
  <2> QED
    BY <1>0, <2>1, Known DEF Regular, Ready
<1>4. Certain(p)
  BY <1>0, Known DEF Certain, Sound
<1>5. ASSUME NoCrash
      PROVE  Straight(p)' /\ Clean(p)
  <2>1. Straight(p) /\ Straight(p)'
    BY <1>0, <1>5, Known DEF Straight
  <2>2. \A lease \in leases' : lease[1] = p => Leases(p)'
    BY <1>0 DEF Leases
  <2>3. ~ Mine(p) /\ (Minds(p) => Minds(p)')
    BY <1>0 DEF Mine, Minds, Recovering
  <2>4. \A c : ~ Drops(p, c) /\ ~ Disposes(p, c)
    BY <1>0 DEF Drops, Disposes, Taken
  <2> QED
    BY <1>0, <2>1, <2>2, <2>3, <2>4 DEF Clean
<1> QED
  BY <1>2, <1>3, <1>4, <1>5 DEF Behaves

(* The sweep leaves the module graphs of active containers, and those that *)
(* a process holds leases of.                                              *)
LEMMA SweepBehaves ==
    ASSUME NEW p \in Processes, Stepping(p), SweepUnreferencedModuleGraphs(p)
    PROVE  Behaves(p)
<1>0. /\ UNCHANGED <<entry, outcome, status, aside, journal, place, debris, confirmed>>
      /\ pc[p] = "sweep" /\ pc[p] \in Inside /\ leases' \subseteq leases
      /\ graph' = [c \in Containers |-> IF c \in Needless({}) THEN "nowhere" ELSE graph[c]]
      /\ pc'[p] = Operation(p)
  <2>1. /\ UNCHANGED <<entry, outcome, status, aside, journal, place, debris, confirmed>>
        /\ pc[p] = "sweep" /\ leases' = LiveLeases /\ Goto(p, Operation(p))
        /\ graph' = [c \in Containers |-> IF c \in Needless({}) THEN "nowhere" ELSE graph[c]]
    <3>0. ~ Fault
      BY Known
    <3>1. PICK unread \in IF PointersReadable THEN {{}} ELSE SUBSET Containers :
          \E removed \in SUBSET Needless(unread) :
            /\ graph' = [c \in Containers |-> IF c \in removed THEN "nowhere" ELSE graph[c]]
            /\ unread = {} /\ removed = Needless({}) /\ leases' = LiveLeases
            /\ Goto(p, Operation(p))
      BY <3>0, Zenon DEF SweepUnreferencedModuleGraphs
    <3>2. /\ UNCHANGED <<entry, outcome, status, aside, journal, place, debris, confirmed>>
          /\ pc[p] = "sweep"
      BY DEF SweepUnreferencedModuleGraphs
    <3> QED
      BY <3>1, <3>2
  <2>2. pc'[p] = Operation(p)
    BY <2>1, Known DEF Goto
  <2> QED
    BY <2>1, <2>2 DEF LiveLeases, Inside, Recovering
<1>1. /\ pc'[p] \in {"conflict", "load", "find", "release"}
      /\ pc'[p] = "release" => entry[p] \notin {"promote", "load"}
  <2>1. /\ entry[p] = "promote" => Operation(p) = "conflict"
        /\ entry[p] = "load" => Operation(p) = "load"
    BY Zenon DEF Operation
  <2>2. Operation(p) \in {"conflict", "load", "find", "release"}
    BY Known, OperationStep
  <2> QED
    BY <1>0, <2>1, <2>2
<1>2. Frame(p)
  BY <1>0 DEF Frame
<1>3. Regular(p)'
  <2>1. journal = None
    BY <1>0, Known DEF AtRecovery, Unjournaled
  <2> QED
    BY <1>0, <1>1, <2>1, Known DEF Regular, Ready
<1>4. Certain(p)
  BY <1>0, <1>1, Known DEF Certain, Sound
<1>5. ASSUME NoCrash
      PROVE  Straight(p)' /\ Clean(p)
  <2>1. Straight(p)'
    BY <1>0, <1>1, <1>5, Known DEF Straight
  <2>2. \A lease \in leases : lease[1] \in Processes /\ Leases(lease[1])
    <3>1. leases \subseteq Processes \X Containers
      BY TypedIsTypeOK DEF Stepping, Honest, Whereabouts, Registry, Typed
    <3>2. \A lease \in leases : Leases(lease[1])
      BY <1>5, Known DEF Tidy
    <3> QED
      BY <3>1, <3>2
  <2>3. ~ Leases(p) /\ ~ Mine(p) /\ \A c : ~ Drops(p, c) /\ ~ Disposes(p, c)
    BY <1>0 DEF Leases, Mine, Drops, Disposes, Taken
  <2>4. \A q \in Processes : Leases(q) => Minds(q)
    <3>1. \A q \in Processes : Regular(q) /\ Straight(q)
      BY <1>5 DEF Stepping, Honest
    <3> QED
      BY <3>1 DEF Leases, Minds, Regular, Straight
  <2>5. ASSUME NEW c \in Containers, graph'[c] = "root", place'[c] = "nowhere"
        PROVE  \E q \in Processes : q # p /\ Minds(q)
    <3>1. c \notin Needless({}) /\ graph[c] = "root"
      BY <1>0, <2>5
    <3>2. \E lease \in leases : lease[2] = c
      BY <1>0, <2>5, <3>1 DEF Needless
    <3> QED
      BY <2>2, <2>3, <2>4, <3>2
  <2> QED
    BY <1>0, <2>1, <2>2, <2>3, <2>5 DEF Clean
<1> QED
  BY <1>2, <1>3, <1>4, <1>5 DEF Behaves

(* The staging, and its end.  *)
LEMMA StageBehaves ==
    ASSUME NEW p \in Processes, Stepping(p), Stage(p)
    PROVE  Behaves(p)
<1>0. /\ UNCHANGED <<status, aside, journal, debris, leases, confirmed>>
      /\ pc[p] = "stage" /\ pc[p] \notin Inside /\ entry[p] = "promote" /\ place[p] = "nowhere"
      /\ p \notin debris
  BY Known
     DEF Stage, Inside, Recovering, Operating, Releasing, OfPromotion, AtStage, Regular
<1>1. /\ \A q \in Processes : q # p => outcome'[q] = outcome[q]
      /\ \A c \in Containers : c # p => place'[c] = place[c] /\ graph'[c] = graph[c]
      /\ \/ /\ place'[p] = "stage" /\ graph'[p] = "stage"
            /\ pc'[p] = "enter" /\ entry'[p] = "promote" /\ outcome'[p] = outcome[p]
         \/ /\ place'[p] = place[p] /\ graph'[p] = graph[p]
            /\ pc'[p] = "unstage" /\ entry'[p] = "cleanup" /\ outcome'[p] = "failed"
  <2>1. CASE Continue(p, "unstage", "cleanup", "failed") /\ UNCHANGED <<place, graph>>
    BY <2>1, ContinueAll
  <2>2. CASE /\ Moves(p, "stage") /\ graph' = [graph EXCEPT ![p] = "stage"]
             /\ Goto(p, "enter") /\ UNCHANGED <<entry, outcome>>
    BY <1>0, <2>2, Known DEF Moves, Goto
  <2> QED
    BY <2>1, <2>2 DEF Stage
<1>2. Frame(p)
  BY <1>0, <1>1 DEF Frame, Whole
<1>3. Regular(p)'
  BY <1>0, <1>1, Known DEF Regular, Ready, OfInstall
<1>4. Certain(p)
  BY <1>0, <1>1, Known DEF Certain, Sound
<1>5. ASSUME NoCrash
      PROVE  Straight(p)' /\ Clean(p)
  <2>1. Straight(p) /\ Straight(p)'
    BY <1>0, <1>1, <1>5, Known DEF Straight
  <2>2. \A lease \in leases' : lease \in leases /\ lease[1] # p
    <3>1. ~ Leases(p)
      BY <1>0 DEF Leases
    <3>2. \A lease \in leases : Leases(lease[1])
      BY <1>5, Known DEF Tidy
    <3> QED
      BY <1>0, <3>1, <3>2
  <2>3. ~ Mine(p) /\ ~ Minds(p) /\ \A c : ~ Drops(p, c) /\ ~ Disposes(p, c)
    BY <1>0, <2>1 DEF Mine, Minds, Recovering, Drops, Disposes, Taken, Straight
  <2>4. \A c \in Containers :
          /\ place'[c] \in {"backup", "inactive"} => place[c] = place'[c]
          /\ graph'[c] = "root" /\ place'[c] = "nowhere" =>
               graph[c] = "root" /\ place[c] = "nowhere"
    BY <1>1
  <2> QED
    BY <1>0, <1>1, <2>1, <2>2, <2>3, <2>4 DEF Clean
<1> QED
  BY <1>2, <1>3, <1>4, <1>5 DEF Behaves

LEMMA UnstageBehaves ==
    ASSUME NEW p \in Processes, Stepping(p), Unstage(p)
    PROVE  Behaves(p)
<1>0. /\ UNCHANGED <<entry, outcome, status, aside, journal, debris, leases, confirmed>>
      /\ pc[p] = "unstage" /\ pc[p] \notin Inside /\ entry[p] = "cleanup"
      /\ pc'[p] = IF outcome[p] = "failed" THEN "enter" ELSE "ended"
  <2>1. /\ UNCHANGED <<entry, outcome, status, aside, journal, debris, leases, confirmed>>
        /\ pc[p] = "unstage"
        /\ Goto(p, IF outcome[p] = "failed" THEN "enter" ELSE "ended")
    BY Known DEF Unstage
  <2>2. pc[p] \notin Inside /\ entry[p] = "cleanup"
    BY <2>1, Known DEF Inside, Recovering, Operating, Releasing, Regular
  <2> QED
    BY <2>1, <2>2, Known DEF Goto
<1>1. /\ \A c \in Containers : c # p => place'[c] = place[c] /\ graph'[c] = graph[c]
      /\ place'[p] = IF place[p] = "stage" THEN "nowhere" ELSE place[p]
      /\ graph'[p] = IF graph[p] = "stage" THEN "nowhere" ELSE graph[p]
  <2>1. /\ place' = [place EXCEPT ![p] = IF place[p] = "stage" THEN "nowhere" ELSE place[p]]
        /\ graph' = [graph EXCEPT ![p] = IF graph[p] = "stage" THEN "nowhere" ELSE graph[p]]
    BY Known DEF Unstage
  <2> QED
    BY <2>1, Known
<1>2. Frame(p)
  BY <1>0, <1>1 DEF Frame, Whole
<1>3. Regular(p)'
  BY <1>0, <1>1, Known DEF Regular, Ready, OfInstall
<1>4. Certain(p)
  BY <1>0, <1>1, Known DEF Certain, Sound
<1>5. ASSUME NoCrash
      PROVE  Straight(p)' /\ Clean(p)
  <2>1. Straight(p) /\ Straight(p)'
    BY <1>0, <1>1, <1>5, Known DEF Straight
  <2>2. \A lease \in leases' : lease \in leases /\ lease[1] # p
    <3>1. ~ Leases(p)
      BY <1>0 DEF Leases
    <3>2. \A lease \in leases : Leases(lease[1])
      BY <1>5, Known DEF Tidy
    <3> QED
      BY <1>0, <3>1, <3>2
  <2>3. ~ Mine(p) /\ ~ Minds(p) /\ \A c : ~ Drops(p, c) /\ ~ Disposes(p, c)
    BY <1>0, <2>1 DEF Mine, Minds, Recovering, Drops, Disposes, Taken, Straight
  <2>4. place[p] = "stage" => Minds(p)'
    BY <1>0, <2>1 DEF Straight, Minds
  <2>5. \A c \in Containers :
          /\ place'[c] \in {"backup", "inactive"} => place[c] = place'[c]
          /\ graph'[c] = "root" /\ place'[c] = "nowhere" /\ ~ Minds(p)' =>
               graph[c] = "root" /\ place[c] = "nowhere"
    BY <1>1, <2>4
  <2> QED
    BY <1>0, <1>1, <2>1, <2>2, <2>3, <2>5 DEF Clean
<1> QED
  BY <1>2, <1>3, <1>4, <1>5 DEF Behaves

LEMMA DiscardBehaves ==
    ASSUME NEW p \in Processes, Stepping(p), Discard(p)
    PROVE  Behaves(p)
<1>0. /\ UNCHANGED <<entry, outcome, status, journal, graph, leases, confirmed>>
      /\ pc[p] = "discard" /\ pc[p] \notin Inside /\ entry[p] = "after"
      /\ aside[p] \in Containers /\ place[aside[p]] = "inactive"
      /\ debris' = debris \union {aside[p]}
      /\ \/ pc'[p] = "discard" /\ aside'[p] = aside[p] /\ place' = place
         \/ pc'[p] = "enter" /\ Moves(aside[p], "nowhere")
  <2>1. /\ UNCHANGED <<entry, outcome, status, journal, graph, leases, confirmed>>
        /\ pc[p] = "discard" /\ debris' = debris \union {aside[p]}
        /\ \/ pc' = pc /\ place' = place
           \/ Goto(p, "enter") /\ Moves(aside[p], "nowhere")
        /\ aside' = [aside EXCEPT ![p] = IF pc'[p] = "enter" THEN None ELSE aside[p]]
    BY Known DEF Discard, Deletes, Removing
  <2>2. pc[p] \notin Inside /\ entry[p] = "after"
    BY <2>1, Known DEF Inside, Recovering, Operating, Releasing, Regular
  <2>3. aside[p] \in Containers /\ place[aside[p]] = "inactive"
    BY <2>1, Known DEF OnAside, AtRemoval
  <2>4. pc' = pc => aside'[p] = aside[p]
    BY <2>1, Known
  <2> QED
    BY <2>1, <2>2, <2>3, <2>4, Known DEF Goto
<1>1. /\ \A c \in Containers : c # aside[p] => place'[c] = place[c]
      /\ \/ pc'[p] = "discard" /\ aside'[p] = aside[p] /\ place'[aside[p]] = "inactive"
         \/ pc'[p] = "enter" /\ place'[aside[p]] = "nowhere"
  <2>1. CASE pc'[p] = "discard" /\ aside'[p] = aside[p] /\ place' = place
    BY <1>0, <2>1
  <2>2. CASE pc'[p] = "enter" /\ Moves(aside[p], "nowhere")
    <3>1. place \in [Containers -> Places]
      BY Known
    <3> QED
      BY <1>0, <2>2, <3>1 DEF Moves
  <2> QED
    BY <1>0, <2>1, <2>2
<1>2. Frame(p)
  BY <1>0, <1>1 DEF Frame, Whole
<1>3. /\ place'[p] = "stage" => place[p] = "stage" /\ p # aside[p]
      /\ place[p] \in {"nowhere", "stage"} => place'[p] = place[p] /\ p # aside[p]
  BY <1>0, <1>1, Known
<1>4. Regular(p)'
  BY <1>0, <1>1, <1>3, Known DEF Regular, Ready
<1>5. Certain(p)
  BY <1>0, <1>1, Known DEF Certain, Sound
<1>6. ASSUME NoCrash
      PROVE  Straight(p)' /\ Clean(p)
  <2>1. Straight(p) /\ Straight(p)'
    BY <1>0, <1>1, <1>3, <1>6, Known DEF Straight
  <2>2. \A lease \in leases' : lease \in leases /\ lease[1] # p
    <3>1. ~ Leases(p)
      BY <1>0 DEF Leases
    <3>2. \A lease \in leases : Leases(lease[1])
      BY <1>6, Known DEF Tidy
    <3> QED
      BY <1>0, <3>1, <3>2
  <2>3. ~ Mine(p) /\ ~ Minds(p) /\ \A c : ~ Drops(p, c)
    BY <1>0, <2>1 DEF Mine, Minds, Recovering, Drops, Straight
  <2>4. ASSUME NEW c \in Containers, place'[c] = "inactive"
        PROVE  Disposes(p, c)' \/ (place[c] = "inactive" /\ ~ Disposes(p, c))
    BY <1>1, <2>4 DEF Disposes
  <2>5. \A c \in Containers : place'[c] = "backup" => place[c] = "backup"
    BY <1>1
  <2>6. \A c \in Containers :
          graph'[c] = "root" /\ place'[c] = "nowhere" /\ ~ Minds(p)' =>
            graph[c] = "root" /\ place[c] = "nowhere"
    BY <1>0, <1>1 DEF Minds
  <2> QED
    BY <1>0, <2>1, <2>2, <2>3, <2>4, <2>5, <2>6 DEF Clean
<1> QED
  BY <1>2, <1>4, <1>5, <1>6 DEF Behaves

(* The promotion, where it changes something else than places. *)
LEMMA GraphBehaves ==
    ASSUME NEW p \in Processes, Stepping(p), MoveGraph(p)
    PROVE  Behaves(p)
<1>0. /\ UNCHANGED <<entry, outcome, status, aside, journal, place, debris, leases, confirmed>>
      /\ pc[p] = "move graph" /\ pc'[p] = "point" /\ pc[p] \in Inside
      /\ entry[p] = "promote" /\ place[p] = "stage"
      /\ graph'[p] = "root" /\ \A c \in Containers : c # p => graph'[c] = graph[c]
  <2>1. /\ UNCHANGED <<entry, outcome, status, aside, journal, place, debris, leases,
                       confirmed>>
        /\ pc[p] = "move graph" /\ Goto(p, "point")
        /\ graph' = [graph EXCEPT ![p] = "root"]
    BY Known DEF MoveGraph, Promoting
  <2>2. entry[p] = "promote" /\ place[p] = "stage" /\ pc[p] \in Inside
    BY <2>1, Known DEF AtStage, Inside, Operating, OfPromotion
  <2> QED
    BY <2>1, <2>2, Known DEF Goto
<1>1. Frame(p)
  BY <1>0 DEF Frame
<1>2. Regular(p)'
  BY <1>0, Known DEF Regular, Ready, Whole
<1>3. Certain(p)
  BY <1>0, Known DEF Certain, Sound
<1>4. ASSUME NoCrash
      PROVE  Straight(p)' /\ Clean(p)
  <2>1. Straight(p) /\ Straight(p)'
    BY <1>0, <1>4, Known DEF Straight
  <2>2. \A lease \in leases' : lease \in leases /\ lease[1] # p
    <3>1. ~ Leases(p)
      BY <1>0 DEF Leases
    <3>2. \A lease \in leases : Leases(lease[1])
      BY <1>4, Known DEF Tidy
    <3> QED
      BY <1>0, <3>1, <3>2
  <2>3. ~ Mine(p) /\ ~ Minds(p) /\ \A c : ~ Drops(p, c) /\ ~ Disposes(p, c)
    BY <1>0, <2>1 DEF Mine, Minds, Recovering, Drops, Disposes, Taken, Straight
  <2> QED
    BY <1>0, <2>1, <2>2, <2>3 DEF Clean
<1> QED
  BY <1>1, <1>2, <1>3, <1>4 DEF Behaves

LEMMA JournalBehaves ==
    ASSUME NEW p \in Processes, Stepping(p), WriteJournal(p)
    PROVE  Behaves(p)
<1>0. /\ UNCHANGED <<entry, outcome, status, aside, place, debris, graph, leases, confirmed>>
      /\ pc[p] = "journal" /\ pc'[p] \in {"move old", "move new"} /\ pc[p] \in Inside
      /\ entry[p] = "promote" /\ journal = None
  BY Known
     DEF WriteJournal, Goto, Promoting, Inside, Operating, OfPromotion, AtRecovery, Unjournaled
<1>1. Frame(p)
  BY <1>0 DEF Frame
<1>2. Regular(p)'
  BY <1>0, Known DEF Regular, Ready, Whole
<1>3. Certain(p)
  BY <1>0, Known DEF Certain, Sound
<1>4. ASSUME NoCrash
      PROVE  Straight(p)' /\ Clean(p)
  <2>1. Straight(p) /\ Straight(p)'
    BY <1>0, <1>4, Known DEF Straight
  <2>2. \A lease \in leases' : lease \in leases /\ lease[1] # p
    <3>1. ~ Leases(p)
      BY <1>0 DEF Leases
    <3>2. \A lease \in leases : Leases(lease[1])
      BY <1>4, Known DEF Tidy
    <3> QED
      BY <1>0, <3>1, <3>2
  <2>3. Mine(p)' /\ ~ Minds(p) /\ \A c : ~ Disposes(p, c)
    BY <1>0, <2>1 DEF Mine, Minds, Recovering, Disposes, Taken, Straight
  <2>4. \A c \in Containers : place[c] # "backup"
    <3>1. \A q \in Processes : \A c : Drops(q, c) => pc[q] \in Inside /\ q # p
      BY <1>0 DEF Drops, Inside, Recovering
    <3>2. \A q \in Processes : \A c : ~ Drops(q, c)
      BY <1>0, <3>1 DEF Stepping, Honest, Whereabouts, Registry, Exclusive
    <3> QED
      BY <1>0, <1>4, <3>2, Known DEF Tidy
  <2> QED
    BY <1>0, <2>1, <2>2, <2>3, <2>4 DEF Clean
<1> QED
  BY <1>1, <1>2, <1>3, <1>4 DEF Behaves

LEMMA UnjournalBehaves ==
    ASSUME NEW p \in Processes, Stepping(p), Unjournal(p)
    PROVE  Behaves(p)
<1>0. /\ UNCHANGED <<entry, outcome, status, aside, place, debris, graph, leases, confirmed>>
      /\ pc[p] = "unjournal" /\ pc'[p] = "fail" /\ pc[p] \in Inside /\ journal' = None
      /\ entry[p] = "promote" /\ place[p] = "stage"
  BY Known
     DEF Unjournal, Goto, Promoting, Inside, Operating, OfPromotion, Regular
<1>1. Frame(p)
  BY <1>0 DEF Frame
<1>2. Regular(p)'
  BY <1>0, Known DEF Regular, Ready, Whole
<1>3. Certain(p)
  BY <1>0, Known DEF Certain, Sound
<1>4. ASSUME NoCrash
      PROVE  Straight(p)' /\ Clean(p)
  <2>1. Straight(p) /\ Straight(p)'
    BY <1>0, <1>4, Known DEF Straight
  <2>2. \A lease \in leases' : lease \in leases /\ lease[1] # p
    <3>1. ~ Leases(p)
      BY <1>0 DEF Leases
    <3>2. \A lease \in leases : Leases(lease[1])
      BY <1>4, Known DEF Tidy
    <3> QED
      BY <1>0, <3>1, <3>2
  <2>3. ~ Minds(p) /\ \A c : ~ Disposes(p, c)
    BY <1>0, <2>1 DEF Minds, Recovering, Disposes, Taken, Straight
  <2>4. \A c \in Containers : place[c] # "backup"
    <3>1. \A q \in Processes : \A c : Drops(q, c) => pc[q] \in Inside /\ q # p
      BY <1>0 DEF Drops, Inside, Recovering
    <3>2. \A q \in Processes : \A c : ~ Drops(q, c)
      BY <1>0, <3>1 DEF Stepping, Honest, Whereabouts, Registry, Exclusive
    <3>3. Reverted /\ None \notin Containers
      BY <1>0, Known DEF AtPromotion
    <3>4. journal # None => \A c \in Containers : journal.backup = c => place[c] = "active"
      BY <3>3 DEF Reverted
    <3> QED
      BY <1>4, <3>2, <3>4, Known DEF Tidy
  <2> QED
    BY <1>0, <2>1, <2>2, <2>3, <2>4 DEF Clean
<1> QED
  BY <1>1, <1>2, <1>3, <1>4 DEF Behaves

-----------------------------------------------------------------------------
(* Every action behaves: so the invariant stays until a file operation     *)
(* fails.                                                                  *)
LEMMA ActsBehave ==
    ASSUME NEW p \in Processes, Stepping(p), Acts(p)
    PROVE  Behaves(p)
<1>1. ~ RecoveryFails(p)
  BY Known DEF RecoveryFails
<1>2. Recovers(p) => Behaves(p)
  BY <1>1, ReadBehaves, JudgeBehaves, RemoveBehaves, PutBehaves, CheckBehaves, ClearBehaves,
     DropBehaves, SweepBehaves DEF Recovers
<1>3. Installs(p) => Behaves(p)
  BY StageBehaves, UnstageBehaves, PromotingBehaves, GraphBehaves, JournalBehaves, OldBehaves,
     NewBehaves, TakenBehaves, GivenBehaves, UnjournalBehaves DEF Installs
<1>4. Loads(p) => Behaves(p)
  BY LoadBehaves, UseBehaves DEF Loads
<1>5. Removes(p) => Behaves(p)
  BY FindBehaves, AwayBehaves, DiscardBehaves DEF Removes
<1> QED
  BY <1>2, <1>3, <1>4, <1>5, EnterBehaves, ReleaseBehaves, FailBehaves, CrashBehaves DEF Acts

(* A file operation that failed is remembered.  *)
LEMMA FaultsStay ==
    ASSUME faults \in 0..MaxFaults, NEW p \in Processes, Acts(p), faults' = 0
    PROVE  faults = 0
<1>1. faults' = faults \/ Fault
  BY DEF Acts, Recovers, Installs, Loads, Removes, Enter, Release, Fail,
         RecoverClientPluginPromotion, RecoveryFails, Judge, RemoveTarget, PutBack,
         CheckRestored, Clear, Clears, DropBackup, SweepUnreferencedModuleGraphs, Stage,
         Unstage, AssertNoConflict, MoveGraph, WritePointer, WriteJournal, MoveOld, MoveNew,
         Accept, TakeBack, GiveBack, Unjournal, Load, Use, Unload, Find, MoveAway, BringBack,
         Discard, Crash, Renames, Deletes
<1> QED
  BY <1>1, PluginsAssumption DEF Fault

LEMMA StartHonest == Init => Honest
<1> SUFFICES ASSUME Init
             PROVE  Honest
  OBVIOUS
<1>1. Whereabouts /\ Registry
  BY StartWhereabouts DEF Whereabouts
<1>2. /\ pc = [p \in Processes |-> "enter"]
      /\ entry = [p \in Processes |-> FirstEntry[command[p].kind]]
      /\ status = [p \in Processes |-> "none"]
      /\ outcome = [p \in Processes |-> "none"]
      /\ journal = None /\ debris = {} /\ leases = {} /\ faults = 0
  BY DEF Init
<1>3. PICK installed \in SUBSET Packages :
        /\ place = [c \in Containers |-> IF c \in installed THEN "active" ELSE "nowhere"]
        /\ graph = [c \in Containers |-> IF c \in installed THEN "root" ELSE "nowhere"]
  BY DEF Init
<1>4. \A p \in Processes : command[p].kind \in {"install", "remove", "load"}
  BY <1>1 DEF Registry, TypeOK, Commands
<1>5. \A p \in Processes :
        /\ entry[p] \in {"first", "remove", "load"}
        /\ command[p].kind # "install" => entry[p] # "first"
  BY <1>2, <1>4 DEF FirstEntry
<1>6. \A p \in Processes : p \in Containers /\ place[p] = "nowhere" /\ graph[p] = "nowhere"
  BY <1>3, PluginsAssumption DEF Containers
<1>7. \A p \in Processes : Regular(p) /\ Sound(p) /\ Straight(p)
  BY <1>2, <1>5, <1>6 DEF Regular, Sound, Straight, OfInstall, Ready
<1>8. Tidy
  BY <1>2, <1>3, PluginsAssumption DEF Tidy, Containers
<1> QED
  BY <1>1, <1>2, <1>7, <1>8 DEF Honest

LEMMA StutterHonest ==
    ASSUME Honest, UNCHANGED vars
    PROVE  Honest'
<1>0. UNCHANGED <<command, pc, entry, status, aside, outcome, holder, journal, place, debris,
                  graph, leases, confirmed, faults>>
  BY DEF vars
<1>1. Whereabouts'
  BY <1>0, StutterWhereabouts DEF Honest
<1>2. /\ \A c : (Whole(c)' <=> Whole(c)) /\ PackageOf(c)' = PackageOf(c)
      /\ (BackedUp' <=> BackedUp)
      /\ (NoCrash' <=> NoCrash)
  BY <1>0 DEF Whole, PackageOf, BackedUp, NoCrash
<1>3. Target' = Target
  BY <1>0, <1>2 DEF Target, Active
<1>4. \A p \in Processes :
        /\ (Ready(p)' <=> Ready(p)) /\ (Pending(p)' <=> Pending(p)) /\ (Mine(p)' <=> Mine(p))
        /\ (Taken(p)' <=> Taken(p)) /\ (Leases(p)' <=> Leases(p)) /\ (Minds(p)' <=> Minds(p))
  BY <1>0, <1>2 DEF Ready, Pending, Mine, Taken, Leases, Minds
<1>5. \A p \in Processes : Regular(p)'
  BY <1>0, <1>2, <1>4 DEF Honest, Regular
<1>6. \A p \in Processes : Sound(p)'
  BY <1>0, <1>2, <1>3, <1>4 DEF Honest, Sound
<1>7. NoCrash' => \A p \in Processes : Straight(p)'
  BY <1>0, <1>2 DEF Honest, Straight
<1>8. ASSUME NoCrash'
      PROVE  Tidy'
  <2>1. Tidy
    BY <1>2, <1>8 DEF Honest
  <2>2. leases \subseteq Processes \X Containers
    BY TypedIsTypeOK DEF Honest, Whereabouts, Registry, Typed
  <2>3. \A p \in Processes : \A c :
          (Drops(p, c)' <=> Drops(p, c)) /\ (Disposes(p, c)' <=> Disposes(p, c))
    BY <1>0, <1>4 DEF Drops, Disposes
  <2>4. \A lease \in leases' : Leases(lease[1])'
    BY <1>0, <1>4, <2>1, <2>2 DEF Tidy
  <2>5. /\ journal' # None =>
             \E p \in Processes : (Mine(p) \/ (entry[p] = "confirm" /\ Pending(p)))'
        /\ \A c \in Packages : place'[c] # "stage"
    BY <1>0, <1>4, <2>1 DEF Tidy
  <2>6. \A c \in Containers : place'[c] = "backup" =>
          (journal' # None /\ journal'.backup = c) \/ \E p \in Processes : Drops(p, c)'
    BY <1>0, <2>1, <2>3 DEF Tidy
  <2>7. \A c \in Containers :
          /\ place'[c] = "inactive" => \E p \in Processes : Disposes(p, c)'
          /\ graph'[c] = "root" /\ place'[c] = "nowhere" => \E p \in Processes : Minds(p)'
    BY <1>0, <1>4, <2>1, <2>3 DEF Tidy
  <2> QED
    BY <2>4, <2>5, <2>6, <2>7 DEF Tidy
<1> QED
  BY <1>0, <1>1, <1>5, <1>6, <1>7, <1>8 DEF Honest

(* The invariant, until a file operation fails.  Nothing is assumed about  *)
(* PointersReadable: a pointer that cannot be read is such a failure.      *)
THEOREM Faultless == Spec => [](faults = 0 => Honest)
<1>1. Init => (faults = 0 => Honest)
  BY StartHonest
<1>2. TypeOK /\ (faults = 0 => Honest) /\ [Next]_vars => (faults = 0 => Honest)'
  <2> SUFFICES ASSUME TypeOK, faults = 0 => Honest, [Next]_vars, faults' = 0
               PROVE  Honest'
    OBVIOUS
  <2>1. CASE Next
    <3>1. PICK p \in Processes : Acts(p)
      BY <2>1 DEF Next, Acts
    <3>2. faults = 0
      BY <3>1, FaultsStay DEF TypeOK
    <3>3. Honest
      BY <3>2
    <3>4. Typed' /\ Apart(p) /\ Lands(p) /\ Whereabouts'
      BY <3>1, <3>2, <3>3, ActsLand DEF Honest
    <3>5. Stepping(p)
      BY <3>3, <3>4 DEF Stepping
    <3> QED
      BY <3>1, <3>5, ActsBehave, HonestStays
  <2>2. CASE UNCHANGED vars
    <3>1. faults = 0
      BY <2>2 DEF vars
    <3> QED
      BY <2>2, <3>1, StutterHonest
  <2> QED
    BY <2>1, <2>2
<1> QED
  BY <1>1, <1>2, Typing, PTL DEF Spec

(* Without I/O errors "installed" is said of promotions that a recovery    *)
(* completed, whichever process it was in; and "failed", if no process     *)
(* crashes, of containers that are not active (installClientAdapter).      *)
THEOREM Honesty == Spec => []HonestOutcome
<1>1. (faults = 0 => Honest) => HonestOutcome
  BY DEF Honest, Sound, Straight, NoCrash, HonestOutcome
<1> QED
  BY <1>1, Faultless, PTL

(* Commands that end without errors and crashes leave nothing behind but   *)
(* what is active and what a program had loaded.                           *)
THEOREM Tidiness == Spec => []NothingLeftBehind
<1>1. (faults = 0 => Honest) => NothingLeftBehind
  <2> SUFFICES ASSUME Honest, \A p \in Processes : pc[p] = "ended"
               PROVE  /\ journal = None
                      /\ leases = {}
                      /\ \A c \in Containers :
                           /\ place[c] \in {"active", "nowhere"}
                           /\ graph[c] = "root" =>
                                \/ place[c] = "active"
                                \/ \E p \in Processes : outcome[p] = "loaded"
    BY DEF NothingLeftBehind
  <2>1. Tidy /\ \A p \in Processes : Straight(p) /\ Regular(p)
    BY DEF Honest, NoCrash
  <2>2. /\ leases \subseteq Processes \X Containers
        /\ place \in [Containers -> Places]
    BY TypedIsTypeOK DEF Honest, Whereabouts, Registry, Typed
  <2>3. \A p \in Processes :
          /\ entry[p] \notin {"promote", "confirm"} /\ ~ Mine(p) /\ ~ Leases(p)
          /\ \A c : ~ Drops(p, c) /\ ~ Disposes(p, c)
          /\ Minds(p) => outcome[p] = "loaded"
    BY <2>1 DEF Regular, Mine, Leases, Drops, Disposes, Taken, Minds, Recovering
  <2>4. journal = None
    BY <2>1, <2>3 DEF Tidy
  <2>5. leases = {}
    BY <2>1, <2>2, <2>3 DEF Tidy
  <2>6. ASSUME NEW c \in Containers
        PROVE  place[c] \in {"active", "nowhere"}
    <3>1. place[c] \notin {"backup", "inactive"}
      BY <2>1, <2>3, <2>4 DEF Tidy
    <3>2. place[c] # "stage"
      BY <2>1, <2>3 DEF Tidy, Straight, Containers
    <3> QED
      BY <2>2, <3>1, <3>2 DEF Places
  <2> QED
    BY <2>1, <2>3, <2>4, <2>5, <2>6 DEF Tidy
<1> QED
  BY <1>1, Faultless, PTL

=============================================================================
