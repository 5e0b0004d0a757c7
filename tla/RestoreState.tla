---------------------------- MODULE RestoreState -----------------------------
(* What setup remembers so that restore can undo it, and how both decide from  *)
(* the files on disk.  A disk d has                                            *)
(*   d.config[c]   the entries of client configuration c                       *)
(*   d.policy[p], d.saved[p]   a policy, and the saved policy beside it        *)
(*   d.profile[i]  whether OAuth profile i is stored                           *)
(*   d.route[o]    the managed HTTP route of owner o = <<c, n>>                *)
(*   d.state[c]    the restore record of each server of c                      *)
(*   d.backups[c]  the backed-up contents of c, newest first                   *)
(* Contents stand for themselves: a fingerprint is equal when the file is.     *)
EXTENDS Wrapper

Owners == Configs \X Names
Paths == {PolicyLocation(o[1], o[2]) : o \in Owners}
NoFile == ""

NoRecord == [original |-> [n \in Names |-> NoEntry], installed |-> [n \in Names |-> NoEntry],
             created |-> FALSE, path |-> "", before |-> NoFile, policy |-> NoFile,
             route |-> NoRoute]

(* The adapters' restore, one entry of it: the current entry must be the one   *)
(* setup installed, and there must be an original to put back, unless setup    *)
(* created the entry.  Without a record (a backup only) the current entry must *)
(* be a wrapper around the upstream that the original connects to.             *)
WrapsOriginal(wrapper, original) ==
    /\ wrapper.policy # "" /\ original.policy = ""
    /\ original.source # NoSource /\ wrapper.source = original.source
Restorable(content, n, entry) ==
    /\ content[n] # NoEntry
    /\ IF entry.tracked
       THEN /\ content[n] = entry.installed[n]
            /\ entry.original[n] # NoEntry \/ entry.created
       ELSE WrapsOriginal(ParseEntry(content[n]), ParseEntry(entry.original[n]))

FromRecord(record) ==
    [original |-> record.original, installed |-> record.installed,
     created |-> record.created, tracked |-> TRUE]
FromBackup(content) ==
    [original |-> content, installed |-> content, created |-> FALSE, tracked |-> FALSE]

(* restoreAdapterConfig: the configuration with the entries of `by` put back. *)
RestoredConfig(content, by) ==
    [n \in Names |-> IF n \in DOMAIN by THEN by[n].original[n] ELSE content[n]]

(* findLegacyRestoreEntry: the newest backup that restores the entry, as a set. *)
LegacyRestoreEntry(d, c, n) ==
    LET good == {i \in DOMAIN d.backups[c] :
                    Restorable(d.config[c], n, FromBackup(d.backups[c][i]))}
    IN  {FromBackup(d.backups[c][i]) : i \in {j \in good : \A k \in good : j <= k}}

------------------------------------------------------------------------------

(* readRestoreStateIndex: the owners whose record names policy p. *)
References(d, p) == {o \in Owners : d.state[o[1]][o[2]].path = p}

(* assertPolicyTakeoversAllowed *)
TakeoverAllowed(d, p, except) == References(d, p) \subseteq except

(* currentOwnedRoute: the record's route is the one on disk and serves the URL *)
(* of the entry, or is gone already.                                           *)
RouteIsOwned(d, c, n) ==
    LET route == d.route[<<c, n>>]
    IN  route = NoRoute \/ /\ route = d.state[c][n].route
                           /\ d.config[c][n].words = <<RouteUrl(route.port, <<c, n>>)>>

IsLocalHttp(entry) == entry.type = "http"

(* classifyManagedRoutes takes a server out of what setup offers when a record *)
(* says that setup created an entry of that name; an Add sees the others.      *)
OfferedToAdd(d, c) ==
    {n \in Names : /\ Supported(d.config[c][n])
                   /\ ~(IsLocalHttp(d.config[c][n]) /\ d.state[c][n].created)}

(* loadRestoreChoices: how the entry of server n can be restored, as a set of  *)
(* at most one choice.                                                         *)
ChoicesFor(d, c, n, record, managed) ==
    IF record # NoRecord /\ record.created /\ record.route # NoRoute /\ IsLocalHttp(d.config[c][n])
    THEN IF RouteIsOwned(d, c, n) /\ Restorable(d.config[c], n, FromRecord(record))
         THEN {[kind |-> "route", by |-> FromRecord(record)]} ELSE {}
    ELSE IF managed = "" THEN {}
    ELSE IF record # NoRecord /\ record.path = managed
    THEN {[kind |-> "record", by |-> FromRecord(record)]}
    ELSE {[kind |-> "legacy", by |-> entry] : entry \in LegacyRestoreEntry(d, c, n)}

RestoreChoices(d, c, n) ==
    ChoicesFor(d, c, n, d.state[c][n], ManagedPolicy(d.config[c][n]))

------------------------------------------------------------------------------

(* Mutation: the records of the other configurations are not looked at. *)
PolicyIsRestoredBlindly(d, T, p) ==
    LET records == {d.state[o[1]][o[2]] : o \in {q \in T : d.state[q[1]][q[2]].path = p}}
    IN  /\ records # {} /\ d.policy[p] # NoFile
        /\ \A r, q \in records : r.policy = d.policy[p] /\ r.before = q.before

(* planSelectedRestore for the policies of the tracked owners T: one is put    *)
(* back when it is still what setup installed, every selected record agrees on *)
(* what was there before, and no other record names it.  The rest are retained. *)
PolicyIsRestored(d, T, p) ==
    LET records == {d.state[o[1]][o[2]] : o \in {q \in T : d.state[q[1]][q[2]].path = p}}
    IN  /\ records # {}
        /\ References(d, p) \subseteq T
        /\ d.policy[p] # NoFile
        /\ \A r, q \in records : r.policy = d.policy[p] /\ r.before = q.before

BeforePolicy(d, T, p) ==
    (CHOOSE r \in {d.state[o[1]][o[2]] : o \in T} : r.path = p).before

(* The disk after a restore of the choices `picked`. *)
AfterRestore(d, picked) ==
    LET T == {o \in DOMAIN picked : picked[o].kind # "legacy"}
    IN  [d EXCEPT
          !.config = [c \in Configs |->
              RestoredConfig(d.config[c],
                 [n \in {m \in Names : <<c, m>> \in DOMAIN picked} |-> picked[<<c, n>>].by])],
          !.route = [o \in Owners |->
              IF o \in DOMAIN picked /\ picked[o].kind = "route" THEN NoRoute ELSE d.route[o]],
          !.policy = [p \in Paths |->
              IF PolicyIsRestored(d, T, p) THEN BeforePolicy(d, T, p) ELSE d.policy[p]],
          !.state = [c \in Configs |-> [n \in Names |->
              IF <<c, n>> \in T THEN NoRecord ELSE d.state[c][n]]]]

------------------------------------------------------------------------------

(* planSetupRestoreStateChanges, one selection: whose original a new record of *)
(* the entry keeps.  A wrapper that was set up before keeps the original and   *)
(* the earlier policy of its record, or of a backup when the record does not   *)
(* fit the entry; with neither the record is dropped.                          *)
Adoption(d, c, n) ==
    LET record == d.state[c][n]
    IN  IF ManagedPolicy(d.config[c][n]) = "" THEN "fresh"
        ELSE IF /\ record # NoRecord
                /\ Restorable(d.config[c], n, [FromRecord(record) EXCEPT !.original = d.config[c]])
        THEN "record"
        ELSE IF LegacyRestoreEntry(d, c, n) # {} THEN "legacy" ELSE "none"

(* Mutation: a server that is set up again gets a record from scratch. *)
EarlierPolicyForgotten(d, c, n, adoption) == d.policy[PolicyLocation(c, n)]

(* The policy a restore will put back: what the file held before setup's first *)
(* write of it.                                                                *)
EarlierPolicy(d, c, n, adoption) ==
    IF adoption = "record" THEN d.state[c][n].before ELSE d.policy[PolicyLocation(c, n)]

RecordAs(adoption, d, c, n, installed, policy, created, route) ==
    IF adoption = "none" THEN NoRecord
    ELSE [original |-> CASE adoption = "fresh" -> d.config[c]
                         [] adoption = "record" -> d.state[c][n].original
                         [] adoption = "legacy" ->
                              (CHOOSE e \in LegacyRestoreEntry(d, c, n) : TRUE).original,
          installed |-> installed,
          created |-> IF adoption = "record" THEN d.state[c][n].created ELSE created,
          path |-> PolicyLocation(c, n),
          before |-> EarlierPolicy(d, c, n, adoption),
          policy |-> policy,
          route |-> route]

NewRecord(d, c, n, installed, policy, created, route) ==
    RecordAs(Adoption(d, c, n), d, c, n, installed, policy, created, route)
==============================================================================
