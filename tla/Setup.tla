-------------------------------- MODULE Setup --------------------------------
(* The setup and restore commands: what they read before the user confirms,    *)
(* what they check again under the restore lock, the order of their writes,    *)
(* and what verification, an abort, a crash or the user's own edits do to it.  *)
(*                                                                             *)
(* A session is one run of `setup` (Add or Manual) or `restore`.  It reads and *)
(* asks without a lock, plans under the lock, and then changes one file at a   *)
(* time; the lock lasts until the last file is verified or put back.  A file   *)
(* in moved[s] was replaced by somebody else since session s looked at it: the *)
(* identity that sameFileSnapshot compares.                                    *)
EXTENDS RestoreState, Discovery, FiniteSets

CONSTANTS
    Sessions,      \* runs of the commands, as short strings
    Scenes,        \* what the machine looks like, which commands are run, and what the
                   \* user chooses from: policies, saving one, entries written by hand
                   \* (and the entry each stands for), a number of mishaps
    Ports          \* the gateway ports a user may choose

VARIABLES
    scene,     \* the scene chosen at the start
    disk,
    sess,      \* what each session is doing and has read
    moved,
    own,       \* own[o]: the entry the user last gave owner o's server by hand
    mine,      \* mine[p]: the policy the user had at p without setup
    tampered,  \* owners whose wrapper was changed by hand, or half undone, or whose entry
               \* an Add mistook for the user's
    broken,    \* policies that an interrupted command, or a record that did not fit, left behind
    removed,   \* policies the user has deleted by hand, until setup writes them again
    mishaps

PathOf(o) == PolicyLocation(o[1], o[2])

(* What the user has written into configurations by hand, and what setup has.  *)
IsWrapper(entry) == entry.type = "stdio" /\ entry.words[1] = Command
Hands(sc) ==
    {NoEntry} \cup {sc.entries[o[1]][o[2]] : o \in Owners} \cup {edit.own : edit \in sc.edits}

(* The profile a login of session s produces. *)
Profile(s) == "id-" \o s
Profiles == {Profile(s) : s \in Sessions}

(* A scene is a machine before setup: no entry of the user's starts the wrapper *)
(* or names the gateway's own URL, and a wrapper that is pasted back is one.    *)
(* What a user types describes an upstream: no OAuth profile and no wrapper     *)
(* (one that setup has written is refused when it is read back).                *)
ASSUME SceneAssumption ==
    /\ \A o \in Owners : PathOf(o) \in STRING /\ Plain(PathOf(o))
    /\ \A s \in Sessions : Plain(Profile(s))
    /\ \A sc \in Scenes :
          /\ sc.entries = [c \in Configs |-> [n \in Names |-> sc.entries[c][n]]]
          /\ sc.policies = [p \in Paths |-> sc.policies[p]]
          /\ sc.names \subseteq Names /\ \A s \in Sessions : sc.files[s] \subseteq Configs
          /\ NoFile \notin sc.choices
          /\ \A entry \in Hands(sc) :
                ~IsWrapper(entry) /\ \A port \in Ports, o \in Owners : entry # HttpEntry(port, o)
          /\ \A edit \in sc.edits : edit.entry = edit.own \/ IsWrapper(edit.entry)
          /\ sc.typed \in Sources /\ sc.typed.profile = ""
          /\ sc.typed.kind = "stdio" /\ sc.typed.target # <<>> => sc.typed.target[1] # Command

vars == <<scene, disk, sess, moved, own, mine, tampered, broken, removed, mishaps>>

------------------------------------------------------------------------------

File(kind, key) == <<kind, key>>
RouteKey(o) == o[1] \o "/" \o o[2]
ConfigFile(c) == File("config", c)
StateFile(c) == File("state", c)
PolicyFile(p) == File("policy", p)
SavedFile(p) == File("saved", p)
ProfileFile(i) == File("profile", i)
RouteFile(o) == File("route", RouteKey(o))

(* Disk d with the files F as they are on disk e: how writes, or their undoing,  *)
(* land.                                                                       *)
Copy(d, F, e) ==
    [d EXCEPT
       !.config = [c \in Configs |-> IF ConfigFile(c) \in F THEN e.config[c] ELSE d.config[c]],
       !.state = [c \in Configs |-> IF StateFile(c) \in F THEN e.state[c] ELSE d.state[c]],
       !.policy = [p \in Paths |-> IF PolicyFile(p) \in F THEN e.policy[p] ELSE d.policy[p]],
       !.saved = [p \in Paths |-> IF SavedFile(p) \in F THEN e.saved[p] ELSE d.saved[p]],
       !.profile = [i \in Profiles |->
                       IF ProfileFile(i) \in F THEN e.profile[i] ELSE d.profile[i]],
       !.route = [o \in Owners |-> IF RouteFile(o) \in F THEN e.route[o] ELSE d.route[o]]]

(* sameFileSnapshot with what the session saw, or still no such policy. *)
PolicyUnchanged(s, p) ==
    \/ PolicyFile(p) \notin moved[s]
    \/ sess[s].policies[p] = NoFile /\ disk.policy[p] = NoFile

------------------------------------------------------------------------------

NoPick == [kind |-> "", by |-> FromBackup([n \in Names |-> NoEntry]), from |-> "",
           policy |-> NoFile, source |-> NoSource, port |-> "", save |-> FALSE]

Idle == [pc |-> "start", picked |-> <<>>, seen |-> <<>>, policies |-> <<>>, missing |-> {},
         healed |-> {}, files |-> {}, written |-> {}, before |-> <<>>, after |-> <<>>]

TypeOK ==
    /\ scene \in Scenes
    /\ \A s \in Sessions : /\ sess[s].pc \in {"start", "loaded", "chosen", "writing", "ended"}
                           /\ sess[s].written \subseteq sess[s].files
    /\ \A o \in Owners : disk.route[o] = NoRoute \/ ValidRoute(disk.route[o])
    /\ \A s, r \in Sessions : sess[s].pc = "writing" /\ sess[r].pc = "writing" => s = r

Init ==
    /\ scene \in Scenes
    /\ disk = [config |-> scene.entries, policy |-> scene.policies,
               saved |-> [p \in Paths |-> NoFile],
               profile |-> [i \in Profiles |-> FALSE],
               route |-> [o \in Owners |-> NoRoute],
               state |-> [c \in Configs |-> [n \in Names |-> NoRecord]],
               backups |-> [c \in Configs |-> <<>>]]
    /\ sess = [s \in Sessions |-> Idle]
    /\ moved = [s \in Sessions |-> {}]
    /\ own = [o \in Owners |-> scene.entries[o[1]][o[2]]]
    /\ mine = scene.policies
    /\ tampered = {} /\ broken = {} /\ removed = {}
    /\ mishaps = 0

(* withRestoreStateLock: one session writes at a time. *)
LockFree == \A s \in Sessions : sess[s].pc # "writing"

Runs(s, command, pc) == scene.command[s] = command /\ sess[s].pc = pc

(* Somebody has replaced the files F; `except` did it. *)
Moved(F, except) ==
    moved' = [s \in Sessions |-> IF s \in except THEN moved[s] \ F
                                 ELSE IF sess[s].pc \in {"loaded", "chosen", "writing"}
                                 THEN moved[s] \cup F ELSE moved[s]]

Reads(s, F) == moved' = [moved EXCEPT ![s] = @ \ F]

Becomes(s, session) == sess' = [sess EXCEPT ![s] = session]

(* A session that has read the configurations and lets the user choose. *)
Loaded(pc, picked) == [Idle EXCEPT !.pc = pc, !.seen = disk.config, !.picked = picked]

(* The session is over, however it went. *)
Ends(s) ==
    /\ Becomes(s, [Idle EXCEPT !.pc = "ended"])
    /\ moved' = [moved EXCEPT ![s] = {}]

------------------------------------------------------------------------------

(* Add: the adapters' configurations are loaded and the user selects servers. *)
AddLoad(s) ==
    /\ Runs(s, "add", "start")
    /\ \E T \in SUBSET {o \in Owners : o[1] \in scene.files[s] /\ o[2] \in OfferedToAdd(disk, o[1])} :
          /\ T # {}
          /\ Becomes(s, Loaded("loaded", [o \in T |-> NoPick]))
    /\ UNCHANGED <<scene, disk, moved, own, mine, tampered, broken, removed, mishaps>>

(* Where a policy comes from: the one that is there (for a server that is not  *)
(* set up yet), a saved one, or a new one, which may be saved for later.       *)
PolicySources(p, managed) ==
    {[from |-> "existing", policy |-> disk.policy[p], save |-> FALSE] :
        x \in IF disk.policy[p] # NoFile /\ ~managed THEN {1} ELSE {}}
    \cup {[from |-> "saved", policy |-> disk.saved[p], save |-> FALSE] :
        x \in IF disk.saved[p] # NoFile THEN {1} ELSE {}}
    \cup {[from |-> "configure", policy |-> policy, save |-> save] :
        policy \in scene.choices,
        save \in IF disk.saved[p] = NoFile THEN scene.saves ELSE {FALSE}}

Pick(choice, found, port) ==
    [NoPick EXCEPT !.from = choice.from, !.policy = choice.policy, !.save = choice.save,
                   !.source = found, !.port = port]
Picks(choices, servers, ports) ==
    {Pick(choice, found, port) : choice \in choices, found \in servers, port \in ports}

(* A pasted wrapper may name a profile of another machine. *)
Stored(i) == i \in Profiles /\ disk.profile[i]

(* What may be chosen for a server: an OAuth profile it names is one that is stored. *)
AddPicks(s, o) ==
    LET managed == ManagedPolicy(sess[s].seen[o[1]][o[2]]) = PathOf(o)
        src == ParseEntry(sess[s].seen[o[1]][o[2]]).source
    IN  Picks(PolicySources(PathOf(o), managed),
              IF src.profile # "" /\ ~Stored(src.profile) THEN {}
              ELSE DiscoverSetupServer(ServerCandidates(o[1], src), Profile(s)),
              {""})

(* The policy is chosen and read, the server asked for its tools; the others   *)
(* that were selected keep their current policy.                               *)
AddChoose(s) ==
    LET T == DOMAIN sess[s].picked
    IN  /\ Runs(s, "add", "loaded")
        /\ \E kept \in (SUBSET T) \ {{}} : \E picked \in [kept -> UNION {AddPicks(s, o) : o \in kept}] :
              /\ \A o \in T \ kept : /\ ManagedPolicy(sess[s].seen[o[1]][o[2]]) = PathOf(o)
                                     /\ disk.policy[PathOf(o)] # NoFile
              /\ \A o \in kept : picked[o] \in AddPicks(s, o)
              /\ Becomes(s, [sess[s] EXCEPT !.pc = "chosen", !.picked = picked,
                                            !.policies = disk.policy])
        /\ Reads(s, UNION {{PolicyFile(PathOf(o)), SavedFile(PathOf(o))} : o \in T}
                       \cup {ProfileFile(i) : i \in Profiles})
        /\ UNCHANGED <<scene, disk, own, mine, tampered, broken, removed, mishaps>>

(* The ports that routes are at; the first route's is for the user to choose.  *)
UsedPorts == {disk.route[o].port : o \in {q \in Owners : disk.route[q] # NoRoute}}

ManualPicks(s, c, n, port) ==
    Picks(PolicySources(PolicyLocation(c, n), FALSE),
          DiscoverSetupServer(<<scene.typed>>, Profile(s)), {"", port})

(* Manual: the user names an upstream and the configurations it goes into, and *)
(* for each whether the client starts the wrapper or connects to the gateway.  *)
ManualLoad(s) ==
    /\ Runs(s, "manual", "start")
    /\ \E n \in scene.names, port \in IF UsedPorts = {} THEN Ports ELSE UsedPorts :
       \E C \in SUBSET {c \in scene.files[s] : disk.config[c][n] = NoEntry} :
          /\ C # {}
          \* At most one destination per client and scope.
          /\ \A c, e \in C : c = e \/ <<Client[c], Root[c]>> # <<Client[e], Root[e]>>
          /\ \E pick \in [C -> UNION {ManualPicks(s, c, n, port) : c \in C}] :
                /\ \A c \in C : pick[c] \in ManualPicks(s, c, n, port)
                /\ (\E c \in C : pick[c].port # "") => RoutesLoad(disk.route)
                /\ LET picked == [o \in {<<c, n>> : c \in C} |-> pick[o[1]]]
                   IN  Becomes(s, [Loaded("chosen", picked) EXCEPT !.policies = disk.policy])
    /\ UNCHANGED <<scene, disk, moved, own, mine, tampered, broken, removed, mishaps>>

(* Restore: the managed servers that can be restored are listed and selected. *)
RestoreLoad(s) ==
    LET Offered == {o \in Owners : o[1] \in scene.files[s] /\ RestoreChoices(disk, o[1], o[2]) # {}}
        Choice(o) == CHOOSE choice \in RestoreChoices(disk, o[1], o[2]) : TRUE
    IN  /\ Runs(s, "restore", "start")
        /\ \E T \in (SUBSET Offered) \ {{}} :
              LET picked == [o \in T |-> [NoPick EXCEPT !.kind = Choice(o).kind, !.by = Choice(o).by]]
              IN  Becomes(s, [Loaded("chosen", picked) EXCEPT
                                !.missing = {o \in T : disk.route[o] = NoRoute}])
        /\ UNCHANGED <<scene, disk, moved, own, mine, tampered, broken, removed, mishaps>>

(* A refused confirmation, a failed discovery, a file that changed before the  *)
(* preview, nothing to select: the session ends and has written nothing.       *)
Cancel(s) ==
    /\ sess[s].pc \in {"start", "loaded", "chosen"}
    /\ Ends(s)
    /\ UNCHANGED <<scene, disk, own, mine, tampered, broken, removed, mishaps>>

------------------------------------------------------------------------------

ConfigsOf(T) == {o[1] : o \in T}

(* recheckPolicySource: a saved or existing policy is the file that was read. *)
SourceUnchanged(s, o) ==
    CASE sess[s].picked[o].from = "saved" -> SavedFile(PathOf(o)) \notin moved[s]
      [] sess[s].picked[o].from = "existing" -> PolicyFile(PathOf(o)) \notin moved[s]
      [] OTHER -> TRUE

DistinctPolicies(T) == \A o, q \in T : PathOf(o) = PathOf(q) => o = q

(* planWrites refuses a configuration whose content is not the one the user    *)
(* chose from, and a policy that is not the file, or the absence, it saw; the  *)
(* transaction a profile that was replaced, or a new saved policy that is one; *)
(* buildWrapperArgs an upstream that no command line can describe.             *)
PlanIsCurrent(s, T) ==
    /\ DistinctPolicies(T)
    /\ \A o \in T : /\ SourceUnchanged(s, o)
                    /\ disk.config[o[1]] = sess[s].seen[o[1]]
                    /\ PolicyUnchanged(s, PathOf(o))
                    /\ ProfileFile(sess[s].picked[o].source.profile) \notin moved[s]
                    /\ sess[s].picked[o].save => disk.saved[PathOf(o)] = NoFile
                    /\ WritableSource(sess[s].picked[o].source)

AddReady(s) ==
    LET T == DOMAIN sess[s].picked
    IN  /\ PlanIsCurrent(s, T)
        \* A policy that is there and not this server's own is taken over.
        /\ \A o \in T : disk.policy[PathOf(o)] # NoFile
                           /\ ManagedPolicy(disk.config[o[1]][o[2]]) # PathOf(o)
                        => TakeoverAllowed(disk, PathOf(o), {o})

(* Mutation: it is enough that the routes can be loaded. *)
RoutesLoadable(s) == RoutesLoad(disk.route)

(* assertRoutesUnchanged: the gateway's routes are those the port was chosen by. *)
RoutesUnchanged(s) == RoutesLoad(disk.route) /\ \A o \in Owners : RouteFile(o) \notin moved[s]

(* The routes of a manual setup, for the destinations that are reached by HTTP. *)
ManualRoutes(s) ==
    [o \in DOMAIN sess[s].picked |->
        LET pick == sess[s].picked[o]
        IN  IF pick.port = "" THEN NoRoute ELSE RouteDefinition(pick.port, o, PathOf(o), pick.source)]

(* serializeRoute refuses a route that parseRoute would.  *)
ManualReady(s) ==
    LET T == DOMAIN sess[s].picked
        http == {o \in T : sess[s].picked[o].port # ""}
    IN  /\ http # {} => RoutesUnchanged(s)
        /\ \A o \in http : disk.route[o] = NoRoute /\ ValidRoute(ManualRoutes(s)[o])
        /\ PlanIsCurrent(s, T)
        /\ \A o \in T : ConfigFile(o[1]) \notin moved[s] /\ TakeoverAllowed(disk, PathOf(o), {})

(* planSelectedRestore reads everything again and compares identities. *)
RestoreReady(s) ==
    \A o \in DOMAIN sess[s].picked :
        LET pick == sess[s].picked[o]
        IN  /\ ConfigFile(o[1]) \notin moved[s]
            /\ Restorable(disk.config[o[1]], o[2], pick.by)
            /\ pick.kind # "legacy" => StateFile(o[1]) \notin moved[s]
            /\ pick.kind = "route" => IF o \in sess[s].missing THEN disk.route[o] = NoRoute
                                      ELSE RouteFile(o) \notin moved[s]

------------------------------------------------------------------------------

(* The disk once the plan of session s has been written in full.  The new      *)
(* contents of a configuration are made from the one that was loaded.          *)
Installed(s, entries, routes, created) ==
    LET picked == sess[s].picked
        T == DOMAIN picked
        loaded == [c \in Configs |-> IF c \in ConfigsOf(T) THEN sess[s].seen[c] ELSE disk.config[c]]
        config == [c \in Configs |-> [n \in Names |->
                      IF <<c, n>> \in T THEN entries[<<c, n>>] ELSE loaded[c][n]]]
        Put(files, chosen) ==
            [p \in Paths |-> IF \E o \in chosen : PathOf(o) = p
                             THEN picked[CHOOSE o \in chosen : PathOf(o) = p].policy
                             ELSE files[p]]
    IN  [disk EXCEPT
          !.config = config,
          !.saved = Put(disk.saved, {o \in T : picked[o].save}),
          !.profile = [i \in Profiles |-> disk.profile[i] \/ \E o \in T : picked[o].source.profile = i],
          !.policy = Put(disk.policy, T),
          !.route = [o \in Owners |-> IF o \in T /\ routes[o] # NoRoute
                                      THEN routes[o] ELSE disk.route[o]],
          !.state = [c \in Configs |-> [n \in Names |->
              IF <<c, n>> \in T
              THEN NewRecord([disk EXCEPT !.config = loaded], c, n, config[c], picked[<<c, n>>].policy, created,
                             routes[<<c, n>>])
              ELSE disk.state[c][n]]]]

(* The files a plan writes, kind by kind. *)
SavedFiles(s) == {SavedFile(PathOf(o)) : o \in {q \in DOMAIN sess[s].picked : sess[s].picked[q].save}}
ProfileFiles(s) ==
    {ProfileFile(sess[s].picked[o].source.profile) :
        o \in {q \in DOMAIN sess[s].picked : sess[s].picked[q].source.profile # ""}}
PolicyFiles(s) == {PolicyFile(PathOf(o)) : o \in DOMAIN sess[s].picked}
ConfigFiles(s) == {ConfigFile(c) : c \in ConfigsOf(DOMAIN sess[s].picked)}
StateFiles(after) == {StateFile(c) : c \in {e \in Configs : after.state[e] # disk.state[e]}}
RouteFiles(after) == {RouteFile(o) : o \in {q \in Owners : after.route[q] # disk.route[q]}}

(* applyFileTransaction: every file that is there is backed up before the first *)
(* is written.  Only a configuration's backups are ever read again.             *)
Begin(s, files, after, healed) ==
    /\ Becomes(s, [sess[s] EXCEPT !.pc = "writing", !.files = files, !.before = disk,
                                  !.after = after, !.healed = healed])
    /\ moved' = [moved EXCEPT ![s] = {}]
    /\ disk' = [disk EXCEPT !.backups = [c \in Configs |->
                   (IF ConfigFile(c) \in files THEN <<disk.config[c]>> ELSE <<>>)
                      \o disk.backups[c]]]

Owned(kinds, T) == {o \in T : Adoption(disk, o[1], o[2]) \in kinds}

BeginSetup(s, after, healed) ==
    Begin(s, SavedFiles(s) \cup ProfileFiles(s) \cup PolicyFiles(s) \cup RouteFiles(after)
                 \cup StateFiles(after) \cup ConfigFiles(s), after, healed)

(* A wrapper that no record fits is whole again when the backup it is adopted  *)
(* with holds the entry the user gave the server last.                         *)
Refound(T) ==
    {o \in Owned({"legacy"}, T) :
        \A by \in LegacyRestoreEntry(disk, o[1], o[2]) : by.original[o[2]] = own[o]}

(* An entry of the gateway's that another setup has installed again, the same  *)
(* as the one the session has read: it passes for the user's.                  *)
Mistaken(T) ==
    {o \in T : /\ IsLocalHttp(disk.config[o[1]][o[2]])
               /\ disk.state[o[1]][o[2]].installed[o[2]] = disk.config[o[1]][o[2]]}

AddPlan(s) ==
    LET T == DOMAIN sess[s].picked
        entries == [o \in T |-> WrapperEntry(PathOf(o), sess[s].picked[o].source,
                                             sess[s].seen[o[1]][o[2]])]
    IN  /\ Runs(s, "add", "chosen") /\ LockFree /\ AddReady(s)
        /\ BeginSetup(s, Installed(s, entries, [o \in T |-> NoRoute], FALSE), Refound(T))
        \* The policy of a wrapper whose record did not fit is taken for the user's.
        /\ broken' = broken \cup {PathOf(o) : o \in Owned({"legacy", "none"}, T)}
        /\ tampered' = tampered \cup Mistaken(T)
        /\ UNCHANGED <<scene, own, mine, removed, mishaps>>

ManualPlan(s) ==
    LET T == DOMAIN sess[s].picked
        picked == sess[s].picked
        entries == [o \in T |-> IF picked[o].port = ""
                                THEN WrapperEntry(PathOf(o), picked[o].source, NoEntry)
                                ELSE HttpEntry(picked[o].port, o)]
    IN  /\ Runs(s, "manual", "chosen") /\ LockFree /\ ManualReady(s)
        /\ BeginSetup(s, Installed(s, entries, ManualRoutes(s), TRUE), {})
        /\ UNCHANGED <<scene, own, mine, tampered, broken, removed, mishaps>>

BeginRestore(s, after, policies) ==
    Begin(s, RouteFiles(after) \cup ConfigFiles(s) \cup policies \cup StateFiles(after), after,
          {o \in tampered \cap DOMAIN sess[s].picked : after.config[o[1]][o[2]] = own[o]})

RestorePlan(s) ==
    LET T == {o \in DOMAIN sess[s].picked : sess[s].picked[o].kind # "legacy"}
    IN  /\ Runs(s, "restore", "chosen") /\ LockFree /\ RestoreReady(s)
        /\ BeginRestore(s, AfterRestore(disk, sess[s].picked),
                        {PolicyFile(p) : p \in {q \in Paths : PolicyIsRestored(disk, T, q)}})
        \* What a backup puts back leaves the policy, and a record that did not fit.
        /\ broken' = broken \cup {PathOf(o) : o \in DOMAIN sess[s].picked \ T}
        /\ UNCHANGED <<scene, own, mine, tampered, removed, mishaps>>

(* A check under the lock fails: nothing has been written. *)
Refused(s) ==
    /\ LockFree
    /\ \/ Runs(s, "add", "chosen") /\ ~AddReady(s)
       \/ Runs(s, "manual", "chosen") /\ ~ManualReady(s)
       \/ Runs(s, "restore", "chosen") /\ ~RestoreReady(s)
    /\ Ends(s)
    /\ UNCHANGED <<scene, disk, own, mine, tampered, broken, removed, mishaps>>

------------------------------------------------------------------------------

Writing(s) == sess[s].pc = "writing"
Files(s) == sess[s].files
Written(s) == sess[s].written
WrittenPaths(s) == {p \in Paths : PolicyFile(p) \in Files(s)}

(* The policies that a session which dies, or has to leave a file of the user's *)
(* as it is, may leave with a record or an entry that does not fit.             *)
Touched(s) == WrittenPaths(s) \cup {PathOf(o) : o \in DOMAIN sess[s].picked}

(* Mutation: the entries are written before their records. *)
SetupRankEntriesFirst ==
    [saved |-> 1, profile |-> 2, policy |-> 3, route |-> 4, config |-> 5, state |-> 6]

(* The order of the writes, by kind of file: whatever refers to a file comes    *)
(* after it, and the record of a change before the change.                      *)
SetupRank == [saved |-> 1, profile |-> 2, policy |-> 3, route |-> 4, state |-> 5, config |-> 6]

(* A restore takes the routes and the entries away first, and forgets last. *)
RestoreRank == [route |-> 1, config |-> 2, policy |-> 3, state |-> 4]

(* The files that may come next; files of one kind refer to none of the same.   *)
Due(s) ==
    LET rank == IF scene.command[s] = "restore" THEN RestoreRank ELSE SetupRank
        pending == Files(s) \ Written(s)
    IN  {f \in pending : \A g \in pending : rank[f[1]] <= rank[g[1]]}

(* One file of the transaction, replaced only if it is still as planned. *)
Write(s) ==
    \E f \in Due(s) \ moved[s] :
        /\ Writing(s)
        /\ disk' = Copy(disk, {f}, sess[s].after)
        /\ Becomes(s, [sess[s] EXCEPT !.written = @ \cup {f}])
        /\ Moved({f}, {s})
        /\ tampered' = tampered \ {o \in sess[s].healed : f = ConfigFile(o[1])}
        /\ UNCHANGED <<scene, own, mine, broken, removed, mishaps>>

(* What verification looks at: the wrappers of an Add or a Manual offer the    *)
(* tools of the policy written for them, Manual and Restore read the           *)
(* configurations again, and the routes.                                       *)
Verified(s) ==
    LET after == sess[s].after
    IN  /\ scene.command[s] # "restore" =>
              \A p \in WrittenPaths(s) : disk.policy[p] = after.policy[p]
        /\ scene.command[s] # "add" =>
              \A o \in DOMAIN sess[s].picked : disk.config[o[1]] = after.config[o[1]]
        /\ \A o \in Owners : RouteFile(o) \in Files(s) => disk.route[o] = after.route[o]

(* The transaction is over.  A policy that a restore has retained and that no  *)
(* record names any more is the user's own from now on.                        *)
Finish(s) ==
    /\ Writing(s) /\ Written(s) = Files(s) /\ Verified(s)
    /\ Ends(s)
    /\ mine' = [p \in Paths |->
          IF /\ scene.command[s] = "restore" /\ PolicyFile(p) \notin Files(s)
             /\ \E o \in Owners : sess[s].before.state[o[1]][o[2]].path = p
             /\ References(disk, p) = {}
          THEN disk.policy[p] ELSE mine[p]]
    /\ removed' = IF scene.command[s] = "restore" THEN removed ELSE removed \ WrittenPaths(s)
    /\ UNCHANGED <<scene, disk, own, tampered, broken, mishaps>>

(* rollback: the written files go back, except those that somebody replaced    *)
(* since.                                                                      *)
RollBack(s) ==
    LET undo == Written(s) \ moved[s]
        spared == Written(s) \cap moved[s]
    IN  /\ disk' = Copy(disk, undo, sess[s].before)
        /\ Becomes(s, [Idle EXCEPT !.pc = "ended"])
        /\ moved' = [r \in Sessions |->
              IF r = s THEN {}
              ELSE IF sess[r].pc \in {"loaded", "chosen"} THEN moved[r] \cup undo ELSE moved[r]]
        /\ tampered' = tampered \cup sess[s].healed
                          \cup IF spared = {} THEN {} ELSE DOMAIN sess[s].picked
        /\ broken' = broken \cup IF spared = {} THEN {} ELSE Touched(s)

(* A write meets a file that moved, or verification what it did not expect. *)
Fail(s) ==
    /\ Writing(s)
    /\ \/ Due(s) \cap moved[s] # {}
       \/ Written(s) = Files(s) /\ ~Verified(s)
    /\ RollBack(s)
    /\ UNCHANGED <<scene, own, mine, removed, mishaps>>

Next1(s) ==
    \/ AddLoad(s) \/ AddChoose(s) \/ AddPlan(s)
    \/ ManualLoad(s) \/ ManualPlan(s)
    \/ RestoreLoad(s) \/ RestorePlan(s)
    \/ Cancel(s) \/ Refused(s) \/ Write(s) \/ Finish(s) \/ Fail(s)

------------------------------------------------------------------------------

Seen == UNION {scene.files[s] : s \in Sessions}

(* Bound: scene.mishaps crashes, aborts and edits by the user. *)
Mishap == mishaps < scene.mishaps /\ mishaps' = mishaps + 1

(* The user interrupts the command, or a server does not answer verification. *)
Abort(s) ==
    /\ Mishap /\ Writing(s) /\ RollBack(s)
    /\ UNCHANGED <<scene, own, mine, removed>>

(* The process dies between two writes; its lock is reclaimed as stale. *)
Crash(s) ==
    /\ Mishap /\ Writing(s) /\ Ends(s)
    /\ broken' = broken \cup Touched(s)
    /\ UNCHANGED <<scene, disk, own, mine, tampered, removed>>

UserWrites(o, entry) ==
    /\ Mishap
    /\ entry # disk.config[o[1]][o[2]]
    /\ disk' = [disk EXCEPT !.config[o[1]][o[2]] = entry]
    /\ Moved({ConfigFile(o[1])}, {})

(* The user replaces or removes an entry by hand, or takes back an old copy of *)
(* a wrapper.  A wrapper that goes this way leaves its policy and its record.  *)
UserReplaces(o) ==
    \E edit \in scene.edits \cup {[entry |-> NoEntry, own |-> NoEntry]} :
        /\ o[1] \in Seen /\ UserWrites(o, edit.entry)
        /\ own' = [own EXCEPT ![o] = edit.own]
        /\ tampered' = IF edit.entry = edit.own THEN tampered \ {o} ELSE tampered \cup {o}
        /\ broken' = IF disk.config[o[1]][o[2]] = own[o] THEN broken ELSE broken \cup {PathOf(o)}
        /\ UNCHANGED <<scene, sess, mine, removed>>

(* The user changes a client setting of a wrapper. *)
Tweaked(entry) == [type |-> entry.type, words |-> entry.words, env |-> entry.env,
                   bearer |-> entry.bearer, extra |-> "timeout"]

UserTweaks(o) ==
    /\ ManagedPolicy(disk.config[o[1]][o[2]]) # ""
    /\ UserWrites(o, Tweaked(disk.config[o[1]][o[2]]))
    /\ tampered' = tampered \cup {o}
    /\ UNCHANGED <<scene, sess, own, mine, broken, removed>>

(* The user edits or deletes a policy: their own, or one that setup manages. *)
UserPolicy(p) ==
    \E policy \in scene.choices \cup {NoFile} :
        LET written == \E s \in Sessions : Writing(s) /\ p \in WrittenPaths(s)
            owned == /\ References(disk, p) = {} /\ ~written
                     /\ \A s \in Sessions : Writing(s) => References(sess[s].before, p) = {}
        IN  /\ Mishap
            /\ policy # disk.policy[p] /\ (\E o \in Seen \X Names : PathOf(o) = p)
            /\ disk' = [disk EXCEPT !.policy[p] = policy]
            /\ Moved({PolicyFile(p)}, {})
            /\ mine' = IF owned THEN [mine EXCEPT ![p] = policy] ELSE mine
            /\ broken' = IF ~owned /\ (written \/ policy = NoFile) THEN broken \cup {p} ELSE broken
            /\ removed' = IF policy = NoFile THEN removed \cup {p} ELSE removed
            /\ UNCHANGED <<scene, sess, own, tampered>>

Next ==
    \/ \E s \in Sessions : Next1(s) \/ Abort(s) \/ Crash(s)
    \/ \E o \in Owners : UserReplaces(o) \/ UserTweaks(o)
    \/ \E p \in Paths : UserPolicy(p)

Spec == Init /\ [][Next]_vars

------------------------------------------------------------------------------

(* At every moment, after every crash and rollback, and whatever order the     *)
(* commands run in: the entry of a server is the one the user last gave it by  *)
(* hand, or restore is offered for it and puts exactly that entry back.        *)
Recoverable ==
    \A o \in Owners \ tampered :
        \/ disk.config[o[1]][o[2]] = own[o]
        \/ \E choice \in RestoreChoices(disk, o[1], o[2]) :
              /\ choice.kind # "legacy" /\ Restorable(disk.config[o[1]], o[2], choice.by)
              /\ choice.by.original[o[2]] = own[o]

(* A client never starts a wrapper, and `run` never serves a route, whose      *)
(* policy or OAuth profile is missing, unless the user deleted the policy.  A  *)
(* route without a record is one that a setup died over: no restore knows that *)
(* it uses its policy.                                                         *)
RoutesOnRecord ==
    {o \in Owners : disk.route[o] # NoRoute /\ disk.state[o[1]][o[2]].route = disk.route[o]}
CommandLines ==
    {ParseEntry(disk.config[o[1]][o[2]]) : o \in Owners \ tampered}
    \cup {ParseManagedWrapper(disk.route[o].args) : o \in RoutesOnRecord}
Runnable ==
    \A line \in CommandLines : line.policy # "" =>
        /\ disk.policy[line.policy] # NoFile \/ line.policy \in removed
        /\ line.source.profile # "" => Stored(line.source.profile)

(* The gateway can always load its routes: valid, and all at one origin. *)
RoutesAgree == RoutesLoad(disk.route)

(* When a restore writes a policy, it is the one the user had without setup. *)
RestoresOwnPolicy ==
    [][\A s \in Sessions, p \in Paths :
          /\ scene.command[s] = "restore" /\ Writing(s)
          /\ PolicyFile(p) \in sess'[s].written \ sess[s].written /\ p \notin broken
          => disk'.policy[p] = mine[p]]_vars
==============================================================================
