----------------------------- MODULE EntryProofs -----------------------------
(***************************************************************************)
(* What becomes of the entries of a configuration, for any number of       *)
(* sessions, configurations and servers, and any crashes, aborts and edits *)
(* (SetupProofs has the rest of Setup, and the invariants used here).      *)
(*                                                                         *)
(* A setup finds the server it has chosen again, and what clients start    *)
(* and the gateway serves can run.  While nobody writes, a wrapper is the  *)
(* one its record installed, its policy and its profile are there, and so  *)
(* are those of a route on record (Serving).  While a session writes, that *)
(* holds beside each file it has and has not written (Lands); before, what *)
(* a session has chosen still says what the entry it goes by says          *)
(* (Settles).                                                              *)
(*                                                                         *)
(* The user's entries come back.  An entry is the user's, or its record    *)
(* puts the user's back (Returns).  A setup writes the record before the   *)
(* entry and a restore the entry before the record, so while a session     *)
(* writes, an entry is safe beside both records that may be there with it  *)
(* (Waits before it is written, Holds after): Redeemable.                  *)
(***************************************************************************)
EXTENDS SetupProofs

-----------------------------------------------------------------------------
(* What a client starts and the gateway serves.                            *)

(* The server x answers discovery, with the profile it has if it asks for one. *)
Said(x) == IF Remote(x) THEN Answer[x.target[1]][x.kind] ELSE "tools"
Answered(x) == Said(x) = "tools" \/ (Said(x) = "challenge" /\ x.profile # "")

Managing(d, o) == ManagedPolicy(Entry(d, o)) # ""
Upstream(d, o) == ParseEntry(Entry(d, o)).source

(* Policy p is there, or the user removed it; the profile of upstream x is there. *)
Present(R, d, p) == d.policy[p] # NoFile \/ p \in R
Has(d, x) == x.profile # "" => x.profile \in Profiles /\ d.profile[x.profile]
Serves(R, d, p, x) == Present(R, d, p) /\ Has(d, x)

(* A wrapper is the one its record installed, and would be installed again. *)
Fits(R, d, o) ==
    Managing(d, o) =>
      /\ ManagedPolicy(Entry(d, o)) = PathOf(o)
      /\ Entry(d, o) = WrapperEntry(PathOf(o), Upstream(d, o), Entry(d, o))
      /\ Answered(Upstream(d, o))
      /\ Rec(d, o).path = PathOf(o) /\ Rec(d, o).installed[o[2]] = Entry(d, o)
      /\ Serves(R, d, PathOf(o), Upstream(d, o))

OnRecord(d, o) == d.route[o] # NoRoute /\ Rec(d, o).route = d.route[o]
RouteLine(d, o) == ParseManagedWrapper(d.route[o].args)

RouteRuns(R, d, o) ==
    OnRecord(d, o) /\ RouteLine(d, o).policy # "" =>
      RouteLine(d, o).policy = PathOf(o) /\ Serves(R, d, PathOf(o), RouteLine(d, o).source)

(* What a record puts back is no wrapper, and only an entry of the gateway's *)
(* has a route on its record.                                                *)
RecordKeeps(d, o) ==
    Rec(d, o) # NoRecord =>
      /\ Rec(d, o).path = PathOf(o)
      /\ ManagedPolicy(Rec(d, o).original[o[2]]) = ""
      /\ Rec(d, o).route # NoRoute =>
            Rec(d, o).created /\ IsLocalHttp(Rec(d, o).installed[o[2]])

Keeps(R, d, o) == RouteRuns(R, d, o) /\ RecordKeeps(d, o)

(* T are the owners whose entry the user has changed by hand. *)
Served(T, R, d) == \A o \in Owners : (o \in T \/ Fits(R, d, o)) /\ Keeps(R, d, o)

(* While session j writes.  The entry of owner o is still the sessions' own. *)
Ours(T, d, files, o) == o \notin T /\ (Managing(d, o) \/ ConfigFile(o[1]) \notin files)
Side(j, f) == IF f \in j.written THEN j.after ELSE j.before

EntryLands(T, R, d, j, files, o) ==
    /\ Ours(T, d, files, o) /\ o \notin j.healed => Fits(R, j.before, o)
    /\ Ours(T, d, files, o) \/ o \in j.healed => Fits(R, j.after, o)
    /\ Ours(T, d, files, o) /\ o \in j.healed => ConfigFile(o[1]) \in j.written
    /\ o \in T \/ ~Managing(d, o) \/ Entry(d, o) = Entry(Side(j, ConfigFile(o[1])), o)

RouteLands(d, j, files, o) ==
    /\ RouteFile(o) \notin files
    /\ d.route[o] = Side(j, RouteFile(o)).route[o]
    /\ RouteFile(o) \notin j.files => j.after.route[o] = j.before.route[o]

ProfileLands(d, j, files, i) ==
    /\ ProfileFile(i) \notin files
    /\ d.profile[i] <=> Side(j, ProfileFile(i)).profile[i]
    /\ ProfileFile(i) \notin j.files => (j.after.profile[i] <=> j.before.profile[i])
    /\ j.before.profile[i] => j.after.profile[i]

ContentLands(R, d, j, files, p) ==
    /\ PolicyFile(p) \notin j.files => j.after.policy[p] = j.before.policy[p]
    /\ IF PolicyFile(p) \in files THEN Present(R, d, p)
       ELSE d.policy[p] = Side(j, PolicyFile(p)).policy[p]

(* What has been written comes before what is to be written. *)
Rank(command) == IF command = "restore" THEN RestoreRank ELSE SetupRank
InSequence(j, command) ==
    \A f \in j.written, g \in j.files :
        ~(Rank(command)[f[1]] <= Rank(command)[g[1]]) => g \in j.written

(* A setup installs what serves, and installs a wrapper again as it was. *)
SetupServes(T, d, j, files, o) ==
    /\ j.after.route[o] # j.before.route[o] => Rec(j.before, o).route = NoRoute
    /\ PolicyFile(PathOf(o)) \in j.files => j.after.policy[PathOf(o)] # NoFile
    /\ /\ o \in DOMAIN j.picked /\ Ours(T, d, files, o) /\ o \notin j.healed
       /\ Managing(j.before, o)
       => Entry(j.after, o) = Entry(j.before, o)

(* A restore takes a policy from nobody but the owners it puts back. *)
RestoreSpares(j, o) ==
    /\ o \in DOMAIN j.picked => ~Managing(j.after, o)
    /\ PolicyFile(PathOf(o)) \in j.files /\ Rec(j.before, o).path = PathOf(o) =>
          /\ o \in DOMAIN j.picked /\ Rec(j.after, o) = NoRecord
          /\ OnRecord(j.before, o) => j.after.route[o] = NoRoute
    /\ j.after.route[o] \in {NoRoute, j.before.route[o]}

Lands(T, R, d, j, files, command) ==
    /\ \A o \in Owners : /\ EntryLands(T, R, d, j, files, o) /\ RouteLands(d, j, files, o)
                         /\ Keeps(R, j.before, o) /\ Keeps(R, j.after, o)
                         /\ IF command = "restore" THEN RestoreSpares(j, o)
                            ELSE SetupServes(T, d, j, files, o)
    /\ \A i \in Profiles :
          /\ ProfileLands(d, j, files, i)
          /\ command = "restore" => (j.after.profile[i] <=> j.before.profile[i])
    /\ \A p \in Paths : ContentLands(R, d, j, files, p)
    /\ InSequence(j, command)

(* The upstream src that discovery has found for server x. *)
Found(x, src) ==
    /\ Answered(src) /\ (src.profile # "" => src.profile \in Profiles)
    /\ Answered(x) => src = x

(* What a session has chosen. *)
Settles(d, j, files, command) ==
    j.pc = "chosen" =>
      /\ command = "add" =>
           \A o \in DOMAIN j.picked :
              Found(ParseEntry(j.seen[o[1]][o[2]]).source, j.picked[o].source)
      /\ command = "manual" =>
           \A o \in DOMAIN j.picked :
              LET src == j.picked[o].source
              IN  Answered(src) /\ (src.profile # "" => src.profile \in Profiles)
      /\ command = "restore" =>
           \A o \in DOMAIN j.picked :
              /\ ManagedPolicy(j.picked[o].by.original[o[2]]) = ""
              /\ j.picked[o].kind # "route" /\ ConfigFile(o[1]) \notin files =>
                    IsWrapper(Entry(d, o))

Serving ==
    /\ LockFree => Served(tampered, removed, disk)
    /\ \A s \in Sessions :
          /\ Writing(s) => Lands(tampered, removed, disk, sess[s], moved[s], scene.command[s])
          /\ Settles(disk, sess[s], moved[s], scene.command[s])

-----------------------------------------------------------------------------
(* Discovery.                                                              *)

IsUpstream(x) ==
    x = [kind |-> x.kind, target |-> x.target, env |-> x.env, cwd |-> x.cwd,
         bearer |-> x.bearer, profile |-> x.profile]

LEMMA TryIs ==
    ASSUME NEW cs, NEW k, NEW auth \in BOOLEAN, NEW x, x = cs[k]
    PROVE  /\ Try(cs, k, auth) = "tools" =>
                \/ Said(x) = "tools"
                \/ Said(x) = "challenge" /\ (auth \/ x.profile # "")
           /\ Answered(x) => Try(cs, k, auth) = "tools"
           /\ k > 1 \/ Len(cs) = 1 => Try(cs, k, auth) # "incompatible"
  <1>1. Try(cs, k, auth) =
          CASE Said(x) = "challenge" /\ (auth \/ x.profile # "") -> "tools"
            [] Said(x) = "incompatible" /\ (k > 1 \/ Len(cs) = 1) -> "error"
            [] OTHER -> Said(x)
    BY DEF Try, Said
  <1> DEFINE said == Said(x)
  <1> HIDE DEF said
  <1>2. CASE said = "challenge" /\ (auth \/ x.profile # "")
    BY <1>1, <1>2 DEF Answered, said
  <1>3. CASE ~(said = "challenge" /\ (auth \/ x.profile # ""))
    <2>1. CASE said = "incompatible" /\ (k > 1 \/ Len(cs) = 1)
      BY <1>1, <1>3, <2>1 DEF Answered, said
    <2>2. CASE ~(said = "incompatible" /\ (k > 1 \/ Len(cs) = 1))
      BY <1>1, <1>3, <2>2 DEF Answered, said
    <2> QED
      BY <2>1, <2>2
  <1> QED
    BY <1>2, <1>3

LEMMA OneCandidate ==
    ASSUME NEW x, NEW cs, cs = <<x>>, NEW auth \in BOOLEAN
    PROVE  FirstCompatible(cs, auth) = 1
  <1>1. DOMAIN cs = {1} /\ Len(cs) = 1 /\ cs[1] = x
    BY cs = <<x>>
  <1>2. Try(cs, 1, auth) # "incompatible"
    BY <1>1, TryIs
  <1>3. \A j \in 1..(1 - 1) : Try(cs, j, auth) = "incompatible"
    OBVIOUS
  <1> QED
    BY <1>1, <1>2, <1>3 DEF FirstCompatible

LEMMA TwoCandidates ==
    ASSUME NEW x, NEW y, NEW cs, cs = <<x, y>>, NEW auth \in BOOLEAN
    PROVE  FirstCompatible(cs, auth) = IF Try(cs, 1, auth) # "incompatible" THEN 1 ELSE 2
  <1> DEFINE P(k) == /\ Try(cs, k, auth) # "incompatible"
                     /\ \A j \in 1..(k - 1) : Try(cs, j, auth) = "incompatible"
             first == CHOOSE k \in DOMAIN cs : P(k)
  <1>1. DOMAIN cs = {1, 2} /\ cs[1] = x /\ cs[2] = y
    BY cs = <<x, y>>
  <1>2. Try(cs, 2, auth) # "incompatible"
    <2>1. 2 > 1
      OBVIOUS
    <2> QED
      BY <1>1, <2>1, TryIs
  <1>3. 1..(1 - 1) = {} /\ 1..(2 - 1) = {1}
    OBVIOUS
  <1>4. P(1) <=> Try(cs, 1, auth) # "incompatible"
    BY <1>3
  <1>5. P(2) <=> Try(cs, 1, auth) = "incompatible"
    BY <1>2, <1>3
  <1> HIDE DEF P
  <1>6. first \in {1, 2} /\ P(first)
    BY <1>1, <1>4, <1>5
  <1>7. FirstCompatible(cs, auth) = first
    BY DEF FirstCompatible, P
  <1> QED
    BY <1>4, <1>5, <1>6, <1>7

LEMMA CandidatesAre ==
    ASSUME NEW c, NEW x
    PROVE  \/ ServerCandidates(c, x) = <<x>>
           \/ x.kind = "http" /\ ServerCandidates(c, x) = <<x, [x EXCEPT !.kind = "sse"]>>
  <1> DEFINE y == [x EXCEPT !.kind = "sse"]
             S == {x, y}
  <1> HIDE DEF y
  <1>1. <<x>> \in Seq(S) /\ <<y>> \in Seq(S) /\ <<>> \in Seq(S)
    OBVIOUS
  <1>2. <<x>> \o <<>> = <<x>>
    BY <1>1, ConcatEmptySeq
  <1>3. <<x>> \o <<y>> = <<x, y>>
    <2> DEFINE v == <<x>>
               u == <<y>>
               w == v \o u
               t == <<x, y>>
    <2>1. /\ v \in Seq(S) /\ u \in Seq(S) /\ Len(v) = 1 /\ Len(u) = 1 /\ v[1] = x /\ u[1] = y
          /\ t \in Seq(S) /\ Len(t) = 2 /\ t[1] = x /\ t[2] = y
      OBVIOUS
    <2> HIDE DEF v, u, t
    <2>2. w \in Seq(S) /\ Len(w) = 2 /\ w[1] = x /\ w[2] = y
      <3>1. /\ w \in Seq(S) /\ Len(w) = Len(v) + Len(u)
            /\ \A i \in 1..Len(v) : w[i] = v[i]
            /\ \A i \in 1..Len(u) : w[Len(v) + i] = u[i]
        BY <2>1, Joined
      <3> HIDE DEF w
      <3> QED
        BY <2>1, <3>1
    <2> HIDE DEF w
    <2>3. Len(w) = Len(t) /\ \A i \in 1..Len(w) : w[i] = t[i]
      BY <2>1, <2>2
    <2>4. w = t
      BY <2>1, <2>2, <2>3, SeqEqual
    <2> QED
      BY <2>4 DEF w, t, v, u
  <1> QED
    BY <1>2, <1>3 DEF ServerCandidates, y

(* One candidate, or a second that differs in its kind. *)
OneOrTwo(cs, x) == cs = <<x>> \/ cs = <<x, [x EXCEPT !.kind = "sse"]>>

LEMMA AlternativesAre ==
    ASSUME NEW cs, NEW x, OneOrTwo(cs, x), NEW auth \in BOOLEAN
    PROVE  /\ FirstCompatible(cs, auth) \in 1..Len(cs) /\ Len(cs) \in 1..2
           /\ \A found \in DiscoverAlternatives(cs, auth) :
                /\ \E k \in 1..Len(cs) : found = cs[k]
                /\ \/ Said(found) = "tools"
                   \/ Said(found) = "challenge" /\ (auth \/ found.profile # "")
  <1> DEFINE k == FirstCompatible(cs, auth)
  <1>1. k \in 1..Len(cs) /\ Len(cs) \in 1..2
    <2>1. CASE cs = <<x>>
      BY <2>1, OneCandidate
    <2>2. CASE cs = <<x, [x EXCEPT !.kind = "sse"]>>
      <3> DEFINE y == [x EXCEPT !.kind = "sse"]
      <3>1. cs = <<x, y>>
        BY <2>2
      <3> HIDE DEF y
      <3>2. k = 1 \/ k = 2
        BY <3>1, TwoCandidates
      <3> QED
        BY <3>1, <3>2
    <2> QED
      BY <2>1, <2>2 DEF OneOrTwo
  <1>2. ASSUME NEW found \in DiscoverAlternatives(cs, auth)
        PROVE  Try(cs, k, auth) = "tools" /\ found = cs[k]
    BY <1>2 DEF DiscoverAlternatives
  <1> HIDE DEF k
  <1>3. ASSUME NEW found \in DiscoverAlternatives(cs, auth)
        PROVE  \/ Said(found) = "tools"
               \/ Said(found) = "challenge" /\ (auth \/ found.profile # "")
    <2>1. Try(cs, k, auth) = "tools" /\ found = cs[k]
      BY <1>2
    <2> QED
      BY <2>1, TryIs
  <1> QED
    BY <1>1, <1>2, <1>3 DEF k

LEMMA KindOnly ==
    ASSUME NEW x, IsUpstream(x), NEW kind, NEW y, y = [x EXCEPT !.kind = kind]
    PROVE  IsUpstream(y) /\ y.profile = x.profile
  BY DEF IsUpstream

LEMMA WithProfile ==
    ASSUME NEW x, IsUpstream(x), NEW id, NEW y, y = [x EXCEPT !.profile = id]
    PROVE  Said(y) = Said(x) /\ y.profile = id /\ IsUpstream(y)
  <1>1. y.kind = x.kind /\ y.target = x.target /\ y.profile = id /\ IsUpstream(y)
    BY DEF IsUpstream
  <1> QED
    BY <1>1 DEF Said, Remote

LEMMA CandidatesFit ==
    ASSUME NEW cs, NEW x, OneOrTwo(cs, x), IsUpstream(x)
    PROVE  /\ Len(cs) \in 1..2 /\ cs[1] = x
           /\ \A i \in 1..Len(cs) : IsUpstream(cs[i]) /\ cs[i].profile = x.profile
           /\ \A k \in 1..Len(cs) : \E y : /\ OneOrTwo(SubSeq(cs, k, Len(cs)), y)
                                           /\ IsUpstream(y) /\ y.profile = x.profile
  <1> DEFINE y == [x EXCEPT !.kind = "sse"]
             S == {x, y}
  <1>1. IsUpstream(y) /\ y.profile = x.profile
    BY KindOnly
  <1>2. cs = <<x>> \/ cs = <<x, y>>
    BY DEF OneOrTwo
  <1> HIDE DEF y
  <1>3. /\ cs \in Seq(S) /\ Len(cs) \in 1..2 /\ cs[1] = x
        /\ \A i \in 1..Len(cs) : cs[i] = x \/ cs[i] = y
    <2>1. CASE cs = <<x>>
      BY <2>1
    <2>2. CASE cs = <<x, y>>
      BY <2>2
    <2> QED
      BY <1>2, <2>1, <2>2
  <1>4. ASSUME NEW k \in 1..Len(cs)
        PROVE  SubSeq(cs, k, Len(cs)) = cs \/ SubSeq(cs, k, Len(cs)) = <<cs[k]>>
    <2> DEFINE t == SubSeq(cs, k, Len(cs))
    <2>1. CASE k = 1
      BY <1>3, <2>1
    <2>2. CASE k # 1
      <3>1. k = 2 /\ Len(cs) = 2
        BY <1>3, <2>2
      <3>2. t \in Seq(S) /\ Len(t) = 1 /\ t[1] = cs[2]
        BY <1>3, <3>1
      <3> DEFINE u == <<cs[2]>>
      <3>3. u \in Seq(S) /\ Len(u) = 1 /\ u[1] = cs[2]
        BY <1>3, <3>1
      <3> HIDE DEF t, u
      <3>4. Len(t) = Len(u) /\ \A i \in 1..Len(t) : t[i] = u[i]
        BY <3>2, <3>3
      <3>5. t = u
        BY <3>2, <3>3, <3>4, SeqEqual
      <3> QED
        BY <3>1, <3>5 DEF t, u
    <2> QED
      BY <2>1, <2>2
  <1>5. ASSUME NEW k \in 1..Len(cs)
        PROVE  \E z : /\ OneOrTwo(SubSeq(cs, k, Len(cs)), z)
                      /\ IsUpstream(z) /\ z.profile = x.profile
    <2>1. CASE SubSeq(cs, k, Len(cs)) = cs
      BY <2>1
    <2>2. CASE SubSeq(cs, k, Len(cs)) = <<cs[k]>>
      <3>1. OneOrTwo(SubSeq(cs, k, Len(cs)), cs[k])
        BY <2>2 DEF OneOrTwo
      <3>2. IsUpstream(cs[k]) /\ cs[k].profile = x.profile
        BY <1>1, <1>3
      <3> QED
        BY <3>1, <3>2
    <2> QED
      BY <1>4, <2>1, <2>2
  <1> QED
    BY <1>1, <1>3, <1>5

LEMMA AlternativesFit ==
    ASSUME NEW cs, NEW x, OneOrTwo(cs, x), IsUpstream(x), NEW auth \in BOOLEAN,
           NEW found \in DiscoverAlternatives(cs, auth)
    PROVE  /\ IsUpstream(found) /\ found.profile = x.profile
           /\ \/ Said(found) = "tools"
              \/ Said(found) = "challenge" /\ (auth \/ found.profile # "")
  <1>1. /\ \E k \in 1..Len(cs) : found = cs[k]
        /\ Said(found) = "tools" \/ (Said(found) = "challenge" /\ (auth \/ found.profile # ""))
    BY AlternativesAre
  <1>2. PICK k \in 1..Len(cs) : found = cs[k]
    BY <1>1
  <1>3. IsUpstream(cs[k]) /\ cs[k].profile = x.profile
    BY CandidatesFit
  <1> QED
    BY <1>1, <1>2, <1>3

(* The first candidate that answers is the one. *)
LEMMA FirstAnswers ==
    ASSUME NEW cs, NEW x, OneOrTwo(cs, x), IsUpstream(x), Answered(x)
    PROVE  FirstCompatible(cs, FALSE) = 1 /\ Try(cs, 1, FALSE) = "tools" /\ cs[1] = x
  <1>1. cs[1] = x
    BY CandidatesFit
  <1>2. Try(cs, 1, FALSE) = "tools"
    BY <1>1, TryIs
  <1>3. CASE cs = <<x>>
    BY <1>1, <1>2, <1>3, OneCandidate
  <1>4. CASE cs = <<x, [x EXCEPT !.kind = "sse"]>>
    <2> DEFINE y == [x EXCEPT !.kind = "sse"]
    <2>1. cs = <<x, y>>
      BY <1>4
    <2> HIDE DEF y
    <2> QED
      BY <1>1, <1>2, <2>1, TwoCandidates
  <1> QED
    BY <1>3, <1>4 DEF OneOrTwo

LEMMA DiscoveryFinds ==
    ASSUME NEW cs, NEW x, OneOrTwo(cs, x), IsUpstream(x), NEW id, id # "",
           NEW found \in DiscoverSetupServer(cs, id)
    PROVE  /\ IsUpstream(found) /\ Answered(found) /\ found.profile \in {x.profile, id}
           /\ Answered(x) => found = x
  <1> DEFINE k == FirstCompatible(cs, FALSE)
             rest == SubSeq(cs, k, Len(cs))
  <1>1. k \in 1..Len(cs)
    BY AlternativesAre
  <1>2. Answered(x) => k = 1 /\ Try(cs, k, FALSE) = "tools" /\ cs[1] = x
    BY FirstAnswers
  <1>3. \/ /\ Try(cs, k, FALSE) = "challenge"
           /\ \E base \in DiscoverAlternatives(rest, TRUE) : found = [base EXCEPT !.profile = id]
        \/ found \in DiscoverAlternatives(cs, FALSE)
    BY Zenon DEF DiscoverSetupServer
  <1>4. CASE /\ Try(cs, k, FALSE) = "challenge"
             /\ \E base \in DiscoverAlternatives(rest, TRUE) : found = [base EXCEPT !.profile = id]
    <2>1. PICK base \in DiscoverAlternatives(rest, TRUE) : found = [base EXCEPT !.profile = id]
      BY <1>4
    <2>2. PICK z : OneOrTwo(rest, z) /\ IsUpstream(z)
      <3> HIDE DEF k
      <3> QED
        BY <1>1, CandidatesFit
    <2> HIDE DEF k, rest
    <2>3. IsUpstream(base) /\ Said(base) \in {"tools", "challenge"}
      BY <2>2, AlternativesFit
    <2>4. Said(found) = Said(base) /\ found.profile = id /\ IsUpstream(found)
      BY <2>1, <2>3, WithProfile
    <2> QED
      BY <1>2, <1>4, <2>3, <2>4 DEF Answered
  <1>5. CASE found \in DiscoverAlternatives(cs, FALSE)
    <2>1. /\ found.profile = x.profile /\ IsUpstream(found)
          /\ Said(found) = "tools" \/ (Said(found) = "challenge" /\ found.profile # "")
      BY <1>5, AlternativesFit
    <2>2. found = cs[k]
      BY <1>5 DEF DiscoverAlternatives
    <2> HIDE DEF k
    <2> QED
      BY <1>2, <2>1, <2>2 DEF Answered
  <1> QED
    BY <1>3, <1>4, <1>5

LEMMA CandidatesOf ==
    ASSUME NEW c, NEW x
    PROVE  OneOrTwo(ServerCandidates(c, x), x)
  BY CandidatesAre DEF OneOrTwo

(* A server that setup has installed is found again as it was installed: what    *)
(* discoverSetupServer returns answers discovery, with its profile if it asks    *)
(* for one, and discovery of such a server returns that server and no other,     *)
(* whichever client's candidates it goes by and whatever profile a login of that *)
(* time would have produced.                                                     *)
THEOREM FoundAgain ==
    ASSUME NEW c, NEW x, IsUpstream(x), NEW id, id # "",
           NEW found \in DiscoverSetupServer(ServerCandidates(c, x), id), NEW e, NEW other
    PROVE  DiscoverSetupServer(ServerCandidates(e, found), other) = {found}
  <1> DEFINE cs == ServerCandidates(e, found)
  <1>1. IsUpstream(found) /\ Answered(found)
    BY CandidatesOf, DiscoveryFinds
  <1>2. OneOrTwo(cs, found)
    BY CandidatesOf
  <1>3. FirstCompatible(cs, FALSE) = 1 /\ Try(cs, 1, FALSE) = "tools" /\ cs[1] = found
    BY <1>1, <1>2, FirstAnswers
  <1> HIDE DEF cs
  <1>4. DiscoverSetupServer(cs, other) = {found}
    BY <1>3 DEF DiscoverSetupServer, DiscoverAlternatives
  <1> QED
    BY <1>4 DEF cs

LEMMA WrapperParses ==
    ASSUME NEW policy \in STRING, Plain(policy), NEW src, WritableSource(src), NEW entry
    PROVE  /\ IsWrapper(WrapperEntry(policy, src, entry))
           /\ ParseEntry(WrapperEntry(policy, src, entry)) = Managed(policy, src)
  <1> DEFINE new == WrapperEntry(policy, src, entry)
             args == BuildWrapperArgs(policy, src)
  <1>1. IsWrapper(new)
    BY WrapperIsOne
  <1>2. new.words = <<Command>> \o args
    BY DEF WrapperEntry
  <1>3. args \in Seq(Word)
    <2> DEFINE pairs == BuildOptions(policy, src)
               words == Words(pairs)
               rest == Rest(src)
    <2>1. policy \in Word
      BY DEF Word
    <2>2. src.kind \in {"stdio", "http", "sse", "websocket"}
      BY DEF WritableSource, Sources
    <2>3. pairs \in Pairs
      BY <2>1, LocalGiven, RemoteGiven DEF Gives, Pairs
    <2>4. words \in Seq(Word) /\ rest \in Seq(Word)
      BY <2>3, WordsAre, RestIs
    <2>5. args = words \o rest
      BY DEF BuildWrapperArgs, Rest
    <2> HIDE DEF args, words, rest
    <2> QED
      BY <2>4, <2>5, Joined
  <1> HIDE DEF args
  <1>4. Tail(<<Command>> \o args) = args
    <2> DEFINE first == <<Command>>
               S == Word \union {Command}
               line == first \o args
               t == Tail(line)
    <2>1. first \in Seq(S) /\ Len(first) = 1 /\ first[1] = Command
      BY Singleton
    <2>2. args \in Seq(S)
      <3>1. Len(args) \in Nat /\ args = [i \in 1..Len(args) |-> args[i]]
            /\ \A i \in 1..Len(args) : args[i] \in S
        BY <1>3
      <3> HIDE DEF S
      <3> QED
        BY <3>1, FunctionSeq
    <2> HIDE DEF first, S
    <2>3. /\ line \in Seq(S) /\ Len(line) = 1 + Len(args)
          /\ \A i \in 1..Len(args) : line[1 + i] = args[i]
      BY <2>1, <2>2, Joined
    <2> HIDE DEF line
    <2>4. Len(args) \in Nat
      BY <2>2
    <2>5. t \in Seq(S) /\ Len(t) = Len(args) /\ \A i \in 1..Len(t) : t[i] = line[i + 1]
      BY <2>3, <2>4
    <2> HIDE DEF t
    <2>6. \A i \in 1..Len(t) : t[i] = args[i]
      BY <2>3, <2>4, <2>5
    <2>7. t = args
      BY <2>2, <2>5, <2>6, SeqEqual
    <2> QED
      BY <2>7 DEF t, line, first
  <1> HIDE DEF new
  <1>5. ParseEntry(new) = ParseManagedWrapper(args)
    BY <1>1, <1>2, <1>4 DEF ParseEntry, IsWrapper
  <1>6. ParseManagedWrapper(args) = Managed(policy, src)
    BY WrittenReads DEF args
  <1> QED
    BY <1>1, <1>5, <1>6 DEF new

(* An entry that setup has written is the wrapper of its policy, or none: the   *)
(* upstream may be a wrapper itself.                                            *)
(* An entry that starts the wrapper of owner o for upstream src, if it parses. *)
Wraps(o, src, entry) ==
    /\ ManagedPolicy(entry) # "" => /\ ManagedPolicy(entry) = PathOf(o)
                                    /\ ParseEntry(entry).source = src
    /\ entry = WrapperEntry(PathOf(o), src, entry)

LEMMA WrapperReads ==
    ASSUME NEW o \in Owners, NEW src, WritableSource(src), NEW entry,
           NEW new, new = WrapperEntry(PathOf(o), src, entry)
    PROVE  Wraps(o, src, new)
  <1>1. PathOf(o) \in STRING /\ Plain(PathOf(o))
    BY SceneAssumption
  <1>2. IsWrapper(new) /\ ParseEntry(new) = Managed(PathOf(o), src)
    BY <1>1, WrapperParses
  <1>3. new = WrapperEntry(PathOf(o), src, new)
    BY DEF WrapperEntry
  <1> DEFINE p == PathOf(o)
  <1> HIDE DEF p
  <1> DEFINE none == NoSource
             parsed == ParseEntry(new)
  <1> HIDE DEF none, parsed
  <1>4. \/ parsed = [policy |-> p, source |-> src]
        \/ parsed = [policy |-> "", source |-> none]
    BY <1>2 DEF Managed, NotManaged, p, none, parsed
  <1>5. ManagedPolicy(new) = parsed.policy
    BY DEF ManagedPolicy, parsed
  <1>6. CASE parsed = [policy |-> p, source |-> src]
    <2>1. parsed.policy = p /\ parsed.source = src
      BY <1>6
    <2>2. p # ""
      BY OwnerParts DEF p
    <2> QED
      BY <1>3, <1>5, <2>1, <2>2 DEF p, parsed, Wraps
  <1>7. CASE parsed = [policy |-> "", source |-> none]
    <2>1. parsed.policy = "" /\ parsed.source = none
      BY <1>7
    <2> QED
      BY <1>3, <1>5, <2>1 DEF Wraps
  <1> QED
    BY <1>4, <1>6, <1>7

LEMMA HttpIsUnmanaged ==
    ASSUME NEW port, NEW o
    PROVE  /\ ManagedPolicy(HttpEntry(port, o)) = "" /\ IsLocalHttp(HttpEntry(port, o))
           /\ ~IsWrapper(HttpEntry(port, o))
  <1> DEFINE url == <<RouteUrl(port, o)>>
  <1> HIDE DEF url
  <1>1. HttpEntry(port, o) = [NoEntry EXCEPT !.type = "http", !.words = url]
    BY DEF HttpEntry, url
  <1>2. HttpEntry(port, o).type = "http"
    BY <1>1 DEF NoEntry
  <1> QED
    BY <1>2 DEF ManagedPolicy, ParseEntry, IsLocalHttp, IsWrapper

LEMMA ManagedIsWrapper ==
    ASSUME NEW entry, ManagedPolicy(entry) # ""
    PROVE  IsWrapper(entry)
  BY DEF ManagedPolicy, ParseEntry, IsWrapper

LEMMA WrapperUpstream ==
    ASSUME NEW args
    PROVE  IsUpstream(ParseManagedWrapper(args).source)
  <1> DEFINE dash == FirstDash(args)
             pairs == OptionPairs(args, dash)
             given == ValuesGiven(pairs)
             rest == SubSeq(args, dash, Len(args))
             parsed == ParseOptions(pairs, given, rest)
  <1>1. ParseManagedWrapper(args) = NotManaged \/ ParseManagedWrapper(args) = parsed
    BY DEF ParseManagedWrapper, ParseWords
  <1>2. IsUpstream(NotManaged.source)
    BY DEF IsUpstream, NotManaged, NoSource
  <1> HIDE DEF pairs, given, rest
  <1>3. parsed = NotManaged \/ \E p, kind : parsed = Managed(p, UpstreamGiven(given, kind, rest))
    BY DEF ParseOptions
  <1> HIDE DEF parsed
  <1>4. \A kind : IsUpstream(UpstreamGiven(given, kind, rest))
    BY DEF IsUpstream, UpstreamGiven
  <1>5. ASSUME NEW p, NEW x, IsUpstream(x)
        PROVE  IsUpstream(Managed(p, x).source)
    BY <1>2, <1>5 DEF Managed
  <1> QED
    BY <1>1, <1>2, <1>3, <1>4, <1>5

LEMMA EntryUpstream ==
    ASSUME NEW entry
    PROVE  IsUpstream(ParseEntry(entry).source)
  <1>1. IsUpstream(NoSource)
    BY DEF IsUpstream, NoSource
  <1>2. ASSUME NEW kind, NEW target, NEW env, NEW bearer
        PROVE  IsUpstream([NoSource EXCEPT !.kind = kind, !.target = target, !.env = env,
                                           !.bearer = bearer])
    <2> DEFINE nothing == <<>>
               none == NoSource
    <2>1. none = [kind |-> "none", target |-> nothing, env |-> nothing, cwd |-> "",
                  bearer |-> "", profile |-> ""]
      BY DEF NoSource
    <2> HIDE DEF nothing, none
    <2> DEFINE x == [none EXCEPT !.kind = kind, !.target = target, !.env = env,
                                 !.bearer = bearer]
    <2>2. x \in [kind : {kind}, target : {target}, env : {env}, cwd : {""}, bearer : {bearer},
                 profile : {""}]
      BY <2>1
    <2> HIDE DEF x
    <2>3. IsUpstream(x)
      BY <2>2 DEF IsUpstream
    <2> QED
      BY <2>3 DEF none, x
  <1>3. CASE entry.type = "stdio" /\ entry.words[1] = Command
    BY <1>3, WrapperUpstream DEF ParseEntry
  <1>4. CASE ~(entry.type = "stdio" /\ entry.words[1] = Command)
    <2> DEFINE none == NoSource
               given == [NoSource EXCEPT !.kind = entry.type, !.target = entry.words,
                                         !.env = entry.env, !.bearer = entry.bearer]
               source == IF entry.type = "none" THEN none ELSE given
               parsed == ParseEntry(entry)
    <2>1. IsUpstream(none) /\ IsUpstream(given)
      BY <1>1, <1>2
    <2>2. parsed = [policy |-> "", source |-> source]
      BY <1>4 DEF ParseEntry
    <2> HIDE DEF none, given, parsed
    <2>3. parsed.source = source
      BY <2>2
    <2>4. IsUpstream(source)
      BY <2>1
    <2> HIDE DEF source
    <2> QED
      BY <2>3, <2>4 DEF parsed
  <1> QED
    BY <1>3, <1>4

-----------------------------------------------------------------------------
(* What serves goes on serving.                                            *)

LEMMA CopyRest ==
    ASSUME NEW d, NEW F, NEW e, IsDisk(d), NEW x, x = Copy(d, F, e)
    PROVE  /\ \A o \in Owners :
                x.route[o] = IF RouteFile(o) \in F THEN e.route[o] ELSE d.route[o]
           /\ \A i \in Profiles :
                x.profile[i] = IF ProfileFile(i) \in F THEN e.profile[i] ELSE d.profile[i]
  <1>1. x.profile = [i \in Profiles |-> IF ProfileFile(i) \in F THEN e.profile[i]
                                        ELSE d.profile[i]]
    BY DEF Copy, IsDisk
  <1>2. x.route = [o \in Owners |-> IF RouteFile(o) \in F THEN e.route[o] ELSE d.route[o]]
    BY CopyRoutes
  <1> QED
    BY <1>1, <1>2

Richer(d, e) == \A i \in Profiles : d.profile[i] => e.profile[i]

LEMMA FitsStays ==
    ASSUME NEW R, NEW Q, NEW d, NEW e, NEW o, Fits(R, d, o), Entry(e, o) = Entry(d, o),
           Managing(d, o) => /\ Rec(e, o).path = PathOf(o)
                             /\ Rec(e, o).installed[o[2]] = Entry(e, o)
                             /\ Present(R, d, PathOf(o)) => Present(Q, e, PathOf(o)),
           Richer(d, e)
    PROVE  Fits(Q, e, o)
  BY DEF Fits, Managing, Upstream, Serves, Has, Richer

LEMMA RoutesStay ==
    ASSUME NEW R, NEW Q, NEW d, NEW e, NEW o, RouteRuns(R, d, o),
           OnRecord(e, o) => /\ OnRecord(d, o) /\ e.route[o] = d.route[o]
                             /\ Present(R, d, PathOf(o)) => Present(Q, e, PathOf(o)),
           Richer(d, e)
    PROVE  RouteRuns(Q, e, o)
  BY DEF RouteRuns, RouteLine, Serves, Has, Richer

LEMMA RecordStays ==
    ASSUME NEW d, NEW e, NEW o, RecordKeeps(d, o), Rec(e, o) = Rec(d, o)
    PROVE  RecordKeeps(e, o)
  BY DEF RecordKeeps

(* What has been written when something is. *)
LEMMA SetupSequence ==
    ASSUME NEW j, NEW command, command # "restore", InSequence(j, command),
           NEW c, NEW f \in j.written, f = ConfigFile(c) \/ f = StateFile(c)
    PROVE  /\ \A p : PolicyFile(p) \in j.files => PolicyFile(p) \in j.written
           /\ \A i : ProfileFile(i) \in j.files => ProfileFile(i) \in j.written
           /\ \A o : RouteFile(o) \in j.files => RouteFile(o) \in j.written
           /\ f = ConfigFile(c) =>
                \A e : StateFile(e) \in j.files => StateFile(e) \in j.written
  <1>1. \A g \in j.files : ~(SetupRank[f[1]] <= SetupRank[g[1]]) => g \in j.written
    BY DEF InSequence, Rank
  <1>2. /\ f = ConfigFile(c) => SetupRank[f[1]] = 6
        /\ f = StateFile(c) => SetupRank[f[1]] = 5
    BY DEF SetupRank, ConfigFile, StateFile, File
  <1>3. /\ \A p : SetupRank[PolicyFile(p)[1]] = 3
        /\ \A i : SetupRank[ProfileFile(i)[1]] = 2
        /\ \A o : SetupRank[RouteFile(o)[1]] = 4
        /\ \A e : SetupRank[StateFile(e)[1]] = 5
    BY DEF SetupRank, PolicyFile, ProfileFile, RouteFile, StateFile, File
  <1>4. /\ ~(6 <= 2) /\ ~(6 <= 3) /\ ~(6 <= 4) /\ ~(6 <= 5)
        /\ ~(5 <= 2) /\ ~(5 <= 3) /\ ~(5 <= 4)
    OBVIOUS
  <1> QED
    BY <1>1, <1>2, <1>3, <1>4

LEMMA RestoreSequence ==
    ASSUME NEW j, InSequence(j, "restore"), NEW f \in j.written
    PROVE  /\ \A c : f = StateFile(c) =>
                \A p : PolicyFile(p) \in j.files => PolicyFile(p) \in j.written
           /\ (\E c : f = StateFile(c)) \/ (\E p : f = PolicyFile(p)) =>
                /\ \A c : ConfigFile(c) \in j.files => ConfigFile(c) \in j.written
                /\ \A o : RouteFile(o) \in j.files => RouteFile(o) \in j.written
  <1>1. \A g \in j.files : ~(RestoreRank[f[1]] <= RestoreRank[g[1]]) => g \in j.written
    BY DEF InSequence, Rank
  <1>2. /\ \A c : f = StateFile(c) => RestoreRank[f[1]] = 4
        /\ \A p : f = PolicyFile(p) => RestoreRank[f[1]] = 3
    BY DEF RestoreRank, StateFile, PolicyFile, File
  <1>3. /\ \A p : RestoreRank[PolicyFile(p)[1]] = 3
        /\ \A o : RestoreRank[RouteFile(o)[1]] = 1
        /\ \A c : RestoreRank[ConfigFile(c)[1]] = 2
    BY DEF RestoreRank, PolicyFile, RouteFile, ConfigFile, File
  <1>4. ~(4 <= 3) /\ ~(4 <= 2) /\ ~(4 <= 1) /\ ~(3 <= 2) /\ ~(3 <= 1)
    OBVIOUS
  <1> QED
    BY <1>1, <1>2, <1>3, <1>4

-----------------------------------------------------------------------------
(* A disk that is being written serves.                                    *)

LEMMA Landing ==
    ASSUME NEW T, NEW R, NEW d, NEW j, NEW files, NEW command,
           Lands(T, R, d, j, files, command), NEW o \in Owners
    PROVE  /\ EntryLands(T, R, d, j, files, o) /\ RouteLands(d, j, files, o)
           /\ Keeps(R, j.before, o) /\ Keeps(R, j.after, o)
           /\ ContentLands(R, d, j, files, PathOf(o))
           /\ command = "restore" => RestoreSpares(j, o)
           /\ command # "restore" => SetupServes(T, d, j, files, o)
           /\ InSequence(j, command)
  BY OwnerParts DEF Lands

(* What a session has not picked stays; what it has picked it writes. *)
LEMMA Unpicked ==
    ASSUME NEW w, NEW d, NEW j, NEW files, NEW command, Works(w, d, j, files, command),
           NEW o \in Owners
    PROVE  /\ o \notin DOMAIN j.picked =>
                Entry(j.after, o) = Entry(j.before, o) /\ Rec(j.after, o) = Rec(j.before, o)
           /\ o \in DOMAIN j.picked => ConfigFile(o[1]) \in j.files
  <1>1. IF o \in DOMAIN j.picked THEN PickedFine(w, d, j, o) ELSE OthersFine(w, d, j, o)
    BY DEF Works
  <1> QED
    BY <1>1 DEF PickedFine, OthersFine

LEMMA SetupPresents ==
    ASSUME NEW T, NEW R, NEW d, NEW j, NEW files, NEW command, command # "restore",
           Lands(T, R, d, j, files, command), j.written \subseteq j.files, NEW o \in Owners
    PROVE  /\ Richer(j.before, d)
           /\ Present(R, j.before, PathOf(o)) => Present(R, d, PathOf(o))
           /\ (\E c : ConfigFile(c) \in j.written \/ StateFile(c) \in j.written) =>
                /\ Richer(j.after, d)
                /\ Present(R, j.after, PathOf(o)) => Present(R, d, PathOf(o))
  <1> DEFINE p == PathOf(o)
  <1>1. /\ ContentLands(R, d, j, files, p) /\ SetupServes(T, d, j, files, o)
        /\ InSequence(j, command)
    BY Landing
  <1>2. \A i \in Profiles : ProfileLands(d, j, files, i)
    BY DEF Lands
  <1>3. Richer(j.before, d)
    BY <1>2 DEF Richer, ProfileLands, Side
  <1>4. Present(R, j.before, p) => Present(R, d, p)
    BY <1>1 DEF ContentLands, SetupServes, Side, Present
  <1>5. ASSUME \E c : ConfigFile(c) \in j.written \/ StateFile(c) \in j.written
        PROVE  /\ \A q : PolicyFile(q) \in j.files => PolicyFile(q) \in j.written
               /\ \A i : ProfileFile(i) \in j.files => ProfileFile(i) \in j.written
    BY <1>1, <1>5, SetupSequence
  <1>6. ASSUME \E c : ConfigFile(c) \in j.written \/ StateFile(c) \in j.written
        PROVE  Richer(j.after, d) /\ (Present(R, j.after, p) => Present(R, d, p))
    <2>1. Richer(j.after, d)
      BY <1>2, <1>5, <1>6 DEF Richer, ProfileLands, Side
    <2>2. Present(R, j.after, p) => Present(R, d, p)
      BY <1>1, <1>5, <1>6 DEF ContentLands, Side, Present
    <2> QED
      BY <2>1, <2>2
  <1> QED
    BY <1>3, <1>4, <1>6

LEMMA RestorePresents ==
    ASSUME NEW T, NEW R, NEW d, NEW j, NEW files, Lands(T, R, d, j, files, "restore"),
           j.written \subseteq j.files, NEW o \in Owners
    PROVE  /\ Richer(j.before, d) /\ Richer(j.after, d)
           /\ PolicyFile(PathOf(o)) \notin j.written =>
                (Present(R, j.before, PathOf(o)) => Present(R, d, PathOf(o)))
           /\ PolicyFile(PathOf(o)) \in j.written \/ PolicyFile(PathOf(o)) \notin j.files =>
                (Present(R, j.after, PathOf(o)) => Present(R, d, PathOf(o)))
  <1> DEFINE p == PathOf(o)
  <1>1. ContentLands(R, d, j, files, p)
    BY Landing
  <1>2. \A i \in Profiles : /\ ProfileLands(d, j, files, i)
                            /\ j.after.profile[i] <=> j.before.profile[i]
    BY DEF Lands
  <1>3. Richer(j.before, d) /\ Richer(j.after, d)
    BY <1>2 DEF Richer, ProfileLands, Side
  <1> QED
    BY <1>1, <1>3 DEF ContentLands, Side, Present

(* The entry is one of before or after, and so are its record and its policy. *)
LEMMA SetupEntryServes ==
    ASSUME NEW w, NEW T, NEW R, NEW d, NEW j, NEW files, NEW command, command # "restore",
           Works(w, d, j, files, command), Lands(T, R, d, j, files, command),
           j.written \subseteq j.files, NEW o \in Owners, o \notin T
    PROVE  Fits(R, d, o)
  <1> SUFFICES ASSUME Managing(d, o) PROVE Fits(R, d, o)
    BY DEF Fits
  <1> DEFINE c == o[1]
             a == j.after
             b == j.before
  <1>1. EntryLands(T, R, d, j, files, o) /\ SetupServes(T, d, j, files, o)
        /\ InSequence(j, command)
    BY Landing
  <1>2. /\ Rec(d, o) = IF StateFile(c) \in j.written THEN Rec(a, o) ELSE Rec(b, o)
        /\ StateFile(c) \notin j.files => Rec(a, o) = Rec(b, o)
        /\ o \notin DOMAIN j.picked => Rec(a, o) = Rec(b, o)
    BY RecordsLand, Unpicked
  <1>3. /\ Richer(b, d) /\ (Present(R, b, PathOf(o)) => Present(R, d, PathOf(o)))
        /\ ConfigFile(c) \in j.written \/ StateFile(c) \in j.written =>
             Richer(a, d) /\ (Present(R, a, PathOf(o)) => Present(R, d, PathOf(o)))
    BY SetupPresents
  <1>4. Ours(T, d, files, o) /\ Fits(R, a, o)
        /\ Entry(d, o) = Entry(Side(j, ConfigFile(c)), o)
    BY <1>1 DEF EntryLands, Ours
  <1>5. CASE ConfigFile(c) \in j.written
    <2>1. Entry(d, o) = Entry(a, o)
      BY <1>4, <1>5 DEF Side
    <2>2. Rec(d, o) = Rec(a, o)
      <3>1. StateFile(c) \in j.files => StateFile(c) \in j.written
        BY <1>1, <1>5, SetupSequence
      <3> QED
        BY <1>2, <3>1
    <2>3. Managing(a, o) =>
             Rec(d, o).path = PathOf(o) /\ Rec(d, o).installed[o[2]] = Entry(d, o)
      BY <1>4, <2>1, <2>2 DEF Fits
    <2> HIDE DEF a, b, c
    <2> QED
      BY <1>3, <1>4, <1>5, <2>1, <2>3, FitsStays
  <1>6. CASE ConfigFile(c) \notin j.written
    <2>1. Entry(d, o) = Entry(b, o) /\ Fits(R, b, o) /\ o \notin j.healed
      BY <1>1, <1>4, <1>6 DEF Side, EntryLands
    <2>2. Managing(b, o)
      BY <2>1 DEF Managing
    <2>3. Rec(d, o).path = PathOf(o) /\ Rec(d, o).installed[o[2]] = Entry(d, o)
      <3>1. CASE Rec(d, o) = Rec(b, o)
        BY <2>1, <2>2, <3>1 DEF Fits
      <3>2. CASE Rec(d, o) # Rec(b, o)
        <4>1. Rec(d, o) = Rec(a, o) /\ o \in DOMAIN j.picked
          BY <1>2, <3>2
        <4>2. Entry(a, o) = Entry(b, o)
          BY <1>1, <1>4, <2>1, <2>2, <4>1 DEF SetupServes
        <4>3. Managing(a, o)
          BY <2>2, <4>2 DEF Managing
        <4> QED
          BY <1>4, <2>1, <4>1, <4>2, <4>3 DEF Fits
      <3> QED
        BY <3>1, <3>2
    <2> HIDE DEF a, b, c
    <2> QED
      BY <1>3, <2>1, <2>3, FitsStays
  <1> QED
    BY <1>5, <1>6

LEMMA RestoreEntryServes ==
    ASSUME NEW w, NEW T, NEW R, NEW d, NEW j, NEW files,
           Works(w, d, j, files, "restore"), Lands(T, R, d, j, files, "restore"),
           j.written \subseteq j.files, NEW o \in Owners, o \notin T
    PROVE  Fits(R, d, o)
  <1> SUFFICES ASSUME Managing(d, o) PROVE Fits(R, d, o)
    BY DEF Fits
  <1> DEFINE c == o[1]
             a == j.after
             b == j.before
             P == PolicyFile(PathOf(o))
  <1>1. EntryLands(T, R, d, j, files, o) /\ RestoreSpares(j, o) /\ InSequence(j, "restore")
    BY Landing
  <1>2. /\ Rec(d, o) = IF StateFile(c) \in j.written THEN Rec(a, o) ELSE Rec(b, o)
        /\ StateFile(c) \notin j.files => Rec(a, o) = Rec(b, o)
        /\ o \notin DOMAIN j.picked => Rec(a, o) = Rec(b, o)
        /\ o \in DOMAIN j.picked => ConfigFile(c) \in j.files
    BY RecordsLand, Unpicked
  <1>3. /\ Richer(b, d) /\ Richer(a, d)
        /\ P \notin j.written => (Present(R, b, PathOf(o)) => Present(R, d, PathOf(o)))
        /\ P \in j.written \/ P \notin j.files =>
             (Present(R, a, PathOf(o)) => Present(R, d, PathOf(o)))
    BY RestorePresents
  <1>4. Ours(T, d, files, o) /\ Fits(R, a, o)
        /\ Entry(d, o) = Entry(Side(j, ConfigFile(c)), o)
    BY <1>1 DEF EntryLands, Ours
  <1>5. CASE ConfigFile(c) \in j.written
    <2>1. Entry(d, o) = Entry(a, o)
      BY <1>4, <1>5 DEF Side
    <2>2. Managing(a, o)
      BY <2>1 DEF Managing
    <2>3. o \notin DOMAIN j.picked
      BY <1>1, <2>2 DEF RestoreSpares
    <2>4. Rec(d, o) = Rec(a, o) /\ Rec(a, o) = Rec(b, o)
      BY <1>2, <2>3
    <2>5. Rec(d, o).path = PathOf(o) /\ Rec(d, o).installed[o[2]] = Entry(d, o)
      BY <1>4, <2>1, <2>2, <2>4 DEF Fits
    <2>6. P \notin j.files
      BY <1>1, <2>3, <2>4, <2>5 DEF RestoreSpares
    <2> HIDE DEF a, b, c, P
    <2> QED
      BY <1>3, <1>4, <2>1, <2>5, <2>6, FitsStays
  <1>6. CASE ConfigFile(c) \notin j.written
    <2>1. Entry(d, o) = Entry(b, o) /\ Fits(R, b, o) /\ o \notin j.healed
      BY <1>1, <1>4, <1>6 DEF Side, EntryLands
    <2>2. Managing(b, o)
      BY <2>1 DEF Managing
    <2>3. Rec(b, o).path = PathOf(o)
      BY <2>1, <2>2 DEF Fits
    <2>4. o \in DOMAIN j.picked => P \notin j.written /\ StateFile(c) \notin j.written
      BY <1>1, <1>2, <1>6, RestoreSequence
    <2>5. P \notin j.written
      BY <1>1, <2>3, <2>4 DEF RestoreSpares
    <2>6. Rec(d, o) = Rec(b, o)
      BY <1>2, <2>4
    <2>7. Rec(d, o).path = PathOf(o) /\ Rec(d, o).installed[o[2]] = Entry(d, o)
      BY <2>1, <2>2, <2>6 DEF Fits
    <2> HIDE DEF a, b, c, P
    <2> QED
      BY <1>3, <2>1, <2>5, <2>7, FitsStays
  <1> QED
    BY <1>5, <1>6

LEMMA NoRecordHasNoRoute == NoRecord.route = NoRoute
  <1> DEFINE blank == [n \in Names |-> NoEntry]
             none == NoRoute
  <1> HIDE DEF blank, none
  <1>1. NoRecord = [original |-> blank, installed |-> blank, created |-> FALSE, path |-> "",
                    before |-> NoFile, policy |-> NoFile, route |-> none]
    BY DEF NoRecord, blank, none
  <1> QED
    BY <1>1 DEF none

LEMMA RecordKeptEitherWay ==
    ASSUME NEW w, NEW T, NEW R, NEW d, NEW j, NEW files, NEW command,
           Works(w, d, j, files, command), Lands(T, R, d, j, files, command), NEW o \in Owners
    PROVE  RecordKeeps(d, o)
  <1>1. RecordKeeps(j.before, o) /\ RecordKeeps(j.after, o)
    BY Landing DEF Keeps
  <1>2. Rec(d, o) = Rec(j.after, o) \/ Rec(d, o) = Rec(j.before, o)
    BY RecordsLand
  <1> QED
    BY <1>1, <1>2, RecordStays

LEMMA SetupKeepsRoutes ==
    ASSUME NEW w, NEW T, NEW R, NEW d, NEW j, NEW files, NEW command, command # "restore",
           Works(w, d, j, files, command), Lands(T, R, d, j, files, command),
           j.written \subseteq j.files, NEW o \in Owners
    PROVE  RouteRuns(R, d, o)
  <1> SUFFICES ASSUME OnRecord(d, o) PROVE RouteRuns(R, d, o)
    BY DEF RouteRuns
  <1> DEFINE c == o[1]
             a == j.after
             b == j.before
  <1>1. /\ RouteLands(d, j, files, o) /\ RouteRuns(R, a, o) /\ RouteRuns(R, b, o)
        /\ SetupServes(T, d, j, files, o) /\ InSequence(j, command)
    BY Landing DEF Keeps
  <1>2. Rec(d, o) = IF StateFile(c) \in j.written THEN Rec(a, o) ELSE Rec(b, o)
    BY RecordsLand
  <1>3. /\ Richer(b, d) /\ (Present(R, b, PathOf(o)) => Present(R, d, PathOf(o)))
        /\ StateFile(c) \in j.written =>
             Richer(a, d) /\ (Present(R, a, PathOf(o)) => Present(R, d, PathOf(o)))
    BY SetupPresents
  <1>4. /\ d.route[o] = IF RouteFile(o) \in j.written THEN a.route[o] ELSE b.route[o]
        /\ RouteFile(o) \notin j.files => a.route[o] = b.route[o]
        /\ a.route[o] # b.route[o] => Rec(b, o).route = NoRoute
    BY <1>1 DEF RouteLands, Side, SetupServes
  <1>5. StateFile(c) \in j.written /\ RouteFile(o) \in j.files => RouteFile(o) \in j.written
    BY <1>1, SetupSequence
  <1> HIDE DEF a, b, c
  <1>6. CASE StateFile(c) \in j.written
    <2>1. OnRecord(a, o) /\ d.route[o] = a.route[o]
      BY <1>2, <1>4, <1>5, <1>6 DEF OnRecord
    <2> QED
      BY <1>1, <1>3, <1>6, <2>1, RoutesStay
  <1>7. CASE StateFile(c) \notin j.written
    <2>1. OnRecord(b, o) /\ d.route[o] = b.route[o]
      BY <1>2, <1>4, <1>7 DEF OnRecord
    <2> QED
      BY <1>1, <1>3, <2>1, RoutesStay
  <1> QED
    BY <1>6, <1>7

LEMMA RestoreKeepsRoutes ==
    ASSUME NEW w, NEW T, NEW R, NEW d, NEW j, NEW files,
           Works(w, d, j, files, "restore"), Lands(T, R, d, j, files, "restore"),
           j.written \subseteq j.files, NEW o \in Owners
    PROVE  RouteRuns(R, d, o)
  <1> SUFFICES ASSUME OnRecord(d, o) PROVE RouteRuns(R, d, o)
    BY DEF RouteRuns
  <1> DEFINE c == o[1]
             a == j.after
             b == j.before
             P == PolicyFile(PathOf(o))
  <1>1. /\ RouteLands(d, j, files, o) /\ RouteRuns(R, a, o) /\ RouteRuns(R, b, o)
        /\ RecordKeeps(b, o) /\ RestoreSpares(j, o) /\ InSequence(j, "restore")
    BY Landing DEF Keeps
  <1>2. Rec(d, o) = IF StateFile(c) \in j.written THEN Rec(a, o) ELSE Rec(b, o)
    BY RecordsLand
  <1>3. /\ Richer(b, d) /\ Richer(a, d)
        /\ P \notin j.written => (Present(R, b, PathOf(o)) => Present(R, d, PathOf(o)))
        /\ P \in j.written \/ P \notin j.files =>
             (Present(R, a, PathOf(o)) => Present(R, d, PathOf(o)))
    BY RestorePresents
  <1>4. /\ d.route[o] = IF RouteFile(o) \in j.written THEN a.route[o] ELSE b.route[o]
        /\ RouteFile(o) \notin j.files => a.route[o] = b.route[o]
        /\ a.route[o] \in {NoRoute, b.route[o]}
    BY <1>1 DEF RouteLands, Side, RestoreSpares
  <1>5. /\ StateFile(c) \in j.written /\ P \in j.files => P \in j.written
        /\ StateFile(c) \in j.written \/ P \in j.written =>
             (RouteFile(o) \in j.files => RouteFile(o) \in j.written)
    BY <1>1, RestoreSequence
  <1>6. d.route[o] # NoRoute
    BY DEF OnRecord
  <1>7. CASE StateFile(c) \in j.written
    <2>1. OnRecord(a, o) /\ d.route[o] = a.route[o]
      BY <1>2, <1>4, <1>5, <1>7 DEF OnRecord
    <2>2. P \in j.written \/ P \notin j.files
      BY <1>5, <1>7
    <2> HIDE DEF a, b, c, P
    <2> QED
      BY <1>1, <1>3, <2>1, <2>2, RoutesStay
  <1>8. CASE StateFile(c) \notin j.written
    <2>1. OnRecord(b, o) /\ d.route[o] = b.route[o]
      BY <1>2, <1>4, <1>6, <1>8 DEF OnRecord
    <2>2. Rec(b, o).path = PathOf(o)
      BY <1>1, <2>1, NoRecordHasNoRoute DEF OnRecord, RecordKeeps
    <2>3. P \in j.files => a.route[o] = NoRoute
      BY <1>1, <2>1, <2>2 DEF RestoreSpares
    <2>4. P \notin j.written
      BY <1>4, <1>5, <1>6, <2>1, <2>3
    <2> HIDE DEF a, b, c, P
    <2> QED
      BY <1>1, <1>3, <2>1, <2>4, RoutesStay
  <1> QED
    BY <1>7, <1>8

(* Wherever a session stops, what there is serves. *)
LEMMA LandsServe ==
    ASSUME NEW w, NEW T, NEW R, NEW d, NEW j, NEW files, NEW command,
           Works(w, d, j, files, command), Lands(T, R, d, j, files, command),
           j.written \subseteq j.files
    PROVE  Served(T, R, d)
  <1>1. ASSUME NEW o \in Owners
        PROVE  Keeps(R, d, o)
    <2>1. RecordKeeps(d, o)
      BY RecordKeptEitherWay
    <2>2. RouteRuns(R, d, o)
      <3>1. CASE command = "restore"
        BY <3>1, RestoreKeepsRoutes
      <3>2. CASE command # "restore"
        BY <3>2, SetupKeepsRoutes
      <3> QED
        BY <3>1, <3>2
    <2> QED
      BY <2>1, <2>2 DEF Keeps
  <1>2. ASSUME NEW o \in Owners, o \notin T
        PROVE  Fits(R, d, o)
    <2>1. CASE command = "restore"
      BY <1>2, <2>1, RestoreEntryServes
    <2>2. CASE command # "restore"
      BY <1>2, <2>2, SetupEntryServes
    <2> QED
      BY <2>1, <2>2
  <1> QED
    BY <1>1, <1>2 DEF Served

-----------------------------------------------------------------------------
(* A file is written, and the session rolls back or finishes.              *)

(* File f may come next: nothing that is to come has to come before. *)
Precedes(j, f, command) ==
    \A g \in j.files \ j.written : Rank(command)[f[1]] <= Rank(command)[g[1]]

LEMMA WriteKeepsSequence ==
    ASSUME NEW j, NEW command, InSequence(j, command), NEW f, Precedes(j, f, command),
           NEW k, Wrote(j, k, f)
    PROVE  InSequence(k, command)
  <1>1. ASSUME NEW h \in k.written, NEW g \in k.files,
               ~(Rank(command)[h[1]] <= Rank(command)[g[1]])
        PROVE  g \in k.written
    <2>1. k.files = j.files /\ k.written = j.written \union {f}
      BY DEF Wrote
    <2>2. CASE h = f
      BY <1>1, <2>1, <2>2 DEF Precedes
    <2>3. CASE h \in j.written
      BY <1>1, <2>1, <2>3 DEF InSequence
    <2> QED
      BY <2>1, <2>2, <2>3
  <1> QED
    BY <1>1 DEF InSequence

LEMMA WriteLands ==
    ASSUME NEW T, NEW R, NEW d, NEW j, NEW files, NEW command,
           Lands(T, R, d, j, files, command), IsDisk(d),
           NEW f, f \notin files, Precedes(j, f, command),
           NEW x, x = Copy(d, {f}, j.after), NEW k, Wrote(j, k, f), k.healed = j.healed,
           NEW U, U = T \ {o \in j.healed : f = ConfigFile(o[1])}
    PROVE  Lands(U, R, x, k, files, command)
  <1>1. /\ k.before = j.before /\ k.after = j.after /\ k.picked = j.picked
        /\ k.files = j.files /\ k.written = j.written \union {f}
    BY DEF Wrote
  <1>2. ASSUME NEW o \in Owners
        PROVE  /\ EntryLands(U, R, x, k, files, o)
               /\ Ours(U, x, files, o) /\ o \notin j.healed => Ours(T, d, files, o)
    <2> DEFINE F == ConfigFile(o[1])
    <2>1. Entry(x, o) = IF F = f THEN Entry(j.after, o) ELSE Entry(d, o)
      BY CopyEntries
    <2>2. EntryLands(T, R, d, j, files, o)
      BY Landing
    <2>3. (F # f \/ o \notin j.healed) => (o \in U <=> o \in T)
      OBVIOUS
    <2>4. Side(k, F) = IF F = f THEN j.after ELSE Side(j, F)
      BY <1>1 DEF Side
    <2> HIDE DEF F
    <2>5. CASE F = f
      <3>1. Ours(U, x, files, o) /\ o \notin j.healed => Ours(T, d, files, o)
        BY <2>3, <2>5 DEF Ours, F
      <3>2. Entry(x, o) = Entry(Side(k, F), o) /\ F \in k.written
        BY <1>1, <2>1, <2>4, <2>5
      <3> QED
        BY <1>1, <2>2, <3>1, <3>2 DEF EntryLands, F
    <2>6. CASE F # f
      <3>1. /\ o \in U <=> o \in T
            /\ Managing(x, o) <=> Managing(d, o)
            /\ Entry(x, o) = Entry(d, o) /\ Side(k, F) = Side(j, F)
        BY <2>1, <2>3, <2>4, <2>6 DEF Managing
      <3>2. Ours(U, x, files, o) <=> Ours(T, d, files, o)
        BY <3>1 DEF Ours
      <3> QED
        BY <1>1, <2>2, <3>1, <3>2 DEF EntryLands, F
    <2> QED
      BY <2>5, <2>6
  <1>3. ASSUME NEW o \in Owners
        PROVE  RouteLands(x, k, files, o)
    <2>1. x.route[o] = IF RouteFile(o) = f THEN j.after.route[o] ELSE d.route[o]
      BY CopyRest
    <2>2. RouteLands(d, j, files, o)
      BY Landing
    <2> QED
      BY <1>1, <2>1, <2>2 DEF RouteLands, Side
  <1>4. ASSUME NEW i \in Profiles
        PROVE  /\ ProfileLands(x, k, files, i)
               /\ command = "restore" => (k.after.profile[i] <=> k.before.profile[i])
    <2>1. x.profile[i] = IF ProfileFile(i) = f THEN j.after.profile[i] ELSE d.profile[i]
      BY CopyRest
    <2>2. /\ ProfileLands(d, j, files, i)
          /\ command = "restore" => (j.after.profile[i] <=> j.before.profile[i])
      BY DEF Lands
    <2> QED
      BY <1>1, <2>1, <2>2 DEF ProfileLands, Side
  <1>5. ASSUME NEW p \in Paths
        PROVE  ContentLands(R, x, k, files, p)
    <2>1. x.policy[p] = IF PolicyFile(p) = f THEN j.after.policy[p] ELSE d.policy[p]
      BY CopyEntries
    <2>2. ContentLands(R, d, j, files, p)
      BY DEF Lands
    <2> QED
      BY <1>1, <2>1, <2>2 DEF ContentLands, Side, Present
  <1>6. ASSUME NEW o \in Owners, command # "restore"
        PROVE  SetupServes(U, x, k, files, o)
    <2>1. SetupServes(T, d, j, files, o)
      BY <1>6, Landing
    <2> QED
      BY <1>1, <1>2, <2>1 DEF SetupServes
  <1>7. ASSUME NEW o \in Owners
        PROVE  /\ Keeps(R, k.before, o) /\ Keeps(R, k.after, o)
               /\ command = "restore" => RestoreSpares(k, o)
    <2>1. /\ Keeps(R, j.before, o) /\ Keeps(R, j.after, o)
          /\ command = "restore" => RestoreSpares(j, o)
      BY Landing
    <2> QED
      BY <1>1, <2>1 DEF RestoreSpares
  <1>8. InSequence(k, command)
    <2>1. InSequence(j, command)
      BY DEF Lands
    <2> QED
      BY <2>1, WriteKeepsSequence
  <1> QED
    BY <1>2, <1>3, <1>4, <1>5, <1>6, <1>7, <1>8 DEF Lands

LEMMA RollBackServes ==
    ASSUME NEW w, NEW T, NEW R, NEW d, NEW j, NEW files, NEW command,
           Works(w, d, j, files, command), Lands(T, R, d, j, files, command), IsDisk(d),
           j.written \subseteq j.files,
           NEW x, x = Copy(d, j.written \ files, j.before),
           NEW U, U = T \union j.healed \union (IF j.written \cap files = {} THEN {}
                                                ELSE DOMAIN j.picked)
    PROVE  Served(U, R, x)
  <1> DEFINE undo == j.written \ files
             b == j.before
  <1>1. /\ \A o \in Owners :
             /\ Entry(x, o) = IF ConfigFile(o[1]) \in undo THEN Entry(b, o) ELSE Entry(d, o)
             /\ Rec(x, o) = IF StateFile(o[1]) \in undo THEN Rec(b, o) ELSE Rec(d, o)
             /\ x.route[o] = IF RouteFile(o) \in undo THEN b.route[o] ELSE d.route[o]
        /\ \A i \in Profiles :
             x.profile[i] = IF ProfileFile(i) \in undo THEN b.profile[i] ELSE d.profile[i]
        /\ \A p \in Paths :
             x.policy[p] = IF PolicyFile(p) \in undo THEN b.policy[p] ELSE d.policy[p]
    BY CopyEntries, CopyRest
  <1>2. Richer(b, x)
    <2>1. \A i \in Profiles : ProfileLands(d, j, files, i)
      BY DEF Lands
    <2> QED
      BY <1>1, <2>1 DEF Richer, ProfileLands, Side
  <1>3. ASSUME NEW o \in Owners
        PROVE  /\ Rec(x, o) = Rec(b, o) /\ x.route[o] = b.route[o]
               /\ Present(R, b, PathOf(o)) => Present(R, x, PathOf(o))
    <2>1. Rec(x, o) = Rec(b, o)
      <3>1. Rec(x, o) = IF StateFile(o[1]) \in undo THEN Rec(b, o) ELSE Rec(d, o)
        BY <1>1
      <3>2. /\ Rec(d, o) = IF StateFile(o[1]) \in j.written THEN Rec(j.after, o) ELSE Rec(b, o)
            /\ StateFile(o[1]) \notin files
        BY RecordsLand
      <3> QED
        BY <3>1, <3>2
    <2>2. x.route[o] = b.route[o]
      <3>1. RouteLands(d, j, files, o)
        BY Landing
      <3> QED
        BY <1>1, <3>1 DEF RouteLands, Side
    <2>3. Present(R, b, PathOf(o)) => Present(R, x, PathOf(o))
      <3>1. ContentLands(R, d, j, files, PathOf(o)) /\ PathOf(o) \in Paths
        BY Landing, OwnerParts
      <3>2. x.policy[PathOf(o)] = IF PolicyFile(PathOf(o)) \in undo THEN b.policy[PathOf(o)]
                                  ELSE d.policy[PathOf(o)]
        BY <1>1, <3>1
      <3> QED
        BY <3>1, <3>2 DEF ContentLands, Side, Present
    <2> QED
      BY <2>1, <2>2, <2>3
  <1>4. ASSUME NEW o \in Owners
        PROVE  Keeps(R, x, o)
    <2>1. RouteRuns(R, b, o) /\ RecordKeeps(b, o)
      BY Landing DEF Keeps
    <2>2. RecordKeeps(x, o)
      BY <1>3, <2>1, RecordStays
    <2>3. OnRecord(x, o) => OnRecord(b, o)
      BY <1>3 DEF OnRecord
    <2> HIDE DEF b
    <2>4. RouteRuns(R, x, o)
      BY <1>2, <1>3, <2>1, <2>3, RoutesStay
    <2> QED
      BY <2>2, <2>4 DEF Keeps
  <1>5. ASSUME NEW o \in Owners, o \notin U
        PROVE  Fits(R, x, o)
    <2> SUFFICES ASSUME Managing(x, o) PROVE Fits(R, x, o)
      BY DEF Fits
    <2> DEFINE F == ConfigFile(o[1])
    <2>1. o \notin T /\ o \notin j.healed /\ (j.written \cap files # {} => o \notin DOMAIN j.picked)
      BY <1>5
    <2>2. EntryLands(T, R, d, j, files, o)
      BY Landing
    <2>3. Entry(x, o) = IF F \in undo THEN Entry(b, o) ELSE Entry(d, o)
      BY <1>1
    <2>4. F \in undo \/ (Managing(d, o) /\ Entry(d, o) = Entry(Side(j, F), o))
      BY <2>1, <2>2, <2>3 DEF EntryLands, Managing
    <2>5. Ours(T, d, files, o)
      BY <2>1, <2>4 DEF Ours
    <2>6. Fits(R, b, o)
      BY <2>1, <2>2, <2>5 DEF EntryLands
    <2>7. Entry(x, o) = Entry(b, o)
      <3>1. CASE F \in undo
        BY <2>3, <3>1
      <3>2. CASE F \notin j.written
        BY <2>3, <2>4, <3>2 DEF Side
      <3>3. CASE F \in j.written /\ F \in files
        <4>1. o \notin DOMAIN j.picked
          BY <2>1, <3>3
        <4>2. Entry(j.after, o) = Entry(b, o)
          BY <4>1, Unpicked
        <4> QED
          BY <2>3, <2>4, <3>3, <4>2 DEF Side
      <3> QED
        BY <3>1, <3>2, <3>3
    <2>8. Rec(x, o).path = PathOf(o) /\ Rec(x, o).installed[o[2]] = Entry(x, o)
      BY <1>3, <2>6, <2>7 DEF Fits, Managing
    <2> HIDE DEF b
    <2> QED
      BY <1>2, <1>3, <2>6, <2>7, <2>8, FitsStays
  <1> QED
    BY <1>4, <1>5 DEF Served

(* What a setup has written is there, and the user has not removed it since. *)
LEMMA FinishServes ==
    ASSUME NEW w, NEW T, NEW R, NEW d, NEW j, NEW files, NEW command,
           Works(w, d, j, files, command), Lands(T, R, d, j, files, command),
           j.written = j.files,
           NEW Q, \A p \in Paths :
                    /\ PolicyFile(p) \notin j.files \/ command = "restore" => (p \in R => p \in Q)
                    /\ PolicyFile(p) \in j.files /\ command # "restore" =>
                          d.policy[p] = j.after.policy[p]
    PROVE  Served(T, Q, d)
  <1>1. Served(T, R, d)
    BY LandsServe
  <1>2. ASSUME NEW o \in Owners
        PROVE  Present(R, d, PathOf(o)) => Present(Q, d, PathOf(o))
    <2>1. PathOf(o) \in Paths
      BY OwnerParts
    <2>2. command # "restore" => SetupServes(T, d, j, files, o)
      BY Landing
    <2> QED
      BY <2>1, <2>2 DEF SetupServes, Present
  <1>3. Richer(d, d)
    BY DEF Richer
  <1>4. ASSUME NEW o \in Owners
        PROVE  (o \in T \/ Fits(Q, d, o)) /\ Keeps(Q, d, o)
    <2>1. (o \in T \/ Fits(R, d, o)) /\ RouteRuns(R, d, o) /\ RecordKeeps(d, o)
      BY <1>1 DEF Served, Keeps
    <2>2. RouteRuns(Q, d, o)
      BY <1>2, <1>3, <2>1, RoutesStay
    <2>3. Fits(R, d, o) => Fits(Q, d, o)
      BY <1>2 DEF Fits, Serves
    <2> QED
      BY <2>1, <2>2, <2>3 DEF Keeps
  <1> QED
    BY <1>4 DEF Served

-----------------------------------------------------------------------------
(* A plan is begun whose writes will serve.                                *)

LEMMA PlanLands ==
    ASSUME NEW T, NEW R, NEW b, Served(T, R, b),
           NEW x, x.config = b.config, x.policy = b.policy,
           x.route = b.route, x.profile = b.profile,
           NEW k, k.before = b, k.written = {}, k.healed \subseteq T, NEW command,
           NEW a, k.after = a,
           \A o \in Owners :
              /\ o \notin T \/ o \in k.healed => Fits(R, a, o)
              /\ Keeps(R, a, o)
              /\ RouteFile(o) \notin k.files => a.route[o] = b.route[o]
              /\ IF command = "restore" THEN RestoreSpares(k, o)
                 ELSE SetupServes(T, b, k, {}, o),
           \A i \in Profiles :
              /\ ProfileFile(i) \notin k.files => (a.profile[i] <=> b.profile[i])
              /\ b.profile[i] => a.profile[i]
              /\ command = "restore" => (a.profile[i] <=> b.profile[i]),
           \A p \in Paths : PolicyFile(p) \notin k.files => a.policy[p] = b.policy[p]
    PROVE  Lands(T, R, x, k, {}, command)
  <1>1. \A o \in Owners : Entry(x, o) = Entry(b, o)
    BY DEF Entry
  <1>2. \A f : Side(k, f) = b
    BY DEF Side
  <1>3. ASSUME NEW o \in Owners
        PROVE  /\ EntryLands(T, R, x, k, {}, o) /\ RouteLands(x, k, {}, o)
               /\ Keeps(R, k.before, o) /\ Keeps(R, k.after, o)
    <2>1. o \in T \/ Fits(R, b, o)
      BY DEF Served
    <2>2. EntryLands(T, R, x, k, {}, o)
      BY <1>1, <1>2, <2>1 DEF EntryLands, Ours
    <2>3. RouteLands(x, k, {}, o)
      BY <1>2 DEF RouteLands
    <2> QED
      BY <2>2, <2>3 DEF Served
  <1>4. ASSUME NEW o \in Owners
        PROVE  IF command = "restore" THEN RestoreSpares(k, o)
               ELSE SetupServes(T, x, k, {}, o)
    <2>1. Ours(T, x, {}, o) <=> Ours(T, b, {}, o)
      BY <1>1 DEF Ours, Managing
    <2> QED
      BY <2>1 DEF SetupServes
  <1>5. ASSUME NEW i \in Profiles
        PROVE  /\ ProfileLands(x, k, {}, i)
               /\ command = "restore" => (k.after.profile[i] <=> k.before.profile[i])
    BY <1>2 DEF ProfileLands
  <1>6. ASSUME NEW p \in Paths
        PROVE  ContentLands(R, x, k, {}, p)
    BY <1>2 DEF ContentLands
  <1>7. InSequence(k, command)
    BY DEF InSequence
  <1> QED
    BY <1>3, <1>4, <1>5, <1>6, <1>7 DEF Lands

LEMMA BegunRest ==
    ASSUME Routed, NEW s \in Sessions, ~Writing(s), NEW files, NEW after, NEW healed,
           Begin(s, files, after, healed)
    PROVE  /\ sess'[s].healed = healed
           /\ disk'.route = disk.route /\ disk'.profile = disk.profile
  <1> DEFINE new == [sess[s] EXCEPT !.pc = "writing", !.files = files, !.before = disk,
                                    !.after = after, !.healed = healed]
  <1>1. Becomes(s, new)
    BY DEF Begin
  <1>2. IsSession(sess[s]) /\ IsDisk(disk)
    BY DEF Routed, Shape
  <1>3. new.healed = healed
    BY <1>2 DEF IsSession
  <1>4. disk'.route = disk.route /\ disk'.profile = disk.profile
    BY <1>2 DEF Begin, IsDisk
  <1>5. sess'[s] = new
    BY <1>1, BecomesIs DEF Routed
  <1> HIDE DEF new
  <1> QED
    BY <1>3, <1>4, <1>5

(* What a setup leaves of routes, profiles and policies that are not its own. *)
LEMMA InstalledRest ==
    ASSUME Routed, NEW s, DOMAIN sess[s].picked \subseteq Owners,
           NEW entries, NEW routes, NEW created,
           NEW after, after = Installed(s, entries, routes, created)
    PROVE  /\ \A o \in Owners :
                after.route[o] = IF o \in DOMAIN sess[s].picked /\ routes[o] # NoRoute
                                 THEN routes[o] ELSE disk.route[o]
           /\ \A i \in Profiles :
                after.profile[i] <=> \/ disk.profile[i]
                                     \/ \E o \in DOMAIN sess[s].picked :
                                          sess[s].picked[o].source.profile = i
           /\ \A p \in Paths :
                \/ after.policy[p] = disk.policy[p]
                \/ \E o \in DOMAIN sess[s].picked : PathOf(o) = p
  <1> DEFINE T == DOMAIN sess[s].picked
             profile == [i \in Profiles |-> disk.profile[i] \/
                            \E o \in T : sess[s].picked[o].source.profile = i]
             policy == [p \in Paths |->
                          IF \E o \in T : PathOf(o) = p
                          THEN sess[s].picked[CHOOSE o \in T : PathOf(o) = p].policy
                          ELSE disk.policy[p]]
  <1>1. IsDisk(disk)
    BY DEF Routed, Shape
  <1>2. after.profile = profile
    BY <1>1 DEF Installed, IsDisk
  <1>3. after.policy = policy
    BY <1>1 DEF Installed, IsDisk
  <1>4. after.route = [o \in Owners |-> IF o \in T /\ routes[o] # NoRoute
                                        THEN routes[o] ELSE disk.route[o]]
    BY InstalledRoutes
  <1>5. \A o \in Owners : after.route[o] = IF o \in T /\ routes[o] # NoRoute
                                           THEN routes[o] ELSE disk.route[o]
    BY <1>4
  <1>6. ASSUME NEW i \in Profiles
        PROVE  after.profile[i] <=> disk.profile[i] \/
                                    \E o \in T : sess[s].picked[o].source.profile = i
    BY <1>2
  <1>7. ASSUME NEW p \in Paths
        PROVE  after.policy[p] = disk.policy[p] \/ \E o \in T : PathOf(o) = p
    BY <1>3
  <1> QED
    BY <1>5, <1>6, <1>7

LEMMA LegacyIsUnmanaged ==
    ASSUME NEW d, NEW c, NEW n, LegacyRestoreEntry(d, c, n) # {},
           NEW entry \in LegacyRestoreEntry(d, c, n)
    PROVE  ManagedPolicy(entry.original[n]) = ""
  <1>1. PICK i \in DOMAIN d.backups[c] :
           /\ Restorable(d.config[c], n, FromBackup(d.backups[c][i]))
           /\ entry = FromBackup(d.backups[c][i])
    BY DEF LegacyRestoreEntry
  <1> DEFINE by == FromBackup(d.backups[c][i])
  <1>2. by.tracked = FALSE
    BY DEF FromBackup
  <1> HIDE DEF by
  <1>3. WrapsOriginal(ParseEntry(d.config[c][n]), ParseEntry(by.original[n]))
    BY <1>1, <1>2 DEF Restorable, by
  <1> QED
    BY <1>1, <1>3 DEF WrapsOriginal, ManagedPolicy, by

LEMMA RecordAsRest ==
    ASSUME NEW adoption \in {"fresh", "record", "legacy"}, NEW d, NEW c, NEW n, NEW installed,
           NEW policy, NEW created, NEW route,
           NEW r, r = RecordAs(adoption, d, c, n, installed, policy, created, route)
    PROVE  /\ r.installed = installed /\ r.route = route
           /\ adoption = "legacy" =>
                r.original = (CHOOSE e \in LegacyRestoreEntry(d, c, n) : TRUE).original
           /\ adoption # "record" => r.created = created
  BY DEF RecordAs

(* A command line that runs upstream src under the policy, if it parses. *)
RunsAs(policy, src, line) == line.policy # "" => line.policy = policy /\ line.source = src

(* A wrapper, or an entry of the gateway's, that owner o is given for upstream src, *)
(* and the route of the latter.                                                     *)
Offers(T, d, healed, o, entry, src, created, route) ==
    /\ ManagedPolicy(entry) # "" => Wraps(o, src, entry)
    /\ Answered(src) /\ (src.profile # "" => src.profile \in Profiles)
    /\ o \notin T \/ o \in healed => Adoption(d, o[1], o[2]) # "none"
    /\ o \notin T /\ Managing(d, o) => entry = Entry(d, o)
    /\ route # NoRoute =>
         /\ created /\ IsLocalHttp(entry) /\ Adoption(d, o[1], o[2]) = "fresh"
         /\ Rec(d, o).route = NoRoute
         /\ RunsAs(PathOf(o), src, ParseManagedWrapper(route.args))

(* The record that r is, of the installation of the entry, and what it says. *)
IsNew(d, o, entry, created, route, r) ==
    \E installed, policy :
        /\ installed[o[2]] = entry
        /\ r = NewRecord(d, o[1], o[2], installed, policy, created, route)
Tells(d, o, entry, created, route, r) ==
    /\ r = NoRecord \/ (r.path = PathOf(o) /\ r.installed[o[2]] = entry /\ r.route = route)
    /\ r # NoRecord => /\ ManagedPolicy(r.original[o[2]]) = ""
                       /\ r.route # NoRoute => r.created /\ IsLocalHttp(entry)
    /\ Adoption(d, o[1], o[2]) # "none" => r # NoRecord

LEMMA InstalledServes ==
    ASSUME NEW T, NEW d, NEW healed, NEW o \in Owners, NEW entry, NEW src,
           NEW created \in BOOLEAN, NEW route, NEW r,
           Offers(T, d, healed, o, entry, src, created, route), RecordKeeps(d, o),
           IsNew(d, o, entry, created, route, r)
    PROVE  Tells(d, o, entry, created, route, r)
  <1> SUFFICES ASSUME NEW installed, installed[o[2]] = entry, NEW policy,
                      r = NewRecord(d, o[1], o[2], installed, policy, created, route)
               PROVE  /\ r = NoRecord \/ (/\ r.path = PathOf(o) /\ r.installed[o[2]] = entry
                                          /\ r.route = route)
                      /\ r # NoRecord => /\ ManagedPolicy(r.original[o[2]]) = ""
                                         /\ r.route # NoRoute => r.created /\ IsLocalHttp(entry)
                      /\ Adoption(d, o[1], o[2]) # "none" => r # NoRecord
    BY DEF IsNew, Tells
  <1> DEFINE adoption == Adoption(d, o[1], o[2])
  <1>1. /\ adoption \in {"fresh", "record", "legacy", "none"}
        /\ adoption = "record" => Rec(d, o) # NoRecord
        /\ adoption = "fresh" => ManagedPolicy(Entry(d, o)) = ""
        /\ adoption = "legacy" => LegacyRestoreEntry(d, o[1], o[2]) # {}
    BY AdoptionIs DEF Rec, Entry, Adoption
  <1>2. r = RecordAs(adoption, d, o[1], o[2], installed, policy, created, route)
    BY DEF NewRecord
  <1>3. PathOf(o) # ""
    BY OwnerParts
  <1>4. route # NoRoute => created /\ IsLocalHttp(entry) /\ adoption = "fresh"
    BY DEF Offers
  <1> HIDE DEF adoption
  <1>5. CASE adoption = "none"
    <2>1. r = NoRecord
      BY <1>2, <1>5 DEF RecordAs
    <2> QED
      BY <1>5, <2>1 DEF adoption
  <1>6. CASE adoption # "none"
    <2>1. adoption \in {"fresh", "record", "legacy"}
      BY <1>1, <1>6
    <2>2. /\ r.path = PathOf(o)
          /\ adoption = "fresh" => r.original = d.config[o[1]]
          /\ adoption = "record" => r.original = Rec(d, o).original
      BY <1>2, <2>1, RecordAsIs DEF PathOf, Rec
    <2>3. /\ r.installed = installed /\ r.route = route
          /\ adoption = "legacy" =>
               r.original = (CHOOSE e \in LegacyRestoreEntry(d, o[1], o[2]) : TRUE).original
          /\ adoption # "record" => r.created = created
      BY <1>2, <2>1, RecordAsRest
    <2>4. r # NoRecord
      BY <1>3, <2>2, NoRecordIs
    <2>5. ManagedPolicy(r.original[o[2]]) = ""
      <3>1. CASE adoption = "fresh"
        BY <1>1, <2>2, <3>1 DEF Entry
      <3>2. CASE adoption = "record"
        BY <1>1, <2>2, <3>2 DEF RecordKeeps
      <3>3. CASE adoption = "legacy"
        <4> DEFINE e == CHOOSE e \in LegacyRestoreEntry(d, o[1], o[2]) : TRUE
        <4>1. e \in LegacyRestoreEntry(d, o[1], o[2])
          BY <1>1, <3>3
        <4>2. r.original = e.original
          BY <2>3, <3>3
        <4> HIDE DEF e
        <4> QED
          BY <4>1, <4>2, LegacyIsUnmanaged
      <3> QED
        BY <2>1, <3>1, <3>2, <3>3
    <2> QED
      BY <1>4, <2>2, <2>3, <2>4, <2>5
  <1> QED
    BY <1>5, <1>6

LEMMA SetupLands ==
    ASSUME Routed, IsTable(disk.config), NEW s \in Sessions, ~Writing(s),
           NEW command, command # "restore",
           DOMAIN sess[s].picked \subseteq Owners,
           \A o \in DOMAIN sess[s].picked : disk.config[o[1]] = sess[s].seen[o[1]],
           \A o \in DOMAIN sess[s].picked : sess[s].picked[o].policy # NoFile,
           NEW T, NEW R, Served(T, R, disk),
           NEW entries, NEW routes, NEW created \in BOOLEAN, NEW healed, healed \subseteq T,
           healed \subseteq DOMAIN sess[s].picked,
           BeginSetup(s, Installed(s, entries, routes, created), healed),
           \A o \in DOMAIN sess[s].picked :
              Offers(T, disk, healed, o, entries[o], sess[s].picked[o].source, created, routes[o])
    PROVE  Lands(T, R, disk', sess'[s], moved'[s], command)
  <1> DEFINE M == DOMAIN sess[s].picked
             after == Installed(s, entries, routes, created)
             files == SavedFiles(s) \union ProfileFiles(s) \union PolicyFiles(s)
                        \union RouteFiles(after) \union StateFiles(after) \union ConfigFiles(s)
             k == sess'[s]
             b == disk
  <1>1. /\ k.before = b /\ k.after = after /\ k.files = files /\ k.written = {}
        /\ k.picked = sess[s].picked /\ moved'[s] = {} /\ k.healed = healed
        /\ disk'.config = b.config /\ disk'.policy = b.policy
        /\ disk'.route = b.route /\ disk'.profile = b.profile
    <2>1. Begin(s, files, after, healed)
      BY Zenon DEF BeginSetup
    <2> HIDE DEF files, after
    <2> QED
      BY <2>1, Begun, BegunRest
  <1>2. /\ \A o \in Owners :
             /\ Entry(after, o) = IF o \in M THEN entries[o] ELSE Entry(b, o)
             /\ Rec(after, o) = IF o \in M
                                THEN NewRecord(b, o[1], o[2], after.config[o[1]],
                                               sess[s].picked[o].policy, created, routes[o])
                                ELSE Rec(b, o)
        /\ \A o \in M : \E q \in M :
             PathOf(q) = PathOf(o) /\ after.policy[PathOf(o)] = sess[s].picked[q].policy
    <2>1. after = Installed(s, entries, routes, created)
      OBVIOUS
    <2> HIDE DEF after
    <2> QED
      BY <2>1, InstalledIs
  <1>3. /\ \A o \in Owners :
             after.route[o] = IF o \in M /\ routes[o] # NoRoute THEN routes[o] ELSE b.route[o]
        /\ \A i \in Profiles :
             after.profile[i] <=> b.profile[i] \/ \E o \in M : sess[s].picked[o].source.profile = i
        /\ \A p \in Paths : after.policy[p] = b.policy[p] \/ \E o \in M : PathOf(o) = p
    <2>1. after = Installed(s, entries, routes, created)
      OBVIOUS
    <2> HIDE DEF after
    <2> QED
      BY <2>1, InstalledRest
  <1> HIDE DEF after
  <1>4. \A o \in M : after.policy[PathOf(o)] # NoFile
    BY <1>2
  <1>5. \A o \in Owners : RouteFile(o) \notin files => after.route[o] = b.route[o]
    BY DEF RouteFiles
  <1>6. ASSUME NEW i \in Profiles, ProfileFile(i) \notin files
        PROVE  after.profile[i] <=> b.profile[i]
    <2>1. i # ""
      BY SceneAssumption DEF Profiles, Plain
    <2>2. ~\E o \in M : sess[s].picked[o].source.profile = i
      BY <1>6, <2>1 DEF ProfileFiles
    <2> QED
      BY <1>3, <2>2
  <1>7. ASSUME NEW p \in Paths, PolicyFile(p) \notin files
        PROVE  after.policy[p] = b.policy[p]
    <2>1. ~\E o \in M : PathOf(o) = p
      BY <1>7 DEF PolicyFiles
    <2> QED
      BY <1>3, <2>1
  <1>8. ASSUME NEW p, PolicyFile(p) \in files
        PROVE  \E o \in M : PathOf(o) = p
    <2>1. PolicyFile(p) \in PolicyFiles(s)
      <3>1. PolicyFile(p) \notin SavedFiles(s) \union ProfileFiles(s)
        BY DEF SavedFiles, ProfileFiles, SavedFile, ProfileFile, PolicyFile, File
      <3>2. PolicyFile(p) \notin RouteFiles(after)
        BY DEF RouteFiles, RouteFile, PolicyFile, File
      <3>3. PolicyFile(p) \notin StateFiles(after)
        BY DEF StateFiles, StateFile, PolicyFile, File
      <3>4. PolicyFile(p) \notin ConfigFiles(s)
        BY DEF ConfigFiles, ConfigFile, PolicyFile, File
      <3> QED
        BY <1>8, <3>1, <3>2, <3>3, <3>4
    <2>2. PICK o \in M : PolicyFile(p) = PolicyFile(PathOf(o))
      BY <2>1 DEF PolicyFiles
    <2> QED
      BY <2>2, FilesDiffer
  <1> HIDE DEF files
  <1>9. ASSUME NEW o \in M
        PROVE  /\ o \in Owners
               /\ Offers(T, b, healed, o, entries[o], sess[s].picked[o].source, created, routes[o])
               /\ Rec(after, o) = NoRecord \/ (/\ Rec(after, o).path = PathOf(o)
                                               /\ Rec(after, o).installed[o[2]] = entries[o]
                                               /\ Rec(after, o).route = routes[o])
               /\ Rec(after, o) # NoRecord =>
                    /\ ManagedPolicy(Rec(after, o).original[o[2]]) = ""
                    /\ Rec(after, o).route # NoRoute =>
                         Rec(after, o).created /\ IsLocalHttp(entries[o])
               /\ Adoption(b, o[1], o[2]) # "none" => Rec(after, o) # NoRecord
    <2>1. /\ o \in Owners
          /\ Offers(T, b, healed, o, entries[o], sess[s].picked[o].source, created, routes[o])
      OBVIOUS
    <2>2. RecordKeeps(b, o)
      BY <2>1 DEF Served, Keeps
    <2>3. after.config[o[1]][o[2]] = entries[o]
      BY <1>2, <2>1 DEF Entry
    <2>4. Rec(after, o) = NewRecord(b, o[1], o[2], after.config[o[1]],
                                    sess[s].picked[o].policy, created, routes[o])
      BY <1>2, <2>1
    <2> DEFINE entry == entries[o]
               src == sess[s].picked[o].source
               route == routes[o]
               installed == after.config[o[1]]
               policy == sess[s].picked[o].policy
               r == Rec(after, o)
    <2>5. /\ Offers(T, b, healed, o, entry, src, created, route) /\ installed[o[2]] = entry
          /\ r = NewRecord(b, o[1], o[2], installed, policy, created, route)
      BY <2>1, <2>3, <2>4
    <2>6. o \in Owners
      BY <2>1
    <2> HIDE DEF entry, src, route, installed, policy, r, b, M
    <2>7. IsNew(b, o, entry, created, route, r)
      BY <2>5 DEF IsNew
    <2>8. Offers(T, b, healed, o, entry, src, created, route)
      BY <2>5
    <2>9. Tells(b, o, entry, created, route, r)
      BY <2>2, <2>6, <2>7, <2>8, InstalledServes
    <2> QED
      BY <2>1, <2>9 DEF Tells, entry, route, r
  <1>10. Richer(b, after)
    BY <1>3 DEF Richer
  <1>11. ASSUME NEW o \in Owners
         PROVE  Present(R, b, PathOf(o)) => Present(R, after, PathOf(o))
    <2>1. PathOf(o) \in Paths
      BY OwnerParts
    <2> QED
      BY <1>3, <1>4, <2>1 DEF Present
  <1>12. ASSUME NEW o \in Owners, o \in M
         PROVE  /\ Present(R, after, PathOf(o))
                /\ LET x == sess[s].picked[o].source IN Has(after, x)
    <2>1. Present(R, after, PathOf(o))
      BY <1>4, <1>12 DEF Present
    <2>2. LET x == sess[s].picked[o].source IN x.profile # "" => x.profile \in Profiles
      BY <1>9, <1>12 DEF Offers
    <2>3. LET x == sess[s].picked[o].source IN x.profile \in Profiles => after.profile[x.profile]
      BY <1>3, <1>12
    <2> QED
      BY <2>1, <2>2, <2>3 DEF Has
  <1>13. ASSUME NEW o \in Owners, o \notin T \/ o \in healed
         PROVE  Fits(R, after, o)
    <2>1. CASE o \in M
      <3> SUFFICES ASSUME Managing(after, o) PROVE Fits(R, after, o)
        BY DEF Fits
      <3> DEFINE entry == entries[o]
                 src == sess[s].picked[o].source
                 route == routes[o]
      <3>1. /\ Offers(T, b, healed, o, entry, src, created, route)
            /\ Entry(after, o) = entry /\ Has(after, src)
        BY <1>2, <1>9, <1>12, <2>1
      <3>2. Adoption(b, o[1], o[2]) # "none"
        BY <1>13, <3>1 DEF Offers
      <3>3. Rec(after, o).path = PathOf(o) /\ Rec(after, o).installed[o[2]] = entry
        BY <1>9, <2>1, <3>2
      <3> HIDE DEF entry, src, route
      <3>4. /\ ManagedPolicy(entry) = PathOf(o) /\ ParseEntry(entry).source = src
            /\ entry = WrapperEntry(PathOf(o), src, entry) /\ Answered(src)
        BY <3>1 DEF Offers, Managing, Wraps
      <3>5. Present(R, after, PathOf(o))
        BY <1>12, <2>1
      <3> QED
        BY <3>1, <3>3, <3>4, <3>5 DEF Fits, Upstream, Serves
    <2>2. CASE o \notin M
      <3>0. o \notin T
        BY <1>13, <2>2
      <3>1. Fits(R, b, o)
        BY <3>0 DEF Served
      <3>2. Entry(after, o) = Entry(b, o) /\ Rec(after, o) = Rec(b, o)
        BY <1>2, <2>2
      <3>3. Managing(b, o) => /\ Rec(after, o).path = PathOf(o)
                              /\ Rec(after, o).installed[o[2]] = Entry(after, o)
        BY <3>1, <3>2 DEF Fits
      <3> HIDE DEF b
      <3> QED
        BY <1>10, <1>11, <3>1, <3>2, <3>3, FitsStays
    <2> QED
      BY <2>1, <2>2
  <1>14. ASSUME NEW o \in Owners
         PROVE  Keeps(R, after, o)
    <2>1. RouteRuns(R, b, o) /\ RecordKeeps(b, o)
      BY DEF Served, Keeps
    <2>2. CASE o \notin M
      <3>1. Rec(after, o) = Rec(b, o) /\ after.route[o] = b.route[o]
        BY <1>2, <1>3, <2>2
      <3>2. OnRecord(after, o) => OnRecord(b, o)
        BY <3>1 DEF OnRecord
      <3> HIDE DEF b
      <3>3. RouteRuns(R, after, o)
        BY <1>10, <1>11, <2>1, <3>1, <3>2, RoutesStay
      <3>4. RecordKeeps(after, o)
        BY <2>1, <3>1, RecordStays
      <3> QED
        BY <3>3, <3>4 DEF Keeps
    <2>3. CASE o \in M
      <3> DEFINE entry == entries[o]
                 src == sess[s].picked[o].source
                 route == routes[o]
                 r == Rec(after, o)
      <3>1. /\ Offers(T, b, healed, o, entry, src, created, route) /\ Has(after, src)
            /\ Entry(after, o) = entry /\ Present(R, after, PathOf(o))
            /\ after.route[o] = IF route # NoRoute THEN route ELSE b.route[o]
            /\ r = NoRecord \/ (/\ r.path = PathOf(o) /\ r.installed[o[2]] = entry
                                /\ r.route = route)
            /\ r # NoRecord => /\ ManagedPolicy(r.original[o[2]]) = ""
                               /\ r.route # NoRoute => r.created /\ IsLocalHttp(entry)
        BY <1>2, <1>3, <1>9, <1>12, <2>3
      <3> HIDE DEF entry, src, route
      <3>2. RecordKeeps(after, o)
        BY <3>1 DEF RecordKeeps
      <3> HIDE DEF r
      <3>3. RouteRuns(R, after, o)
        <4> SUFFICES ASSUME OnRecord(after, o) PROVE RouteRuns(R, after, o)
          BY DEF RouteRuns
        <4>1. r.route # NoRoute /\ after.route[o] = r.route
          BY DEF OnRecord, r
        <4>2. route # NoRoute /\ after.route[o] = route
          BY <3>1, <4>1, NoRecordHasNoRoute
        <4>3. RunsAs(PathOf(o), src, RouteLine(after, o))
          BY <3>1, <4>2 DEF Offers, RouteLine
        <4> QED
          BY <3>1, <4>3 DEF RouteRuns, RunsAs, Serves
      <3> QED
        BY <3>2, <3>3 DEF Keeps
    <2> QED
      BY <2>2, <2>3
  <1> HIDE DEF k
  <1>15. ASSUME NEW o \in Owners
         PROVE  SetupServes(T, b, k, {}, o)
    <2>1. after.route[o] # b.route[o] => Rec(b, o).route = NoRoute
      <3>1. o \in M /\ routes[o] # NoRoute => Rec(b, o).route = NoRoute
        BY <1>9 DEF Offers
      <3> QED
        BY <1>3, <3>1
    <2>2. PolicyFile(PathOf(o)) \in files => after.policy[PathOf(o)] # NoFile
      BY <1>4, <1>8
    <2>3. o \in M /\ o \notin T /\ Managing(b, o) => Entry(after, o) = Entry(b, o)
      BY <1>2, <1>9 DEF Offers
    <2> HIDE DEF b
    <2> QED
      BY <1>1, <2>1, <2>2, <2>3 DEF SetupServes, Ours
  <1>16. Lands(T, R, disk', k, {}, command)
    <2> DEFINE x == disk'
    <2>1. x.config = b.config /\ x.policy = b.policy /\ x.route = b.route /\ x.profile = b.profile
      BY <1>1
    <2>2. /\ \A o \in Owners :
                /\ o \notin T \/ o \in k.healed => Fits(R, after, o)
                /\ Keeps(R, after, o)
                /\ RouteFile(o) \notin k.files => after.route[o] = b.route[o]
                /\ IF command = "restore" THEN RestoreSpares(k, o)
                   ELSE SetupServes(T, b, k, {}, o)
          /\ \A i \in Profiles :
                /\ ProfileFile(i) \notin k.files => (after.profile[i] <=> b.profile[i])
                /\ b.profile[i] => after.profile[i]
                /\ command = "restore" => (after.profile[i] <=> b.profile[i])
          /\ \A p \in Paths : PolicyFile(p) \notin k.files => after.policy[p] = b.policy[p]
      <3>1. k.files = files /\ k.healed = healed
        BY <1>1
      <3>2. \A i \in Profiles : b.profile[i] => after.profile[i]
        BY <1>3
      <3> HIDE DEF b
      <3> QED
        BY <1>5, <1>6, <1>7, <1>13, <1>14, <1>15, <3>1, <3>2
    <2>3. k.before = b /\ k.written = {} /\ k.healed \subseteq T /\ k.after = after
      BY <1>1
    <2>4. Served(T, R, b)
      OBVIOUS
    <2> HIDE DEF b, x
    <2> QED
      BY <2>1, <2>2, <2>3, <2>4, PlanLands DEF x
  <1> QED
    BY <1>1, <1>16 DEF k

(* A wrapper that serves is set up again from its own record. *)
LEMMA FitsIsAdopted ==
    ASSUME NEW R, NEW d, NEW o \in Owners, Fits(R, d, o), Managing(d, o)
    PROVE  Adoption(d, o[1], o[2]) = "record"
  <1> DEFINE r == d.state[o[1]][o[2]]
             content == d.config[o[1]]
             by == [FromRecord(r) EXCEPT !.original = content]
  <1>1. r.path = PathOf(o) /\ r.installed[o[2]] = content[o[2]]
    BY DEF Fits, Rec, Entry
  <1>2. r # NoRecord
    BY <1>1, OwnerParts, NoRecordIs
  <1>3. content[o[2]] # NoEntry /\ ManagedPolicy(content[o[2]]) # ""
    BY NoEntryIsPlain DEF Managing, Entry
  <1>4. by.tracked = TRUE /\ by.installed = r.installed /\ by.original = content
    BY DEF FromRecord
  <1>5. Restorable(content, o[2], by)
    <2> HIDE DEF by, content, r
    <2> QED
      BY <1>1, <1>3, <1>4 DEF Restorable
  <1> QED
    BY <1>2, <1>3, <1>5 DEF Adoption

LEMMA AddPlanLands ==
    ASSUME Routed, Kept, Serving, NEW s \in Sessions, AddPlan(s)
    PROVE  Lands(tampered', removed', disk', sess'[s], moved'[s], "add")
  <1> DEFINE M == DOMAIN sess[s].picked
             entries == [o \in M |-> WrapperEntry(PathOf(o), sess[s].picked[o].source,
                                                  sess[s].seen[o[1]][o[2]])]
             routes == [o \in M |-> NoRoute]
             healed == Refound(M)
             U == tampered \union Mistaken(M)
  <1>1. /\ Runs(s, "add", "chosen") /\ LockFree /\ AddReady(s)
        /\ UNCHANGED <<scene, removed>> /\ tampered' = U
        /\ BeginSetup(s, Installed(s, entries, routes, FALSE), healed)
    BY Zenon DEF AddPlan
  <1>2. /\ M \subseteq Owners /\ IsTable(disk.config) /\ Served(U, removed, disk)
        /\ Chooses(World, disk, sess[s], moved[s], scene.command[s])
        /\ Settles(disk, sess[s], moved[s], scene.command[s])
    BY <1>1 DEF Kept, Tables, Serving, Served
  <1>3. scene.command[s] = "add" /\ sess[s].pc = "chosen" /\ ~Writing(s)
    BY <1>1 DEF Runs, Writing
  <1>4. ASSUME NEW o \in M
        PROVE  /\ disk.config[o[1]] = sess[s].seen[o[1]] /\ sess[s].picked[o].policy # NoFile
               /\ WritableSource(sess[s].picked[o].source)
               /\ Found(Upstream(disk, o), sess[s].picked[o].source)
               /\ o \in Owners /\ (o \in U \/ Fits(removed, disk, o))
    BY <1>1, <1>2, <1>3 DEF AddReady, PlanIsCurrent, Chooses, Settles, Upstream, Entry, Served
  <1>5. ASSUME NEW o \in M, o \notin U
        PROVE  Adoption(disk, o[1], o[2]) \in {"fresh", "record"}
    <2>1. CASE Managing(disk, o)
      BY <1>4, <1>5, <2>1, FitsIsAdopted
    <2>2. CASE ~Managing(disk, o)
      BY <2>2, AdoptionIs DEF Managing, Entry
    <2> QED
      BY <2>1, <2>2
  <1>6. healed \subseteq U /\ healed \subseteq M
    BY <1>5 DEF Refound, Owned
  <1>7. ASSUME NEW o \in M
        PROVE  Offers(U, disk, healed, o, entries[o], sess[s].picked[o].source, FALSE,
                      routes[o])
    <2> DEFINE src == sess[s].picked[o].source
               entry == entries[o]
               old == Entry(disk, o)
    <2>1. entry = WrapperEntry(PathOf(o), src, old)
      BY <1>4 DEF Entry
    <2>2. /\ WritableSource(src) /\ o \in Owners /\ Found(Upstream(disk, o), src)
          /\ o \in U \/ Fits(removed, disk, o)
      BY <1>4
    <2>3. routes[o] = NoRoute
      OBVIOUS
    <2>4. o \notin U \/ o \in healed => Adoption(disk, o[1], o[2]) # "none"
      BY <1>5 DEF Refound, Owned
    <2> HIDE DEF src, entry, routes, entries, healed, M, old
    <2>5. Wraps(o, src, entry)
      <3>1. WritableSource(src) /\ o \in Owners
        BY <2>2
      <3> QED
        BY <2>1, <3>1, WrapperReads
    <2>6. Answered(src) /\ (src.profile # "" => src.profile \in Profiles)
      BY <2>2 DEF Found
    <2>7. o \notin U /\ Managing(disk, o) => entry = old
      BY <2>1, <2>2 DEF Found, Fits, old
    <2>8. Offers(U, disk, healed, o, entry, src, FALSE, routes[o])
      BY <2>3, <2>4, <2>5, <2>6, <2>7 DEF Offers, old
    <2> QED
      BY <2>8 DEF entry, src
  <1> HIDE DEF entries, routes, healed, U
  <1>8. Lands(U, removed, disk', sess'[s], moved'[s], "add")
    <2>1. FALSE \in BOOLEAN /\ "add" # "restore"
      OBVIOUS
    <2>2. /\ \A o \in DOMAIN sess[s].picked : disk.config[o[1]] = sess[s].seen[o[1]]
          /\ \A o \in DOMAIN sess[s].picked : sess[s].picked[o].policy # NoFile
          /\ \A o \in DOMAIN sess[s].picked :
                Offers(U, disk, healed, o, entries[o], sess[s].picked[o].source, FALSE,
                       routes[o])
      BY <1>4, <1>7
    <2> QED
      BY <1>1, <1>2, <1>3, <1>6, <2>1, <2>2, SetupLands
  <1> QED
    BY <1>1, <1>8

LEMMA ManagedIs ==
    ASSUME NEW policy, NEW src
    PROVE  RunsAs(policy, src, Managed(policy, src))
  <1> DEFINE none == NoSource
             line == Managed(policy, src)
  <1> HIDE DEF none, line
  <1>1. line = [policy |-> policy, source |-> src] \/ line = [policy |-> "", source |-> none]
    BY DEF Managed, NotManaged, none, line
  <1>2. CASE line = [policy |-> policy, source |-> src]
    <2>1. line.policy = policy /\ line.source = src
      BY <1>2
    <2> QED
      BY <2>1 DEF RunsAs, line
  <1>3. CASE line = [policy |-> "", source |-> none]
    <2>1. line.policy = ""
      BY <1>3
    <2> QED
      BY <2>1 DEF RunsAs, line
  <1> QED
    BY <1>1, <1>2, <1>3

(* The route of a manual setup runs the upstream that was typed. *)
LEMMA RouteReads ==
    ASSUME NEW o \in Owners, NEW src, WritableSource(src), NEW port,
           NEW route, route = RouteDefinition(port, o, PathOf(o), src),
           NEW line, line = ParseManagedWrapper(route.args)
    PROVE  RunsAs(PathOf(o), src, line)
  <1> DEFINE p == PathOf(o)
             args == BuildWrapperArgs(p, src)
  <1>1. p \in STRING /\ Plain(p)
    BY SceneAssumption
  <1>2. route.args = args
    BY DEF RouteDefinition
  <1> HIDE DEF p
  <1>3. line = Managed(p, src)
    BY <1>1, <1>2, WrittenReads
  <1> QED
    BY <1>3, ManagedIs DEF p

LEMMA ManualPlanLands ==
    ASSUME Routed, Kept, Serving, NEW s \in Sessions, ManualPlan(s)
    PROVE  Lands(tampered', removed', disk', sess'[s], moved'[s], "manual")
  <1> DEFINE M == DOMAIN sess[s].picked
             entries == [o \in M |-> IF sess[s].picked[o].port = ""
                                     THEN WrapperEntry(PathOf(o), sess[s].picked[o].source, NoEntry)
                                     ELSE HttpEntry(sess[s].picked[o].port, o)]
             routes == ManualRoutes(s)
  <1>1. /\ Runs(s, "manual", "chosen") /\ LockFree /\ ManualReady(s)
        /\ UNCHANGED <<scene, tampered, removed>>
        /\ BeginSetup(s, Installed(s, entries, routes, TRUE), {})
    BY Zenon DEF ManualPlan
  <1>2. /\ M \subseteq Owners /\ IsTable(disk.config) /\ Served(tampered, removed, disk)
        /\ Chooses(World, disk, sess[s], moved[s], scene.command[s])
        /\ Settles(disk, sess[s], moved[s], scene.command[s])
    BY <1>1 DEF Kept, Tables, Serving
  <1>3. scene.command[s] = "manual" /\ sess[s].pc = "chosen" /\ ~Writing(s)
    BY <1>1 DEF Runs, Writing
  <1>4. ASSUME NEW o \in M
        PROVE  /\ disk.config[o[1]] = sess[s].seen[o[1]] /\ sess[s].picked[o].policy # NoFile
               /\ Entry(disk, o) = NoEntry
               /\ WritableSource(sess[s].picked[o].source)
               /\ TakeoverAllowed(disk, PathOf(o), {})
               /\ o \in Owners /\ RecordKeeps(disk, o)
    BY <1>1, <1>2, <1>3 DEF ManualReady, PlanIsCurrent, Chooses, Entry, Served, Keeps
  <1>5. ASSUME NEW o \in M
        PROVE  LET src == sess[s].picked[o].source
               IN  Answered(src) /\ (src.profile # "" => src.profile \in Profiles)
    BY <1>2, <1>3 DEF Settles
  <1>6. ASSUME NEW o \in M
        PROVE  /\ entries[o] = IF sess[s].picked[o].port = ""
                               THEN WrapperEntry(PathOf(o), sess[s].picked[o].source, NoEntry)
                               ELSE HttpEntry(sess[s].picked[o].port, o)
               /\ routes[o] = IF sess[s].picked[o].port = "" THEN NoRoute
                              ELSE RouteDefinition(sess[s].picked[o].port, o, PathOf(o),
                                                   sess[s].picked[o].source)
    BY DEF ManualRoutes
  <1> HIDE DEF entries, routes
  <1>7. ASSUME NEW o \in M
        PROVE  Offers(tampered, disk, {}, o, entries[o], sess[s].picked[o].source, TRUE, routes[o])
    <2> DEFINE src == sess[s].picked[o].source
               port == sess[s].picked[o].port
               entry == entries[o]
               route == routes[o]
    <2>1. /\ entry = IF port = "" THEN WrapperEntry(PathOf(o), src, NoEntry)
                     ELSE HttpEntry(port, o)
          /\ route = IF port = "" THEN NoRoute ELSE RouteDefinition(port, o, PathOf(o), src)
      BY <1>6
    <2>2. /\ WritableSource(src) /\ o \in Owners /\ Answered(src)
          /\ src.profile # "" => src.profile \in Profiles
      BY <1>4, <1>5
    <2>3. Rec(disk, o) = NoRecord
      <3>1. o \notin References(disk, PathOf(o))
        BY <1>4 DEF TakeoverAllowed
      <3>2. Rec(disk, o).path # PathOf(o)
        BY <1>4, <3>1, ReferencesAre
      <3> QED
        BY <1>4, <3>2 DEF RecordKeeps
    <2>4. ManagedPolicy(Entry(disk, o)) = ""
      BY <1>4, NoEntryIsPlain
    <2>5. Adoption(disk, o[1], o[2]) = "fresh" /\ ~Managing(disk, o)
      BY <2>4, AdoptionIs DEF Managing, Entry
    <2>6. Rec(disk, o).route = NoRoute
      BY <2>3, NoRecordHasNoRoute
    <2> HIDE DEF src, port, entry, route, M
    <2>7. ManagedPolicy(entry) # "" => Wraps(o, src, entry)
      <3>1. CASE port = ""
        BY <2>1, <2>2, <3>1, WrapperReads
      <3>2. CASE port # ""
        BY <2>1, <3>2, HttpIsUnmanaged
      <3> QED
        BY <3>1, <3>2
    <2>8. ASSUME route # NoRoute
          PROVE  /\ IsLocalHttp(entry)
                 /\ RunsAs(PathOf(o), src, ParseManagedWrapper(route.args))
      <3>1. entry = HttpEntry(port, o) /\ route = RouteDefinition(port, o, PathOf(o), src)
        BY <2>1, <2>8
      <3>2. IsLocalHttp(entry)
        BY <3>1, HttpIsUnmanaged
      <3>3. RunsAs(PathOf(o), src, ParseManagedWrapper(route.args))
        BY <2>2, <3>1, RouteReads
      <3> QED
        BY <3>2, <3>3
    <2>9. Offers(tampered, disk, {}, o, entry, src, TRUE, route)
      BY <2>2, <2>5, <2>6, <2>7, <2>8 DEF Offers
    <2> QED
      BY <2>9 DEF entry, src, route
  <1>8. Lands(tampered, removed, disk', sess'[s], moved'[s], "manual")
    <2> DEFINE healed == {}
               created == TRUE
    <2>1. created \in BOOLEAN /\ healed \subseteq tampered /\ healed \subseteq M
      OBVIOUS
    <2>2. /\ \A o \in DOMAIN sess[s].picked : disk.config[o[1]] = sess[s].seen[o[1]]
          /\ \A o \in DOMAIN sess[s].picked : sess[s].picked[o].policy # NoFile
          /\ \A o \in DOMAIN sess[s].picked :
                Offers(tampered, disk, healed, o, entries[o], sess[s].picked[o].source, created,
                       routes[o])
      BY <1>4, <1>7
    <2>3. BeginSetup(s, Installed(s, entries, routes, created), healed)
      BY <1>1
    <2>4. "manual" # "restore"
      OBVIOUS
    <2> HIDE DEF healed, created
    <2> QED
      BY <1>2, <1>3, <2>1, <2>2, <2>3, <2>4, SetupLands
  <1> QED
    BY <1>1, <1>8

LEMMA AfterRestoreRest ==
    ASSUME NEW d, IsDisk(d), NEW picked, NEW x, x = AfterRestore(d, picked)
    PROVE  /\ \A o \in Owners :
                x.route[o] = IF o \in DOMAIN picked /\ picked[o].kind = "route"
                             THEN NoRoute ELSE d.route[o]
           /\ x.profile = d.profile
  <1> DEFINE T == Tracked(picked)
             config == [c \in Configs |-> RestoredConfig(d.config[c],
                          [n \in {m \in Names : <<c, m>> \in DOMAIN picked} |->
                              picked[<<c, n>>].by])]
             state == [c \in Configs |-> [n \in Names |->
                         IF <<c, n>> \in T THEN NoRecord ELSE d.state[c][n]]]
             policy == [p \in Paths |-> IF PolicyIsRestored(d, T, p) THEN BeforePolicy(d, T, p)
                                        ELSE d.policy[p]]
             route == [o \in Owners |-> IF o \in DOMAIN picked /\ picked[o].kind = "route"
                                        THEN NoRoute ELSE d.route[o]]
  <1>1. x = [d EXCEPT !.config = config, !.route = route, !.policy = policy, !.state = state]
    BY Zenon DEF AfterRestore, Tracked
  <1>2. \A o \in Owners : route[o] = IF o \in DOMAIN picked /\ picked[o].kind = "route"
                                     THEN NoRoute ELSE d.route[o]
    OBVIOUS
  <1> HIDE DEF config, state, policy, route
  <1>3. x.route = route /\ x.profile = d.profile
    BY <1>1 DEF IsDisk
  <1> QED
    BY <1>2, <1>3

LEMMA RestorePlanLands ==
    ASSUME Routed, Kept, Serving, NEW s \in Sessions, RestorePlan(s)
    PROVE  Lands(tampered', removed', disk', sess'[s], moved'[s], "restore")
  <1> DEFINE picked == sess[s].picked
             M == DOMAIN picked
             T == Tracked(picked)
             after == AfterRestore(disk, picked)
             policies == {PolicyFile(p) : p \in {q \in Paths : PolicyIsRestored(disk, T, q)}}
             files == RouteFiles(after) \union ConfigFiles(s) \union policies
                        \union StateFiles(after)
             healed == {o \in tampered \cap M : after.config[o[1]][o[2]] = own[o]}
             k == sess'[s]
             R == removed
  <1>1. /\ Runs(s, "restore", "chosen") /\ LockFree /\ RestoreReady(s)
        /\ Begin(s, files, after, healed)
        /\ UNCHANGED <<scene, tampered, removed>>
    BY Zenon DEF RestorePlan, BeginRestore, Tracked
  <1>2. /\ M \subseteq Owners /\ Served(tampered, R, disk) /\ IsDisk(disk)
        /\ Chooses(World, disk, sess[s], moved[s], scene.command[s])
        /\ Settles(disk, sess[s], moved[s], scene.command[s])
    BY <1>1 DEF Kept, Tables, Serving, Routed, Shape
  <1>3. scene.command[s] = "restore" /\ sess[s].pc = "chosen" /\ ~Writing(s)
    BY <1>1 DEF Runs, Writing
  <1>4. /\ k.before = disk /\ k.after = after /\ k.files = files /\ k.written = {}
        /\ k.picked = picked /\ moved'[s] = {} /\ k.healed = healed
        /\ disk'.config = disk.config /\ disk'.policy = disk.policy
        /\ disk'.route = disk.route /\ disk'.profile = disk.profile
    <2> HIDE DEF files, after, healed
    <2> QED
      BY <1>1, <1>3, Begun, BegunRest
  <1>5. after = AfterRestore(disk, picked)
    OBVIOUS
  <1> HIDE DEF after
  <1>6. /\ \A o \in Owners :
             /\ Entry(after, o) = IF o \in M THEN picked[o].by.original[o[2]] ELSE Entry(disk, o)
             /\ Rec(after, o) = IF o \in T THEN NoRecord ELSE Rec(disk, o)
        /\ \A p \in Paths : after.policy[p] = IF PolicyIsRestored(disk, T, p)
                                                THEN BeforePolicy(disk, T, p) ELSE disk.policy[p]
    BY <1>2, <1>5, AfterRestoreIs
  <1>7. /\ \A o \in Owners :
             after.route[o] = IF o \in M /\ picked[o].kind = "route" THEN NoRoute
                              ELSE disk.route[o]
        /\ after.profile = disk.profile
    BY <1>2, <1>5, AfterRestoreRest
  <1>8. \A o \in Owners : RouteFile(o) \notin files => after.route[o] = disk.route[o]
    BY DEF RouteFiles
  <1>9. \A p \in Paths : PolicyFile(p) \notin files => after.policy[p] = disk.policy[p]
    BY <1>6
  <1>10. ASSUME NEW p \in Paths, PolicyFile(p) \in files
         PROVE  PolicyIsRestored(disk, T, p)
    <2>1. PolicyFile(p) \in policies
      <3>1. PolicyFile(p) \notin RouteFiles(after)
        BY DEF RouteFiles, RouteFile, PolicyFile, File
      <3>2. PolicyFile(p) \notin StateFiles(after)
        BY DEF StateFiles, StateFile, PolicyFile, File
      <3>3. PolicyFile(p) \notin ConfigFiles(s)
        BY DEF ConfigFiles, ConfigFile, PolicyFile, File
      <3> QED
        BY <1>10, <3>1, <3>2, <3>3
    <2>2. PICK q \in Paths : PolicyIsRestored(disk, T, q) /\ PolicyFile(p) = PolicyFile(q)
      BY <2>1
    <2> QED
      BY <2>2, FilesDiffer
  <1> HIDE DEF files, policies
  <1>11. ASSUME NEW o \in M
         PROVE  /\ ManagedPolicy(picked[o].by.original[o[2]]) = ""
                /\ ConfigFile(o[1]) \notin moved[s]
                /\ picked[o].kind # "route" => IsWrapper(Entry(disk, o))
                /\ Restorable(disk.config[o[1]], o[2], picked[o].by)
                /\ picked[o].kind # "legacy" => picked[o].by = FromRecord(Rec(disk, o))
    <2>1. /\ ConfigFile(o[1]) \notin moved[s]
          /\ Restorable(disk.config[o[1]], o[2], picked[o].by)
          /\ picked[o].kind # "legacy" => StateFile(o[1]) \notin moved[s]
      BY <1>1 DEF RestoreReady
    <2>2. picked[o].kind # "legacy" => picked[o].by = FromRecord(Rec(disk, o))
      BY <1>2, <1>3, <2>1 DEF Chooses
    <2>3. /\ ManagedPolicy(picked[o].by.original[o[2]]) = ""
          /\ picked[o].kind # "route" => IsWrapper(Entry(disk, o))
      BY <1>2, <1>3, <2>1 DEF Settles
    <2> QED
      BY <2>1, <2>2, <2>3
  <1>12. ASSUME NEW o \in Owners
         PROVE  /\ RouteRuns(R, disk, o) /\ RecordKeeps(disk, o)
                /\ o \in tampered \/ Fits(R, disk, o)
                /\ PathOf(o) \in Paths
    BY <1>2, OwnerParts DEF Served, Keeps
  <1>13. \A o \in M : ~Managing(after, o)
    BY <1>2, <1>6, <1>11 DEF Managing
  <1>14. ASSUME NEW o \in Owners, o \notin T, Rec(disk, o).path = PathOf(o)
         PROVE  Present(R, disk, PathOf(o)) => Present(R, after, PathOf(o))
    <2>1. o \in References(disk, PathOf(o))
      BY <1>14, ReferencesAre
    <2>2. ~PolicyIsRestored(disk, T, PathOf(o))
      BY <1>14, <2>1 DEF PolicyIsRestored
    <2> QED
      BY <1>6, <1>12, <2>2 DEF Present
  <1>15. Richer(disk, after)
    BY <1>7 DEF Richer
  <1>16. ASSUME NEW o \in Owners, o \notin tampered \/ o \in healed
         PROVE  Fits(R, after, o)
    <2>1. CASE o \in M
      BY <1>13, <2>1 DEF Fits
    <2>2. CASE o \notin M
      <3>1. o \notin T
        BY <2>2 DEF Tracked
      <3>2. Fits(R, disk, o)
        BY <1>12, <1>16, <2>2
      <3>3. Entry(after, o) = Entry(disk, o) /\ Rec(after, o) = Rec(disk, o)
        BY <1>6, <2>2, <3>1
      <3>4. Managing(disk, o) => /\ Rec(after, o).path = PathOf(o)
                                 /\ Rec(after, o).installed[o[2]] = Entry(after, o)
                                 /\ Present(R, disk, PathOf(o)) => Present(R, after, PathOf(o))
        BY <1>14, <3>1, <3>2, <3>3 DEF Fits
      <3> QED
        BY <1>15, <3>2, <3>3, <3>4, FitsStays
    <2> QED
      BY <2>1, <2>2
  <1>17. ASSUME NEW o \in Owners
         PROVE  Keeps(R, after, o)
    <2>1. RecordKeeps(after, o)
      <3>1. CASE o \in T
        BY <1>6, <3>1 DEF RecordKeeps
      <3>2. CASE o \notin T
        BY <1>6, <1>12, <3>2, RecordStays
      <3> QED
        BY <3>1, <3>2
    <2>2. ASSUME OnRecord(after, o)
          PROVE  /\ OnRecord(disk, o) /\ after.route[o] = disk.route[o]
                 /\ Present(R, disk, PathOf(o)) => Present(R, after, PathOf(o))
      <3>1. after.route[o] # NoRoute /\ Rec(after, o).route = after.route[o]
        BY <2>2 DEF OnRecord
      <3>2. Rec(after, o) # NoRecord
        BY <3>1, NoRecordHasNoRoute
      <3>3. o \notin T /\ Rec(after, o) = Rec(disk, o)
        BY <1>6, <3>2
      <3>4. after.route[o] = disk.route[o]
        BY <1>7, <3>1
      <3>5. OnRecord(disk, o)
        BY <3>1, <3>3, <3>4 DEF OnRecord
      <3>6. Rec(disk, o).path = PathOf(o)
        BY <1>12, <3>2, <3>3 DEF RecordKeeps
      <3> QED
        BY <1>14, <3>3, <3>4, <3>5, <3>6
    <2>3. RouteRuns(R, after, o)
      BY <1>12, <1>15, <2>2, RoutesStay
    <2> QED
      BY <2>1, <2>3 DEF Keeps
  <1>18. ASSUME NEW o \in Owners, PolicyFile(PathOf(o)) \in files, Rec(disk, o).path = PathOf(o)
         PROVE  /\ o \in M /\ Rec(after, o) = NoRecord
                /\ OnRecord(disk, o) => after.route[o] = NoRoute
    <2>1. o \in References(disk, PathOf(o))
      BY <1>18, ReferencesAre
    <2>2. PolicyIsRestored(disk, T, PathOf(o))
      BY <1>10, <1>12, <1>18
    <2>3. o \in T
      BY <2>1, <2>2 DEF PolicyIsRestored
    <2>4. o \in M /\ picked[o].kind # "legacy"
      BY <2>3 DEF Tracked
    <2>5. ASSUME OnRecord(disk, o)
          PROVE  picked[o].kind = "route"
      <3> SUFFICES ASSUME picked[o].kind # "route" PROVE FALSE
        OBVIOUS
      <3>1. Rec(disk, o).route # NoRoute
        BY <2>5 DEF OnRecord
      <3>2. Rec(disk, o) # NoRecord
        BY <3>1, NoRecordHasNoRoute
      <3>3. IsLocalHttp(Rec(disk, o).installed[o[2]])
        BY <1>12, <3>1, <3>2 DEF RecordKeeps
      <3> DEFINE by == picked[o].by
                 r == Rec(disk, o)
                 content == disk.config[o[1]]
      <3>4. by = FromRecord(r) /\ Restorable(content, o[2], by) /\ IsWrapper(content[o[2]])
        BY <1>11, <2>4 DEF Entry
      <3> HIDE DEF by, r, content
      <3>5. by.tracked = TRUE /\ by.installed = r.installed
        BY <3>4 DEF FromRecord
      <3>6. content[o[2]] = r.installed[o[2]]
        BY <3>4, <3>5 DEF Restorable
      <3>7. IsLocalHttp(content[o[2]])
        BY <3>3, <3>6 DEF r
      <3> QED
        BY <3>4, <3>7 DEF IsLocalHttp, IsWrapper
    <2> QED
      BY <1>6, <1>7, <2>3, <2>4, <2>5
  <1>19. ASSUME NEW o \in Owners
         PROVE  RestoreSpares(k, o)
    <2> HIDE DEF k, M, T, healed
    <2>1. o \in DOMAIN k.picked => ~Managing(k.after, o)
      BY <1>4, <1>13 DEF M
    <2>2. PolicyFile(PathOf(o)) \in k.files /\ Rec(k.before, o).path = PathOf(o) =>
             /\ o \in DOMAIN k.picked /\ Rec(k.after, o) = NoRecord
             /\ OnRecord(k.before, o) => k.after.route[o] = NoRoute
      BY <1>4, <1>18 DEF M
    <2>3. k.after.route[o] \in {NoRoute, k.before.route[o]}
      BY <1>4, <1>7
    <2> QED
      BY <2>1, <2>2, <2>3 DEF RestoreSpares
  <1> HIDE DEF k
  <1>20. Lands(tampered, R, disk', k, {}, "restore")
    <2> DEFINE x == disk'
               b == disk
    <2>1. x.config = b.config /\ x.policy = b.policy /\ x.route = b.route /\ x.profile = b.profile
      BY <1>4
    <2>2. /\ \A o \in Owners :
                /\ o \notin tampered \/ o \in k.healed => Fits(R, after, o)
                /\ Keeps(R, after, o)
                /\ RouteFile(o) \notin k.files => after.route[o] = b.route[o]
                /\ RestoreSpares(k, o)
          /\ \A i \in Profiles : after.profile[i] <=> b.profile[i]
          /\ \A p \in Paths : PolicyFile(p) \notin k.files => after.policy[p] = b.policy[p]
      <3>1. k.files = files /\ k.healed = healed
        BY <1>4
      <3> QED
        BY <1>7, <1>8, <1>9, <1>16, <1>17, <1>19, <3>1
    <2>3. k.before = b /\ k.written = {} /\ k.healed \subseteq tampered /\ k.after = after
      BY <1>4
    <2>4. Served(tampered, R, b)
      BY <1>2
    <2> HIDE DEF b, x
    <2>5. Lands(tampered, R, x, k, {}, "restore")
      BY <2>1, <2>2, <2>3, <2>4, PlanLands
    <2> QED
      BY <2>5 DEF x
  <1> QED
    BY <1>1, <1>4, <1>20 DEF k

(* What a step leaves of the invariant for session r. *)
ServesOn(r) ==
    /\ sess'[r].pc = "writing" =>
          Lands(tampered', removed', disk', sess'[r], moved'[r], scene.command[r])
    /\ \/ Settles(disk', sess'[r], moved'[r], scene.command[r])
       \/ sess'[r].pc # "chosen"
       \/ /\ sess'[r] = sess[r] /\ moved[r] \subseteq moved'[r]
          /\ \A o \in Owners :
                ConfigFile(o[1]) \notin moved'[r] => Entry(disk', o) = Entry(disk, o)

LEMMA SettlesStays ==
    ASSUME NEW d, NEW j, NEW files, NEW command, Settles(d, j, files, command),
           DOMAIN j.picked \subseteq Owners, NEW more, files \subseteq more, NEW x,
           \A o \in Owners : ConfigFile(o[1]) \notin more => Entry(x, o) = Entry(d, o)
    PROVE  Settles(x, j, more, command)
  <1> SUFFICES ASSUME j.pc = "chosen"
               PROVE  Settles(x, j, more, command)
    BY DEF Settles
  <1>1. ASSUME command = "restore", NEW o \in DOMAIN j.picked
        PROVE  /\ ManagedPolicy(j.picked[o].by.original[o[2]]) = ""
               /\ j.picked[o].kind # "route" /\ ConfigFile(o[1]) \notin more =>
                    IsWrapper(Entry(x, o))
    <2>1. /\ ManagedPolicy(j.picked[o].by.original[o[2]]) = ""
          /\ j.picked[o].kind # "route" /\ ConfigFile(o[1]) \notin files =>
               IsWrapper(Entry(d, o))
      BY <1>1 DEF Settles
    <2> QED
      BY <2>1
  <1> QED
    BY <1>1 DEF Settles

LEMMA SettlesNothing ==
    ASSUME NEW d, NEW j, NEW files, NEW command, j.pc # "chosen"
    PROVE  Settles(d, j, files, command)
  BY DEF Settles

LEMMA ServingStays ==
    ASSUME Kept, Serving, UNCHANGED scene,
           LockFree' => Served(tampered', removed', disk'), \A r \in Sessions : ServesOn(r)
    PROVE  Serving'
  <1>1. ASSUME NEW r \in Sessions
        PROVE  Settles(disk', sess'[r], moved'[r], scene.command[r])
    <2>1. ServesOn(r)
      OBVIOUS
    <2>2. CASE sess'[r].pc # "chosen"
      BY <2>2, SettlesNothing
    <2>3. CASE /\ sess'[r] = sess[r] /\ moved[r] \subseteq moved'[r]
               /\ \A o \in Owners :
                     ConfigFile(o[1]) \notin moved'[r] => Entry(disk', o) = Entry(disk, o)
      <3>1. Settles(disk, sess[r], moved[r], scene.command[r])
            /\ DOMAIN sess[r].picked \subseteq Owners
        BY DEF Kept, Serving
      <3>2. Settles(disk', sess[r], moved'[r], scene.command[r])
        BY <2>3, <3>1, SettlesStays
      <3> QED
        BY <2>3, <3>2
    <2> QED
      BY <2>1, <2>2, <2>3 DEF ServesOn
  <1>2. ASSUME NEW r \in Sessions
        PROVE  Writing(r)' =>
                  Lands(tampered', removed', disk', sess'[r], moved'[r], scene.command[r])
    BY DEF ServesOn, Writing
  <1> QED
    BY <1>1, <1>2 DEF Serving

-----------------------------------------------------------------------------
(* The user edits an entry.                                                *)

(* Disk x is d but for the entry of owner q; unless q is in U, it is no wrapper. *)
Retouched(T, U, d, x, q) ==
    /\ x.policy = d.policy /\ x.route = d.route /\ x.profile = d.profile
    /\ \A o \in Owners : Rec(x, o) = Rec(d, o) /\ (o # q => Entry(x, o) = Entry(d, o))
    /\ q \in U \/ ~Managing(x, q)
    /\ \A o \in Owners : o # q => (o \in T => o \in U)

LEMMA RetouchedServes ==
    ASSUME NEW T, NEW R, NEW d, Served(T, R, d), NEW q \in Owners, NEW U, NEW x,
           Retouched(T, U, d, x, q)
    PROVE  Served(U, R, x)
  <1>1. Richer(d, x)
    BY DEF Retouched, Richer
  <1>2. ASSUME NEW o \in Owners
        PROVE  /\ o \in U \/ Fits(R, x, o)
               /\ Keeps(R, x, o)
    <2>1. /\ o \in T \/ Fits(R, d, o)
          /\ RouteRuns(R, d, o) /\ RecordKeeps(d, o)
          /\ Rec(x, o) = Rec(d, o) /\ x.route[o] = d.route[o] /\ x.policy = d.policy
      BY DEF Served, Keeps, Retouched
    <2>2. Present(R, d, PathOf(o)) => Present(R, x, PathOf(o))
      BY <2>1 DEF Present
    <2>3. RecordKeeps(x, o)
      BY <2>1, RecordStays
    <2>4. OnRecord(x, o) => OnRecord(d, o)
      BY <2>1 DEF OnRecord
    <2>5. RouteRuns(R, x, o)
      BY <1>1, <2>1, <2>2, <2>4, RoutesStay
    <2>6. CASE o = q
      BY <2>3, <2>5, <2>6 DEF Retouched, Fits, Keeps
    <2>7. CASE o # q
      <3>1. Entry(x, o) = Entry(d, o) /\ (o \in T => o \in U)
        BY <2>7 DEF Retouched
      <3>2. ASSUME Fits(R, d, o)
            PROVE  Fits(R, x, o)
        <4>1. Managing(d, o) => /\ Rec(x, o).path = PathOf(o)
                                /\ Rec(x, o).installed[o[2]] = Entry(x, o)
          BY <2>1, <3>1, <3>2 DEF Fits
        <4> QED
          BY <1>1, <2>2, <3>1, <3>2, <4>1, FitsStays
      <3> QED
        BY <2>1, <2>3, <2>5, <3>1, <3>2 DEF Keeps
    <2> QED
      BY <2>6, <2>7
  <1> QED
    BY <1>2 DEF Served

LEMMA RetouchedLands ==
    ASSUME NEW T, NEW R, NEW d, NEW j, NEW files, NEW command,
           Lands(T, R, d, j, files, command), NEW q \in Owners, NEW U, NEW x,
           Retouched(T, U, d, x, q),
           NEW more, more = files \union {ConfigFile(q[1])}
    PROVE  Lands(U, R, x, j, more, command)
  <1>1. /\ \A o : RouteFile(o) \in more <=> RouteFile(o) \in files
        /\ \A i : ProfileFile(i) \in more <=> ProfileFile(i) \in files
        /\ \A p : PolicyFile(p) \in more <=> PolicyFile(p) \in files
    BY DEF RouteFile, ProfileFile, PolicyFile, ConfigFile, File
  <1>2. ASSUME NEW o \in Owners, Ours(U, x, more, o)
        PROVE  Ours(T, d, files, o)
    <2>1. o \notin U /\ (Managing(x, o) \/ ConfigFile(o[1]) \notin more)
      BY <1>2 DEF Ours
    <2>2. o # q
      BY <2>1 DEF Retouched
    <2>3. o \notin T /\ Entry(x, o) = Entry(d, o)
      BY <2>1, <2>2 DEF Retouched
    <2> QED
      BY <2>1, <2>3 DEF Ours, Managing
  <1>3. ASSUME NEW o \in Owners
        PROVE  EntryLands(U, R, x, j, more, o)
    <2>1. EntryLands(T, R, d, j, files, o)
      BY DEF Lands
    <2>2. o \in U \/ ~Managing(x, o) \/ Entry(x, o) = Entry(Side(j, ConfigFile(o[1])), o)
      <3>1. CASE o = q
        BY <3>1 DEF Retouched
      <3>2. CASE o # q
        <4>1. Entry(x, o) = Entry(d, o) /\ (o \in T => o \in U)
          BY <3>2 DEF Retouched
        <4> QED
          BY <2>1, <4>1 DEF EntryLands, Managing
      <3> QED
        BY <3>1, <3>2
    <2> QED
      BY <1>2, <2>1, <2>2 DEF EntryLands
  <1>4. ASSUME NEW o \in Owners
        PROVE  /\ RouteLands(x, j, more, o) /\ Keeps(R, j.before, o) /\ Keeps(R, j.after, o)
               /\ IF command = "restore" THEN RestoreSpares(j, o)
                  ELSE SetupServes(U, x, j, more, o)
    <2>1. /\ RouteLands(d, j, files, o) /\ Keeps(R, j.before, o) /\ Keeps(R, j.after, o)
          /\ IF command = "restore" THEN RestoreSpares(j, o)
             ELSE SetupServes(T, d, j, files, o)
      BY DEF Lands
    <2>2. x.route = d.route
      BY DEF Retouched
    <2>3. RouteLands(x, j, more, o)
      BY <1>1, <2>1, <2>2 DEF RouteLands
    <2>4. SetupServes(T, d, j, files, o) => SetupServes(U, x, j, more, o)
      BY <1>2 DEF SetupServes
    <2> QED
      BY <2>1, <2>3, <2>4
  <1>5. ASSUME NEW i \in Profiles
        PROVE  /\ ProfileLands(x, j, more, i)
               /\ command = "restore" => (j.after.profile[i] <=> j.before.profile[i])
    <2>1. /\ ProfileLands(d, j, files, i)
          /\ command = "restore" => (j.after.profile[i] <=> j.before.profile[i])
      BY DEF Lands
    <2>2. x.profile = d.profile
      BY DEF Retouched
    <2> QED
      BY <1>1, <2>1, <2>2 DEF ProfileLands
  <1>6. ASSUME NEW p \in Paths
        PROVE  ContentLands(R, x, j, more, p)
    <2>1. ContentLands(R, d, j, files, p)
      BY DEF Lands
    <2>2. x.policy = d.policy
      BY DEF Retouched
    <2> QED
      BY <1>1, <2>1, <2>2 DEF ContentLands, Present
  <1>7. InSequence(j, command)
    BY DEF Lands
  <1> QED
    BY <1>3, <1>4, <1>5, <1>6, <1>7 DEF Lands

LEMMA UserWritesIs ==
    ASSUME Routed, Kept, NEW q \in Owners, NEW entry, UserWrites(q, entry)
    PROVE  /\ disk'.policy = disk.policy /\ disk'.state = disk.state
           /\ disk'.route = disk.route /\ disk'.profile = disk.profile
           /\ Entry(disk', q) = entry
           /\ \A o \in Owners : o # q => Entry(disk', o) = Entry(disk, o)
  <1> DEFINE x == disk'
  <1>1. x = WithEntry(disk, q, entry)
    BY DEF UserWrites, WithEntry
  <1>2. IsDisk(disk) /\ IsTable(disk.config)
    BY DEF Routed, Shape, Kept, Tables
  <1>3. x.route = disk.route /\ x.profile = disk.profile
    BY <1>1, <1>2 DEF IsDisk, WithEntry
  <1> HIDE DEF x
  <1>4. x.policy = disk.policy /\ x.state = disk.state
    BY <1>1, <1>2, EditedIs
  <1>5. Entry(x, q) = entry
    BY <1>1, <1>2, EditedIs
  <1>6. \A o \in Owners : o # q => Entry(x, o) = Entry(disk, o)
    BY <1>1, <1>2, EditedIs
  <1> QED
    BY <1>3, <1>4, <1>5, <1>6 DEF x

LEMMA UserWritesServes ==
    ASSUME Routed, Kept, Serving, NEW q \in Owners, NEW entry, UserWrites(q, entry),
           UNCHANGED <<scene, sess, removed>>,
           q \in tampered' \/ ManagedPolicy(entry) = "",
           \A o \in Owners : o # q => (o \in tampered => o \in tampered')
    PROVE  Serving'
  <1> DEFINE f == ConfigFile(q[1])
             x == disk'
  <1>1. Moved({f}, {})
    BY DEF UserWrites
  <1>2. /\ x.policy = disk.policy /\ x.state = disk.state
        /\ x.route = disk.route /\ x.profile = disk.profile
        /\ Entry(x, q) = entry
    BY UserWritesIs
  <1>3. \A o \in Owners : o # q => Entry(x, o) = Entry(disk, o)
    BY UserWritesIs
  <1> HIDE DEF x
  <1>4. Retouched(tampered, tampered', disk, x, q)
    <2>1. \A o \in Owners : Rec(x, o) = Rec(disk, o)
      BY <1>2 DEF Rec
    <2>2. q \in tampered' \/ ~Managing(x, q)
      BY <1>2 DEF Managing
    <2> QED
      BY <1>2, <1>3, <2>1, <2>2 DEF Retouched
  <1>5. LockFree' => Served(tampered', removed', x)
    <2> SUFFICES ASSUME LockFree PROVE Served(tampered', removed, x)
      BY DEF LockFree
    <2>1. Served(tampered, removed, disk)
      BY DEF Serving
    <2> QED
      BY <1>4, <2>1, RetouchedServes
  <1>6. ASSUME NEW r \in Sessions
         PROVE  ServesOn(r)
    <2>1. /\ sess[r].pc \in {"chosen", "writing"} => moved'[r] = moved[r] \union {f}
          /\ sess'[r] = sess[r]
      BY <1>1 DEF Moved
    <2>2. ASSUME sess'[r].pc = "writing"
          PROVE  Lands(tampered', removed', x, sess'[r], moved'[r], scene.command[r])
      <3> DEFINE j == sess[r]
                 files == moved[r]
                 more == moved'[r]
                 command == scene.command[r]
      <3>1. Lands(tampered, removed, disk, j, files, command)
        BY <2>1, <2>2 DEF Serving, Writing
      <3>2. more = files \union {ConfigFile(q[1])}
        BY <2>1, <2>2
      <3> HIDE DEF j, files, more, command
      <3>3. Lands(tampered', removed, x, j, more, command)
        BY <1>4, <3>1, <3>2, RetouchedLands
      <3> QED
        BY <2>1, <3>3 DEF j, more, command
    <2>3. ASSUME sess'[r].pc = "chosen"
          PROVE  /\ sess'[r] = sess[r] /\ moved[r] \subseteq moved'[r]
                 /\ \A o \in Owners :
                       ConfigFile(o[1]) \notin moved'[r] => Entry(x, o) = Entry(disk, o)
      <3>1. moved'[r] = moved[r] \union {f} /\ sess'[r] = sess[r]
        BY <2>1, <2>3
      <3>2. \A o \in Owners : ConfigFile(o[1]) \notin moved'[r] => o # q
        BY <3>1
      <3> QED
        BY <1>3, <3>1, <3>2
    <2> QED
      BY <2>2, <2>3 DEF ServesOn, x
  <1> QED
    BY <1>5, <1>6, ServingStays DEF x

LEMMA UserReplacesServes ==
    ASSUME Routed, Kept, Serving, NEW q \in Owners, UserReplaces(q)
    PROVE  Serving'
  <1>1. PICK edit \in scene.edits \union {[entry |-> NoEntry, own |-> NoEntry]} :
           /\ UserWrites(q, edit.entry)
           /\ tampered' = IF edit.entry = edit.own THEN tampered \ {q} ELSE tampered \union {q}
           /\ UNCHANGED <<scene, sess, removed>>
    BY DEF UserReplaces
  <1>2. edit.own \in Hands(scene)
    BY DEF Hands
  <1>3. scene \in Scenes
    BY DEF Routed, Shape
  <1>4. ~IsWrapper(edit.own)
    BY <1>2, <1>3, SceneAssumption
  <1>5. q \in tampered' \/ ManagedPolicy(edit.entry) = ""
    BY <1>1, <1>4, ManagedIsWrapper
  <1>6. \A o \in Owners : o # q => (o \in tampered => o \in tampered')
    BY <1>1
  <1> QED
    BY <1>1, <1>5, <1>6, UserWritesServes

LEMMA UserTweaksServes ==
    ASSUME Routed, Kept, Serving, NEW q \in Owners, UserTweaks(q)
    PROVE  Serving'
  <1> DEFINE entry == Tweaked(disk.config[q[1]][q[2]])
  <1>1. UserWrites(q, entry) /\ UNCHANGED <<scene, sess, removed>>
    BY DEF UserTweaks
  <1>2. q \in tampered' /\ \A o \in Owners : o # q => (o \in tampered => o \in tampered')
    BY DEF UserTweaks
  <1> HIDE DEF entry
  <1> QED
    BY <1>1, <1>2, UserWritesServes

-----------------------------------------------------------------------------
(* The user edits a policy.                                                *)

(* Disk x is d but for policy q, which is there unless it is in Q. *)
Repoliced(R, Q, d, x, q) ==
    /\ x.config = d.config /\ x.state = d.state /\ x.route = d.route /\ x.profile = d.profile
    /\ \A p \in Paths : p # q => x.policy[p] = d.policy[p]
    /\ x.policy[q] # NoFile \/ q \in Q
    /\ \A p \in Paths : p \in R => p \in Q

LEMMA MoreRemoved ==
    ASSUME NEW R, NEW Q, NEW d, NEW o \in Owners, \A p \in Paths : p \in R => p \in Q
    PROVE  /\ Fits(R, d, o) => Fits(Q, d, o)
           /\ Keeps(R, d, o) => Keeps(Q, d, o)
  <1>1. PathOf(o) \in Paths
    BY OwnerParts
  <1>2. Present(R, d, PathOf(o)) => Present(Q, d, PathOf(o))
    BY <1>1 DEF Present
  <1>3. \A y : Serves(R, d, PathOf(o), y) => Serves(Q, d, PathOf(o), y)
    BY <1>2 DEF Serves
  <1>4. Fits(R, d, o) => Fits(Q, d, o)
    BY <1>3 DEF Fits
  <1>5. RouteRuns(R, d, o) => RouteRuns(Q, d, o)
    BY <1>3 DEF RouteRuns
  <1> QED
    BY <1>4, <1>5 DEF Keeps

LEMMA RepolicedServes ==
    ASSUME NEW T, NEW R, NEW d, Served(T, R, d), NEW q \in Paths, NEW Q, NEW x,
           Repoliced(R, Q, d, x, q)
    PROVE  Served(T, Q, x)
  <1>1. Richer(d, x)
    BY DEF Repoliced, Richer
  <1>2. ASSUME NEW o \in Owners
        PROVE  /\ o \in T \/ Fits(Q, x, o)
               /\ Keeps(Q, x, o)
    <2>1. /\ o \in T \/ Fits(R, d, o)
          /\ RouteRuns(R, d, o) /\ RecordKeeps(d, o)
          /\ Rec(x, o) = Rec(d, o) /\ x.route[o] = d.route[o] /\ Entry(x, o) = Entry(d, o)
      BY DEF Served, Keeps, Repoliced, Rec, Entry
    <2>2. Present(R, d, PathOf(o)) => Present(Q, x, PathOf(o))
      <3>1. PathOf(o) \in Paths
        BY OwnerParts
      <3> QED
        BY <3>1 DEF Present, Repoliced
    <2>3. RecordKeeps(x, o)
      BY <2>1, RecordStays
    <2>4. OnRecord(x, o) => OnRecord(d, o)
      BY <2>1 DEF OnRecord
    <2>5. RouteRuns(Q, x, o)
      BY <1>1, <2>1, <2>2, <2>4, RoutesStay
    <2>6. ASSUME Fits(R, d, o)
          PROVE  Fits(Q, x, o)
      <3>1. Managing(d, o) => /\ Rec(x, o).path = PathOf(o)
                              /\ Rec(x, o).installed[o[2]] = Entry(x, o)
        BY <2>1, <2>6 DEF Fits
      <3> QED
        BY <1>1, <2>1, <2>2, <2>6, <3>1, FitsStays
    <2> QED
      BY <2>1, <2>3, <2>5, <2>6 DEF Keeps
  <1> QED
    BY <1>2 DEF Served

LEMMA RepolicedLands ==
    ASSUME NEW T, NEW R, NEW d, NEW j, NEW files, NEW command,
           Lands(T, R, d, j, files, command), NEW q \in Paths, NEW Q, NEW x,
           Repoliced(R, Q, d, x, q),
           NEW more, more = files \union {PolicyFile(q)}
    PROVE  Lands(T, Q, x, j, more, command)
  <1>1. /\ \A o : RouteFile(o) \in more <=> RouteFile(o) \in files
        /\ \A i : ProfileFile(i) \in more <=> ProfileFile(i) \in files
        /\ \A c : ConfigFile(c) \in more <=> ConfigFile(c) \in files
    BY DEF RouteFile, ProfileFile, PolicyFile, ConfigFile, File
  <1>2. /\ x.config = d.config /\ x.route = d.route /\ x.profile = d.profile
        /\ \A p \in Paths : p \in R => p \in Q
    BY DEF Repoliced
  <1>3. ASSUME NEW o \in Owners
        PROVE  EntryLands(T, Q, x, j, more, o)
    <2>1. EntryLands(T, R, d, j, files, o)
      BY DEF Lands
    <2>2. Ours(T, x, more, o) <=> Ours(T, d, files, o)
      BY <1>1, <1>2 DEF Ours, Managing, Entry
    <2>3. /\ Fits(R, j.before, o) => Fits(Q, j.before, o)
          /\ Fits(R, j.after, o) => Fits(Q, j.after, o)
      BY <1>2, MoreRemoved
    <2>4. Entry(x, o) = Entry(d, o)
      BY <1>2 DEF Entry
    <2> QED
      BY <2>1, <2>2, <2>3, <2>4 DEF EntryLands, Managing
  <1>4. ASSUME NEW o \in Owners
        PROVE  /\ RouteLands(x, j, more, o) /\ Keeps(Q, j.before, o) /\ Keeps(Q, j.after, o)
               /\ IF command = "restore" THEN RestoreSpares(j, o)
                  ELSE SetupServes(T, x, j, more, o)
    <2>1. /\ RouteLands(d, j, files, o) /\ Keeps(R, j.before, o) /\ Keeps(R, j.after, o)
          /\ IF command = "restore" THEN RestoreSpares(j, o)
             ELSE SetupServes(T, d, j, files, o)
      BY DEF Lands
    <2>2. RouteLands(x, j, more, o)
      BY <1>1, <1>2, <2>1 DEF RouteLands
    <2>3. Ours(T, x, more, o) <=> Ours(T, d, files, o)
      BY <1>1, <1>2 DEF Ours, Managing, Entry
    <2>4. SetupServes(T, d, j, files, o) => SetupServes(T, x, j, more, o)
      BY <2>3 DEF SetupServes
    <2>5. Keeps(Q, j.before, o) /\ Keeps(Q, j.after, o)
      BY <1>2, <2>1, MoreRemoved
    <2> QED
      BY <2>1, <2>2, <2>4, <2>5
  <1>5. ASSUME NEW i \in Profiles
        PROVE  /\ ProfileLands(x, j, more, i)
               /\ command = "restore" => (j.after.profile[i] <=> j.before.profile[i])
    <2>1. /\ ProfileLands(d, j, files, i)
          /\ command = "restore" => (j.after.profile[i] <=> j.before.profile[i])
      BY DEF Lands
    <2> QED
      BY <1>1, <1>2, <2>1 DEF ProfileLands
  <1>6. ASSUME NEW p \in Paths
        PROVE  ContentLands(Q, x, j, more, p)
    <2>1. ContentLands(R, d, j, files, p)
      BY DEF Lands
    <2>2. CASE p = q
      BY <2>1, <2>2 DEF ContentLands, Present, Repoliced
    <2>3. CASE p # q
      <3>1. PolicyFile(p) \in more <=> PolicyFile(p) \in files
        <4>1. PolicyFile(p) # PolicyFile(q)
          BY <2>3 DEF PolicyFile, File
        <4> QED
          BY <4>1
      <3>2. x.policy[p] = d.policy[p]
        BY <2>3 DEF Repoliced
      <3>3. Present(R, d, p) => Present(Q, x, p)
        BY <1>2, <3>2 DEF Present
      <3> QED
        BY <2>1, <3>1, <3>2, <3>3 DEF ContentLands
    <2> QED
      BY <2>2, <2>3
  <1>7. InSequence(j, command)
    BY DEF Lands
  <1> QED
    BY <1>3, <1>4, <1>5, <1>6, <1>7 DEF Lands

LEMMA UserPolicyServes ==
    ASSUME Routed, Kept, Serving, NEW q \in Paths, UserPolicy(q)
    PROVE  Serving'
  <1> DEFINE f == PolicyFile(q)
             x == disk'
  <1>1. PICK policy :
           /\ disk' = [disk EXCEPT !.policy[q] = policy] /\ Moved({f}, {})
           /\ removed' = IF policy = NoFile THEN removed \union {q} ELSE removed
           /\ UNCHANGED <<scene, sess, tampered>>
    BY DEF UserPolicy
  <1>2. IsDisk(disk) /\ disk.policy = [p \in Paths |-> disk.policy[p]]
    BY DEF Routed, Shape, Kept, Tables
  <1>3. /\ x.config = disk.config /\ x.state = disk.state
        /\ x.route = disk.route /\ x.profile = disk.profile
        /\ x.policy = [disk.policy EXCEPT ![q] = policy]
    BY <1>1, <1>2 DEF IsDisk
  <1>4. x.policy[q] = policy /\ \A p \in Paths : p # q => x.policy[p] = disk.policy[p]
    BY <1>2, <1>3
  <1> HIDE DEF x
  <1>5. Repoliced(removed, removed', disk, x, q)
    BY <1>1, <1>3, <1>4 DEF Repoliced
  <1>6. LockFree' => Served(tampered', removed', x)
    <2> SUFFICES ASSUME LockFree PROVE Served(tampered, removed', x)
      BY <1>1 DEF LockFree
    <2>1. Served(tampered, removed, disk)
      BY DEF Serving
    <2> QED
      BY <1>5, <2>1, RepolicedServes
  <1>7. ASSUME NEW r \in Sessions
        PROVE  ServesOn(r)
    <2>1. /\ sess[r].pc \in {"chosen", "writing"} => moved'[r] = moved[r] \union {f}
          /\ sess'[r] = sess[r]
      BY <1>1 DEF Moved
    <2>2. ASSUME sess'[r].pc = "writing"
          PROVE  Lands(tampered', removed', x, sess'[r], moved'[r], scene.command[r])
      <3> DEFINE j == sess[r]
                 files == moved[r]
                 more == moved'[r]
                 command == scene.command[r]
      <3>1. Lands(tampered, removed, disk, j, files, command)
        BY <2>1, <2>2 DEF Serving, Writing
      <3>2. more = files \union {PolicyFile(q)}
        BY <2>1, <2>2
      <3> HIDE DEF j, files, more, command
      <3>3. Lands(tampered, removed', x, j, more, command)
        BY <1>5, <3>1, <3>2, RepolicedLands
      <3> QED
        BY <1>1, <2>1, <3>3 DEF j, more, command
    <2>3. ASSUME sess'[r].pc = "chosen"
          PROVE  /\ sess'[r] = sess[r] /\ moved[r] \subseteq moved'[r]
                 /\ \A o \in Owners :
                       ConfigFile(o[1]) \notin moved'[r] => Entry(x, o) = Entry(disk, o)
      <3>1. moved'[r] = moved[r] \union {f} /\ sess'[r] = sess[r]
        BY <2>1, <2>3
      <3> QED
        BY <1>3, <3>1 DEF Entry
    <2> QED
      BY <2>2, <2>3 DEF ServesOn, x
  <1>8. UNCHANGED scene
    BY <1>1
  <1> QED
    BY <1>6, <1>7, <1>8, ServingStays DEF x

-----------------------------------------------------------------------------
(* What each step of a session does to what is served.                     *)

(* A session that does not write goes on to one that does not. *)
LEMMA QuietServes ==
    ASSUME Kept, Serving, NEW s \in Sessions, UNCHANGED <<scene, disk, tampered, removed>>,
           ~Writing(s), sess'[s].pc # "writing",
           Settles(disk, sess'[s], moved'[s], scene.command[s]),
           \A r \in Sessions : r # s => sess'[r] = sess[r] /\ moved'[r] = moved[r]
    PROVE  Serving'
  <1>1. LockFree' => Served(tampered', removed', disk')
    BY DEF LockFree, Serving, Writing
  <1>2. ServesOn(s)
    BY DEF ServesOn
  <1>3. ASSUME NEW r \in Sessions, r # s
        PROVE  ServesOn(r)
    BY <1>3 DEF ServesOn, Serving, Writing
  <1> QED
    BY <1>1, <1>2, <1>3, ServingStays

LEMMA QuitServes ==
    ASSUME Routed, Kept, Serving, NEW s \in Sessions, ~Writing(s), Ends(s),
           UNCHANGED <<scene, disk, tampered, removed>>
    PROVE  Serving'
  <1>1. /\ Becomes(s, [Idle EXCEPT !.pc = "ended"])
        /\ \A r \in Sessions : r # s => moved'[r] = moved[r]
    BY DEF Ends, Routed, Shape
  <1>2. sess'[s].pc = "ended" /\ \A r \in Sessions : r # s => sess'[r] = sess[r]
    BY <1>1, EndedIs
  <1>3. Settles(disk, sess'[s], moved'[s], scene.command[s])
    BY <1>2, SettlesNothing
  <1> QED
    BY <1>1, <1>2, <1>3, QuietServes

LEMMA PlanServes ==
    ASSUME Routed, Kept, Serving, NEW s \in Sessions, ~Writing(s), LockFree,
           NEW files, NEW after, NEW healed,
           Begin(s, files, after, healed), UNCHANGED scene,
           Lands(tampered', removed', disk', sess'[s], moved'[s], scene.command[s])
    PROVE  Serving'
  <1>1. /\ sess'[s].pc = "writing"
        /\ \A r \in Sessions : r # s => sess'[r] = sess[r] /\ moved'[r] = moved[r]
        /\ disk'.config = disk.config
    BY Begun
  <1>2. ~LockFree'
    BY <1>1 DEF LockFree
  <1>3. \A o \in Owners : Entry(disk', o) = Entry(disk, o)
    BY <1>1 DEF Entry
  <1>4. ServesOn(s)
    BY <1>1 DEF ServesOn
  <1>5. ASSUME NEW r \in Sessions, r # s
        PROVE  ServesOn(r)
    <2>1. sess'[r] = sess[r] /\ moved'[r] = moved[r] /\ sess[r].pc # "writing"
      BY <1>1, <1>5 DEF LockFree
    <2> QED
      BY <1>3, <2>1 DEF ServesOn
  <1> QED
    BY <1>2, <1>4, <1>5, ServingStays

LEMMA PlansServe ==
    ASSUME Routed, Kept, Serving, NEW s \in Sessions, AddPlan(s) \/ ManualPlan(s) \/ RestorePlan(s)
    PROVE  Serving'
  <1>1. CASE AddPlan(s)
    <2>1. \E entries, routes, healed : BeginSetup(s, Installed(s, entries, routes, FALSE), healed)
      BY <1>1, Zenon DEF AddPlan
    <2>2. PICK files, after, healed : Begin(s, files, after, healed)
      BY <2>1 DEF BeginSetup
    <2>3. LockFree /\ ~Writing(s) /\ UNCHANGED scene /\ scene.command[s] = "add"
      BY <1>1 DEF AddPlan, Runs, Writing
    <2> QED
      BY <1>1, <2>2, <2>3, AddPlanLands, PlanServes
  <1>2. CASE ManualPlan(s)
    <2>1. \E entries, routes, healed : BeginSetup(s, Installed(s, entries, routes, TRUE), healed)
      BY <1>2, Zenon DEF ManualPlan
    <2>2. PICK files, after, healed : Begin(s, files, after, healed)
      BY <2>1 DEF BeginSetup
    <2>3. LockFree /\ ~Writing(s) /\ UNCHANGED scene /\ scene.command[s] = "manual"
      BY <1>2 DEF ManualPlan, Runs, Writing
    <2> QED
      BY <1>2, <2>2, <2>3, ManualPlanLands, PlanServes
  <1>3. CASE RestorePlan(s)
    <2>1. \E after, policies : BeginRestore(s, after, policies)
      BY <1>3, Zenon DEF RestorePlan
    <2>2. PICK files, after, healed : Begin(s, files, after, healed)
      BY <2>1 DEF BeginRestore
    <2>3. LockFree /\ ~Writing(s) /\ UNCHANGED scene /\ scene.command[s] = "restore"
      BY <1>3 DEF RestorePlan, Runs, Writing
    <2> QED
      BY <1>3, <2>2, <2>3, RestorePlanLands, PlanServes
  <1> QED
    BY <1>1, <1>2, <1>3

(* A write, seen from what is served. *)
LEMMA DuePrecedes ==
    ASSUME NEW s \in Sessions, NEW f \in Due(s)
    PROVE  Precedes(sess[s], f, scene.command[s])
  BY DEF Due, Precedes, Rank, Files, Written

LEMMA WriteHeals ==
    ASSUME Routed, NEW s \in Sessions, Write(s)
    PROVE  /\ Writing(s) /\ UNCHANGED <<scene, removed>>
           /\ \E f \in Due(s) \ moved[s] :
                /\ disk' = Copy(disk, {f}, sess[s].after)
                /\ Wrote(sess[s], sess'[s], f) /\ sess'[s].pc = "writing"
                /\ sess'[s].healed = sess[s].healed
                /\ tampered' = tampered \ {o \in sess[s].healed : f = ConfigFile(o[1])}
                /\ moved'[s] = moved[s]
                /\ \A r \in Sessions : r # s =>
                      /\ sess'[r] = sess[r]
                      /\ sess[r].pc \in {"loaded", "chosen", "writing"} =>
                            moved'[r] = moved[r] \union {f}
  <1>1. Writing(s) /\ UNCHANGED <<scene, removed>>
    BY DEF Write
  <1>2. PICK f \in Due(s) \ moved[s] :
           /\ disk' = Copy(disk, {f}, sess[s].after)
           /\ Becomes(s, [sess[s] EXCEPT !.written = @ \union {f}]) /\ Moved({f}, {s})
           /\ tampered' = tampered \ {o \in sess[s].healed : f = ConfigFile(o[1])}
    BY DEF Write
  <1> DEFINE new == [sess[s] EXCEPT !.written = @ \union {f}]
  <1>3. Wrote(sess[s], new, f) /\ new.pc = "writing" /\ new.healed = sess[s].healed
    <2>1. IsSession(sess[s]) /\ sess[s].pc = "writing"
      BY <1>1 DEF Routed, Shape, Writing
    <2> QED
      BY <2>1 DEF Wrote, IsSession
  <1>4. Becomes(s, new)
    BY <1>2
  <1> HIDE DEF new
  <1>5. sess'[s] = new /\ \A r \in Sessions : r # s => sess'[r] = sess[r]
    BY <1>4, BecomesIs DEF Routed
  <1>6. /\ moved'[s] = moved[s]
        /\ \A r \in Sessions : r # s /\ sess[r].pc \in {"loaded", "chosen", "writing"} =>
              moved'[r] = moved[r] \union {f}
    BY <1>2 DEF Moved
  <1> QED
    BY <1>1, <1>2, <1>3, <1>5, <1>6

LEMMA WriteServes ==
    ASSUME Routed, Kept, Serving, NEW s \in Sessions, Write(s)
    PROVE  Serving'
  <1>1. Writing(s) /\ UNCHANGED <<scene, removed>>
    BY WriteHeals
  <1>2. PICK f \in Due(s) \ moved[s] :
           /\ disk' = Copy(disk, {f}, sess[s].after)
           /\ Wrote(sess[s], sess'[s], f) /\ sess'[s].pc = "writing"
           /\ sess'[s].healed = sess[s].healed
           /\ tampered' = tampered \ {o \in sess[s].healed : f = ConfigFile(o[1])}
           /\ moved'[s] = moved[s]
           /\ \A r \in Sessions : r # s =>
                 /\ sess'[r] = sess[r]
                 /\ sess[r].pc \in {"loaded", "chosen", "writing"} =>
                       moved'[r] = moved[r] \union {f}
    BY WriteHeals
  <1>3. /\ Lands(tampered, removed, disk, sess[s], moved[s], scene.command[s]) /\ IsDisk(disk)
        /\ Precedes(sess[s], f, scene.command[s])
    BY <1>1, DuePrecedes DEF Serving, Routed, Shape
  <1>4. Lands(tampered', removed, disk', sess'[s], moved[s], scene.command[s])
    <2> DEFINE j == sess[s]
               k == sess'[s]
               files == moved[s]
               command == scene.command[s]
               x == disk'
               U == tampered'
    <2>1. /\ Lands(tampered, removed, disk, j, files, command) /\ IsDisk(disk)
          /\ Precedes(j, f, command)
      BY <1>3
    <2>2. /\ f \notin files /\ Wrote(j, k, f) /\ k.healed = j.healed
          /\ x = Copy(disk, {f}, j.after) /\ U = tampered \ {o \in j.healed : f = ConfigFile(o[1])}
      BY <1>2
    <2> HIDE DEF j, k, files, command, x, U
    <2>3. Lands(U, removed, x, k, files, command)
      BY <2>1, <2>2, WriteLands
    <2> QED
      BY <2>3 DEF U, x, k, files, command
  <1>5. ~LockFree'
    BY <1>2 DEF LockFree
  <1>6. ServesOn(s)
    BY <1>1, <1>2, <1>4 DEF ServesOn
  <1>7. ASSUME NEW r \in Sessions, r # s
        PROVE  ServesOn(r)
    <2>1. sess'[r] = sess[r] /\ sess[r].pc # "writing"
      BY <1>1, <1>2, <1>7 DEF Routed, OneWriter, Writing
    <2>2. CASE sess[r].pc # "chosen"
      BY <2>1, <2>2 DEF ServesOn
    <2>3. CASE sess[r].pc = "chosen"
      <3>1. moved'[r] = moved[r] \union {f}
        BY <1>2, <1>7, <2>3
      <3>2. \A o \in Owners : Entry(disk', o) = IF ConfigFile(o[1]) \in {f}
                                                THEN Entry(sess[s].after, o) ELSE Entry(disk, o)
        BY <1>2, <1>3, CopyEntries
      <3> QED
        BY <2>1, <3>1, <3>2 DEF ServesOn
    <2> QED
      BY <2>2, <2>3
  <1> QED
    BY <1>1, <1>5, <1>6, <1>7, ServingStays

-----------------------------------------------------------------------------
(* A session that writes comes to its end.                                 *)

LEMMA EndServes ==
    ASSUME Routed, Kept, Serving, NEW s \in Sessions, Writing(s), UNCHANGED scene,
           sess'[s].pc = "ended", Served(tampered', removed', disk'), NEW F,
           \A r \in Sessions : r # s =>
              /\ sess'[r] = sess[r]
              /\ sess[r].pc = "chosen" => moved[r] \union F \subseteq moved'[r],
           \A o \in Owners : ConfigFile(o[1]) \notin F => Entry(disk', o) = Entry(disk, o)
    PROVE  Serving'
  <1>1. ServesOn(s)
    BY DEF ServesOn
  <1>2. ASSUME NEW r \in Sessions, r # s
        PROVE  ServesOn(r)
    <2>1. sess'[r] = sess[r] /\ sess[r].pc # "writing"
      BY <1>2 DEF Routed, OneWriter, Writing
    <2>2. CASE sess[r].pc # "chosen"
      BY <2>1, <2>2 DEF ServesOn
    <2>3. CASE sess[r].pc = "chosen"
      <3>1. moved[r] \subseteq moved'[r] /\ F \subseteq moved'[r]
        BY <1>2, <2>3
      <3> QED
        BY <2>1, <3>1 DEF ServesOn
    <2> QED
      BY <2>2, <2>3
  <1> QED
    BY <1>1, <1>2, ServingStays

LEMMA WritingIs ==
    ASSUME Routed, Kept, Serving, NEW s \in Sessions, Writing(s)
    PROVE  /\ Works(World, disk, sess[s], moved[s], scene.command[s])
           /\ Lands(tampered, removed, disk, sess[s], moved[s], scene.command[s])
           /\ IsDisk(disk) /\ sess[s].written \subseteq sess[s].files
  BY DEF Kept, Serving, Routed, Shape, IsSession

LEMMA CrashServes ==
    ASSUME Routed, Kept, Serving, NEW s \in Sessions, Crash(s)
    PROVE  Serving'
  <1>1. /\ Writing(s) /\ Becomes(s, [Idle EXCEPT !.pc = "ended"])
        /\ moved' = [moved EXCEPT ![s] = {}] /\ UNCHANGED <<scene, disk, tampered, removed>>
    BY DEF Crash, Ends
  <1>2. /\ sess'[s].pc = "ended"
        /\ \A r \in Sessions : r # s => sess'[r] = sess[r] /\ moved'[r] = moved[r]
    BY <1>1, EndedIs DEF Routed, Shape
  <1>3. Served(tampered, removed, disk)
    <2> DEFINE j == sess[s]
               files == moved[s]
               command == scene.command[s]
               w == World
    <2>1. /\ Works(w, disk, j, files, command) /\ j.written \subseteq j.files
          /\ Lands(tampered, removed, disk, j, files, command)
      BY <1>1, WritingIs
    <2> HIDE DEF j, files, command, w
    <2> QED
      BY <2>1, LandsServe
  <1> DEFINE F == {}
  <1>4. \A o \in Owners : ConfigFile(o[1]) \notin F => Entry(disk', o) = Entry(disk, o)
    BY <1>1
  <1>5. \A r \in Sessions : r # s =>
           /\ sess'[r] = sess[r]
           /\ sess[r].pc = "chosen" => moved[r] \union F \subseteq moved'[r]
    BY <1>2
  <1>6. Served(tampered', removed', disk') /\ UNCHANGED scene /\ Writing(s)
    BY <1>1, <1>3
  <1> HIDE DEF F
  <1> QED
    BY <1>2, <1>4, <1>5, <1>6, EndServes

LEMMA RollBackKeepsServing ==
    ASSUME Routed, Kept, Serving, NEW s \in Sessions, Writing(s), RollBack(s),
           UNCHANGED <<scene, removed>>
    PROVE  Serving'
  <1> DEFINE undo == sess[s].written \ moved[s]
             spared == sess[s].written \cap moved[s]
  <1>1. /\ disk' = Copy(disk, undo, sess[s].before)
        /\ Becomes(s, [Idle EXCEPT !.pc = "ended"])
        /\ moved' = [r \in Sessions |->
              IF r = s THEN {}
              ELSE IF sess[r].pc \in {"loaded", "chosen"} THEN moved[r] \union undo
                   ELSE moved[r]]
        /\ tampered' = tampered \union sess[s].healed
                          \union IF spared = {} THEN {} ELSE DOMAIN sess[s].picked
    BY DEF RollBack, Written
  <1>2. sess'[s].pc = "ended" /\ \A r \in Sessions : r # s => sess'[r] = sess[r]
    BY <1>1, EndedIs
  <1>3. Served(tampered', removed, disk')
    <2> DEFINE j == sess[s]
               files == moved[s]
               command == scene.command[s]
               w == World
               x == disk'
               U == tampered'
    <2>1. /\ Works(w, disk, j, files, command) /\ j.written \subseteq j.files /\ IsDisk(disk)
          /\ Lands(tampered, removed, disk, j, files, command)
      BY WritingIs
    <2>2. /\ x = Copy(disk, j.written \ files, j.before)
          /\ U = tampered \union j.healed \union (IF j.written \cap files = {} THEN {}
                                                  ELSE DOMAIN j.picked)
      BY <1>1
    <2> HIDE DEF j, files, command, w, x, U
    <2>3. Served(U, removed, x)
      BY <2>1, <2>2, RollBackServes
    <2> QED
      BY <2>3 DEF U, x
  <1>4. \A o \in Owners : ConfigFile(o[1]) \notin undo => Entry(disk', o) = Entry(disk, o)
    <2>1. IsDisk(disk)
      BY DEF Routed, Shape
    <2> HIDE DEF undo
    <2> QED
      BY <1>1, <2>1, CopyEntries
  <1>5. \A r \in Sessions : r # s =>
           /\ sess'[r] = sess[r]
           /\ sess[r].pc = "chosen" => moved[r] \union undo \subseteq moved'[r]
    BY <1>1, <1>2
  <1>6. Served(tampered', removed', disk') /\ UNCHANGED scene
    BY <1>3
  <1> HIDE DEF undo, spared
  <1> QED
    BY <1>2, <1>4, <1>5, <1>6, EndServes

LEMMA FinishKeepsServing ==
    ASSUME Routed, Kept, Serving, NEW s \in Sessions, Finish(s)
    PROVE  Serving'
  <1>1. /\ Writing(s) /\ sess[s].written = sess[s].files /\ Verified(s)
        /\ Becomes(s, [Idle EXCEPT !.pc = "ended"]) /\ moved' = [moved EXCEPT ![s] = {}]
        /\ UNCHANGED <<scene, disk, tampered>>
        /\ removed' = IF scene.command[s] = "restore" THEN removed ELSE removed \ WrittenPaths(s)
    BY DEF Finish, Ends, Written, Files
  <1>2. /\ sess'[s].pc = "ended"
        /\ \A r \in Sessions : r # s => sess'[r] = sess[r] /\ moved'[r] = moved[r]
    BY <1>1, EndedIs DEF Routed, Shape
  <1>3. ASSUME NEW p \in Paths
        PROVE  /\ PolicyFile(p) \notin sess[s].files \/ scene.command[s] = "restore" =>
                     (p \in removed => p \in removed')
               /\ PolicyFile(p) \in sess[s].files /\ scene.command[s] # "restore" =>
                     disk.policy[p] = sess[s].after.policy[p]
    BY <1>1 DEF Verified, WrittenPaths, Files
  <1>4. Served(tampered, removed', disk)
    <2> DEFINE j == sess[s]
               files == moved[s]
               command == scene.command[s]
               w == World
               Q == removed'
    <2>1. /\ Works(w, disk, j, files, command) /\ j.written = j.files
          /\ Lands(tampered, removed, disk, j, files, command)
      BY <1>1, WritingIs
    <2>2. \A p \in Paths :
             /\ PolicyFile(p) \notin j.files \/ command = "restore" => (p \in removed => p \in Q)
             /\ PolicyFile(p) \in j.files /\ command # "restore" =>
                   disk.policy[p] = j.after.policy[p]
      BY <1>3
    <2> HIDE DEF j, files, command, w, Q
    <2>3. Served(tampered, Q, disk)
      BY <2>1, <2>2, FinishServes
    <2> QED
      BY <2>3 DEF Q
  <1> DEFINE F == {}
  <1>5. \A o \in Owners : ConfigFile(o[1]) \notin F => Entry(disk', o) = Entry(disk, o)
    BY <1>1
  <1>6. \A r \in Sessions : r # s =>
           /\ sess'[r] = sess[r]
           /\ sess[r].pc = "chosen" => moved[r] \union F \subseteq moved'[r]
    BY <1>2
  <1>7. Served(tampered', removed', disk') /\ UNCHANGED scene /\ Writing(s)
    BY <1>1, <1>4
  <1> HIDE DEF F
  <1> QED
    BY <1>2, <1>5, <1>6, <1>7, EndServes

-----------------------------------------------------------------------------
(* What a session chooses.                                                 *)

LEMMA PickSource ==
    ASSUME NEW choices, NEW servers, NEW ports, NEW pick \in Picks(choices, servers, ports)
    PROVE  pick.source \in servers
  <1> DEFINE by == FromBackup([m \in Names |-> NoEntry])
  <1> HIDE DEF by
  <1>1. NoPick = [kind |-> "", by |-> by, from |-> "", policy |-> NoFile, source |-> NoSource,
                  port |-> "", save |-> FALSE]
    BY DEF NoPick, by
  <1>2. PICK choice, found, q : found \in servers /\ pick = Pick(choice, found, q)
    BY DEF Picks
  <1>3. Pick(choice, found, q).source = found
    BY <1>1 DEF Pick
  <1> QED
    BY <1>2, <1>3

LEMMA ProfileIsOne ==
    ASSUME NEW s \in Sessions
    PROVE  Profile(s) \in Profiles /\ Profile(s) # ""
  BY SceneAssumption DEF Profiles, Plain

(* What discovery finds for a server whose profile, if it has one, is stored. *)
LEMMA DiscoveryFound ==
    ASSUME NEW s \in Sessions, NEW x, IsUpstream(x), x.profile # "" => x.profile \in Profiles,
           NEW cs, OneOrTwo(cs, x), NEW found \in DiscoverSetupServer(cs, Profile(s))
    PROVE  Found(x, found)
  <1> DEFINE id == Profile(s)
  <1>1. id \in Profiles /\ id # ""
    BY ProfileIsOne
  <1>2. found \in DiscoverSetupServer(cs, id)
    OBVIOUS
  <1> HIDE DEF id
  <1>3. Answered(found) /\ found.profile \in {x.profile, id} /\ (Answered(x) => found = x)
    BY <1>1, <1>2, DiscoveryFinds
  <1> QED
    BY <1>1, <1>3 DEF Found

LEMMA AddPickFinds ==
    ASSUME NEW s \in Sessions, NEW o, NEW pick \in AddPicks(s, o)
    PROVE  Found(ParseEntry(sess[s].seen[o[1]][o[2]]).source, pick.source)
  <1> DEFINE x == ParseEntry(sess[s].seen[o[1]][o[2]]).source
             cs == ServerCandidates(o[1], x)
  <1>1. pick.source \in IF x.profile # "" /\ ~Stored(x.profile) THEN {}
                        ELSE DiscoverSetupServer(cs, Profile(s))
    BY PickSource, Zenon DEF AddPicks
  <1>2. IsUpstream(x) /\ OneOrTwo(cs, x)
    BY EntryUpstream, CandidatesOf
  <1> HIDE DEF x, cs
  <1>3. /\ pick.source \in DiscoverSetupServer(cs, Profile(s))
        /\ x.profile # "" => x.profile \in Profiles
    BY <1>1 DEF Stored
  <1>4. Found(x, pick.source)
    BY <1>2, <1>3, DiscoveryFound
  <1> QED
    BY <1>4 DEF x

LEMMA ManualPickFinds ==
    ASSUME Routed, NEW s \in Sessions, NEW c, NEW n, NEW port,
           NEW pick \in ManualPicks(s, c, n, port)
    PROVE  /\ Answered(pick.source)
           /\ pick.source.profile # "" => pick.source.profile \in Profiles
  <1> DEFINE x == scene.typed
             cs == <<x>>
  <1>1. pick.source \in DiscoverSetupServer(cs, Profile(s))
    BY PickSource, Zenon DEF ManualPicks
  <1>2. IsUpstream(x) /\ x.profile = ""
    <2>1. scene \in Scenes
      BY DEF Routed, Shape
    <2>2. x \in Sources /\ x.profile = ""
      BY <2>1, SceneAssumption
    <2> QED
      BY <2>2, SourceIs DEF IsUpstream
  <1>3. OneOrTwo(cs, x)
    BY DEF OneOrTwo
  <1> HIDE DEF x, cs
  <1>4. Found(x, pick.source)
    BY <1>1, <1>2, <1>3, DiscoveryFound
  <1> QED
    BY <1>4 DEF Found

LEMMA AddLoadServes ==
    ASSUME Routed, Kept, Serving, NEW s \in Sessions, AddLoad(s)
    PROVE  Serving'
  <1>1. PICK T : Becomes(s, Loaded("loaded", [o \in T |-> NoPick]))
    BY DEF AddLoad
  <1>2. ~Writing(s) /\ UNCHANGED <<scene, disk, moved, tampered, removed>>
    BY DEF AddLoad, Runs, Writing
  <1> DEFINE picked == [o \in T |-> NoPick]
  <1> HIDE DEF picked
  <1>3. sess'[s].pc = "loaded" /\ \A r \in Sessions : r # s => sess'[r] = sess[r]
    BY <1>1, BecomesIs, LoadedIs DEF Routed, picked
  <1>4. Settles(disk, sess'[s], moved'[s], scene.command[s])
    BY <1>3, SettlesNothing
  <1>5. /\ sess'[s].pc # "writing"
        /\ \A r \in Sessions : r # s => sess'[r] = sess[r] /\ moved'[r] = moved[r]
    BY <1>2, <1>3
  <1> QED
    BY <1>2, <1>4, <1>5, QuietServes

LEMMA AddChooseServes ==
    ASSUME Routed, Kept, Serving, NEW s \in Sessions, AddChoose(s)
    PROVE  Serving'
  <1> DEFINE T == DOMAIN sess[s].picked
             Session(picked) ==
               [sess[s] EXCEPT !.pc = "chosen", !.picked = picked, !.policies = disk.policy]
  <1>1. PICK kept, picked :
           /\ picked \in [kept -> UNION {AddPicks(s, o) : o \in kept}]
           /\ \A o \in kept : picked[o] \in AddPicks(s, o)
           /\ Becomes(s, Session(picked))
    <2>1. \E kept \in (SUBSET T) \ {{}} :
          \E picked \in [kept -> UNION {AddPicks(s, o) : o \in kept}] :
             /\ \A o \in kept : picked[o] \in AddPicks(s, o)
             /\ Becomes(s, Session(picked))
      BY Zenon DEF AddChoose
    <2> HIDE DEF Session
    <2> QED
      BY <2>1
  <1>2. /\ scene.command[s] = "add" /\ ~Writing(s)
        /\ UNCHANGED <<scene, disk, tampered, removed>> /\ \E F : Reads(s, F)
    BY Zenon DEF AddChoose, Runs, Writing
  <1>3. DOMAIN picked = kept
    BY <1>1
  <1> DEFINE chosen == Session(picked)
  <1>4. chosen.pc = "chosen" /\ chosen.picked = picked /\ chosen.seen = sess[s].seen
    BY DEF Routed, Shape, IsSession
  <1> HIDE DEF chosen
  <1>5. /\ sess'[s].pc = "chosen" /\ sess'[s].picked = picked /\ sess'[s].seen = sess[s].seen
        /\ \A r \in Sessions : r # s => sess'[r] = sess[r]
    BY <1>1, <1>4, BecomesIs DEF Routed, chosen
  <1>6. \A o \in kept : Found(ParseEntry(sess[s].seen[o[1]][o[2]]).source, picked[o].source)
    BY <1>1, AddPickFinds
  <1>7. Settles(disk, sess'[s], moved'[s], scene.command[s])
    BY <1>2, <1>3, <1>5, <1>6 DEF Settles
  <1>8. /\ sess'[s].pc # "writing"
        /\ \A r \in Sessions : r # s => sess'[r] = sess[r] /\ moved'[r] = moved[r]
    BY <1>2, <1>5 DEF Reads, Routed, Shape
  <1> QED
    BY <1>2, <1>7, <1>8, QuietServes

LEMMA ManualLoadServes ==
    ASSUME Routed, Kept, Serving, NEW s \in Sessions, ManualLoad(s)
    PROVE  Serving'
  <1>1. /\ scene.command[s] = "manual" /\ ~Writing(s)
        /\ UNCHANGED <<scene, disk, moved, tampered, removed>>
    BY DEF ManualLoad, Runs, Writing
  <1> DEFINE Picked(n, C, pick) == [o \in {<<c, n>> : c \in C} |-> pick[o[1]]]
             Session(n, C, pick) ==
               [Loaded("chosen", Picked(n, C, pick)) EXCEPT !.policies = disk.policy]
  <1>2. PICK n, port, C, pick :
           /\ \A c \in C : pick[c] \in ManualPicks(s, c, n, port)
           /\ Becomes(s, Session(n, C, pick))
    <2>1. \E n \in scene.names, port \in IF UsedPorts = {} THEN Ports ELSE UsedPorts :
          \E C \in SUBSET {c \in scene.files[s] : disk.config[c][n] = NoEntry} :
          \E pick \in [C -> UNION {ManualPicks(s, c, n, port) : c \in C}] :
             /\ \A c \in C : pick[c] \in ManualPicks(s, c, n, port)
             /\ Becomes(s, Session(n, C, pick))
      BY ZenonT(40) DEF ManualLoad
    <2> HIDE DEF Session
    <2> QED
      BY <2>1
  <1> DEFINE picked == Picked(n, C, pick)
             chosen == Session(n, C, pick)
  <1>3. \A o \in DOMAIN picked : o[1] \in C /\ picked[o] = pick[o[1]]
    OBVIOUS
  <1> HIDE DEF picked
  <1>4. chosen.pc = "chosen" /\ chosen.picked = picked
    <2>1. ASSUME NEW p
          PROVE  LET session == [Loaded("chosen", p) EXCEPT !.policies = disk.policy]
                 IN  session.pc = "chosen" /\ session.picked = p
      BY DEF Loaded, Idle
    <2> HIDE DEF Picked
    <2> QED
      BY <2>1 DEF picked
  <1>5. /\ sess'[s] = chosen /\ \A r \in Sessions : r # s => sess'[r] = sess[r]
    BY <1>2, BecomesIs DEF picked, Routed
  <1> HIDE DEF chosen
  <1>6. ASSUME NEW o \in DOMAIN picked
        PROVE  LET src == picked[o].source
               IN  Answered(src) /\ (src.profile # "" => src.profile \in Profiles)
    <2>1. picked[o] \in ManualPicks(s, o[1], n, port)
      BY <1>2, <1>3
    <2> QED
      BY <2>1, ManualPickFinds
  <1>7. Settles(disk, sess'[s], moved'[s], scene.command[s])
    BY <1>1, <1>4, <1>5, <1>6 DEF Settles
  <1>8. /\ sess'[s].pc # "writing"
        /\ \A r \in Sessions : r # s => sess'[r] = sess[r] /\ moved'[r] = moved[r]
    BY <1>1, <1>4, <1>5
  <1> QED
    BY <1>1, <1>7, <1>8, QuietServes

(* What a record puts back is no wrapper, whoever is writing. *)
LEMMA RecordsKept ==
    ASSUME Routed, Kept, Serving, NEW o \in Owners
    PROVE  RecordKeeps(disk, o)
  <1>1. CASE LockFree
    BY <1>1 DEF Serving, Served, Keeps
  <1>2. CASE ~LockFree
    <2>1. PICK s \in Sessions : Writing(s)
      BY <1>2 DEF LockFree, Writing
    <2> DEFINE j == sess[s]
               files == moved[s]
               command == scene.command[s]
               w == World
    <2>2. Works(w, disk, j, files, command) /\ Lands(tampered, removed, disk, j, files, command)
      BY <2>1, WritingIs
    <2> HIDE DEF j, files, command, w
    <2> QED
      BY <2>2, RecordKeptEitherWay
  <1> QED
    BY <1>1, <1>2

LEMMA ChoiceSettles ==
    ASSUME NEW d, NEW c, NEW n, RecordKeeps(d, <<c, n>>), NEW choice \in RestoreChoices(d, c, n)
    PROVE  /\ ManagedPolicy(choice.by.original[n]) = ""
           /\ choice.kind # "route" => IsWrapper(d.config[c][n])
  <1> DEFINE record == d.state[c][n]
             managed == ManagedPolicy(d.config[c][n])
             by == FromRecord(record)
  <1>1. choice \in ChoicesFor(d, c, n, record, managed)
    BY DEF RestoreChoices
  <1>2. record # NoRecord => ManagedPolicy(record.original[n]) = ""
    BY DEF RecordKeeps, Rec
  <1>3. managed # "" => IsWrapper(d.config[c][n])
    BY ManagedIsWrapper
  <1>4. by.original = record.original
    BY DEF FromRecord
  <1> HIDE DEF record, managed, by
  <1>5. \/ choice = [kind |-> "route", by |-> by] /\ record # NoRecord
        \/ choice = [kind |-> "record", by |-> by] /\ record # NoRecord /\ managed # ""
        \/ /\ managed # ""
           /\ \E entry \in LegacyRestoreEntry(d, c, n) : choice = [kind |-> "legacy", by |-> entry]
    BY <1>1 DEF ChoicesFor, by
  <1>6. CASE /\ managed # ""
             /\ \E entry \in LegacyRestoreEntry(d, c, n) :
                   choice = [kind |-> "legacy", by |-> entry]
    <2>1. PICK entry \in LegacyRestoreEntry(d, c, n) : choice = [kind |-> "legacy", by |-> entry]
      BY <1>6
    <2>2. ManagedPolicy(entry.original[n]) = ""
      BY <2>1, LegacyIsUnmanaged
    <2>3. choice.by = entry /\ choice.kind = "legacy"
      BY <2>1
    <2> QED
      BY <1>3, <1>6, <2>2, <2>3
  <1>7. CASE choice = [kind |-> "route", by |-> by] /\ record # NoRecord
    BY <1>2, <1>4, <1>7
  <1>8. CASE choice = [kind |-> "record", by |-> by] /\ record # NoRecord /\ managed # ""
    BY <1>2, <1>3, <1>4, <1>8
  <1> QED
    BY <1>5, <1>6, <1>7, <1>8

LEMMA RestoreLoadServes ==
    ASSUME Routed, Kept, Serving, NEW s \in Sessions, RestoreLoad(s)
    PROVE  Serving'
  <1> DEFINE Choice(o) == CHOOSE choice \in RestoreChoices(disk, o[1], o[2]) : TRUE
             Picked(T) == [o \in T |-> [NoPick EXCEPT !.kind = Choice(o).kind, !.by = Choice(o).by]]
             Session(T, missing) == [Loaded("chosen", Picked(T)) EXCEPT !.missing = missing]
  <1>1. /\ scene.command[s] = "restore" /\ ~Writing(s)
        /\ UNCHANGED <<scene, disk, moved, tampered, removed>>
    BY DEF RestoreLoad, Runs, Writing
  <1>2. PICK T \in SUBSET Owners, missing \in SUBSET Owners :
           /\ \A o \in T : RestoreChoices(disk, o[1], o[2]) # {}
           /\ Becomes(s, Session(T, missing))
    <2>1. \E T \in (SUBSET {o \in Owners : /\ o[1] \in scene.files[s]
                                           /\ RestoreChoices(disk, o[1], o[2]) # {}}) \ {{}} :
             Becomes(s, Session(T, {o \in T : disk.route[o] = NoRoute}))
      BY Zenon DEF RestoreLoad
    <2> HIDE DEF Session
    <2> QED
      BY <2>1
  <1> DEFINE picked == Picked(T)
             chosen == Session(T, missing)
  <1>3. ASSUME NEW o \in T
        PROVE  /\ ManagedPolicy(picked[o].by.original[o[2]]) = ""
               /\ picked[o].kind # "route" => IsWrapper(Entry(disk, o))
    <2> DEFINE choice == Choice(o)
               blank == FromBackup([m \in Names |-> NoEntry])
    <2>1. choice \in RestoreChoices(disk, o[1], o[2])
      BY <1>2
    <2> HIDE DEF choice, blank
    <2>2. NoPick = [kind |-> "", by |-> blank, from |-> "", policy |-> NoFile, source |-> NoSource,
                    port |-> "", save |-> FALSE]
      BY DEF NoPick, blank
    <2>3. picked[o] = [NoPick EXCEPT !.kind = choice.kind, !.by = choice.by]
      BY DEF choice
    <2>4. ASSUME NEW item, NEW kind, NEW by, item = [NoPick EXCEPT !.kind = kind, !.by = by]
          PROVE  item.kind = kind /\ item.by = by
      BY <2>2, <2>4
    <2>5. picked[o].kind = choice.kind /\ picked[o].by = choice.by
      <3> HIDE DEF picked
      <3> QED
        BY <2>3, <2>4
    <2>6. o = <<o[1], o[2]>> /\ RecordKeeps(disk, o)
      BY RecordsKept DEF Owners
    <2>7. /\ ManagedPolicy(choice.by.original[o[2]]) = ""
          /\ choice.kind # "route" => IsWrapper(disk.config[o[1]][o[2]])
      BY <2>1, <2>6, ChoiceSettles
    <2> QED
      BY <2>5, <2>7 DEF Entry
  <1>4. DOMAIN picked = T
    OBVIOUS
  <1> HIDE DEF picked
  <1>5. chosen.pc = "chosen" /\ chosen.picked = picked
    <2>1. ASSUME NEW p
          PROVE  LET session == [Loaded("chosen", p) EXCEPT !.missing = missing]
                 IN  session.pc = "chosen" /\ session.picked = p
      BY DEF Loaded, Idle
    <2> HIDE DEF Picked
    <2> QED
      BY <2>1 DEF picked
  <1>6. /\ sess'[s] = chosen /\ \A r \in Sessions : r # s => sess'[r] = sess[r]
    BY <1>2, BecomesIs DEF picked, Routed
  <1> HIDE DEF chosen
  <1>7. Settles(disk, sess'[s], moved'[s], scene.command[s])
    BY <1>1, <1>3, <1>4, <1>5, <1>6 DEF Settles
  <1>8. /\ sess'[s].pc # "writing"
        /\ \A r \in Sessions : r # s => sess'[r] = sess[r] /\ moved'[r] = moved[r]
    BY <1>1, <1>5, <1>6
  <1> QED
    BY <1>1, <1>7, <1>8, QuietServes

-----------------------------------------------------------------------------
(* What clients start and the gateway serves can run, always.              *)

LEMMA InitServing == Init => Serving
  <1> SUFFICES ASSUME Init PROVE Serving
    OBVIOUS
  <1>1. /\ scene \in Scenes /\ disk.config = scene.entries /\ removed = {}
        /\ disk.state = [c \in Configs |-> [n \in Names |-> NoRecord]]
        /\ disk.route = [o \in Owners |-> NoRoute] /\ sess = [s \in Sessions |-> Idle]
    BY DEF Init
  <1>2. ASSUME NEW o \in Owners
        PROVE  Fits(removed, disk, o) /\ Keeps(removed, disk, o)
    <2>1. Entry(disk, o) \in Hands(scene)
      BY <1>1 DEF Hands, Entry
    <2>2. ~IsWrapper(Entry(disk, o))
      BY <1>1, <2>1, SceneAssumption
    <2>3. ~Managing(disk, o)
      BY <2>2, ManagedIsWrapper DEF Managing
    <2>4. Rec(disk, o) = NoRecord
      <3>1. o[1] \in Configs /\ o[2] \in Names
        BY OwnerParts
      <3>2. disk.state[o[1]][o[2]] = NoRecord
        <4> HIDE DEF NoRecord
        <4> QED
          BY <1>1, <3>1
      <3> QED
        BY <3>2 DEF Rec
    <2>5. disk.route[o] = NoRoute
      <3> HIDE DEF NoRoute
      <3> QED
        BY <1>1
    <2> QED
      BY <2>3, <2>4, <2>5 DEF Fits, Keeps, RouteRuns, RecordKeeps, OnRecord
  <1>3. ASSUME NEW s \in Sessions
        PROVE  ~Writing(s) /\ Settles(disk, sess[s], moved[s], scene.command[s])
    <2>1. sess[s].pc = "start"
      BY <1>1 DEF Idle
    <2> QED
      BY <2>1, SettlesNothing DEF Writing
  <1> QED
    BY <1>2, <1>3 DEF Serving, Served

LEMMA NextServes ==
    ASSUME Routed, Kept, Serving, Next
    PROVE  Serving'
  <1>1. ASSUME NEW s \in Sessions, Next1(s)
        PROVE  Serving'
    <2>1. CASE AddLoad(s)
      BY <2>1, AddLoadServes
    <2>2. CASE AddChoose(s)
      BY <2>2, AddChooseServes
    <2>3. CASE ManualLoad(s)
      BY <2>3, ManualLoadServes
    <2>4. CASE RestoreLoad(s)
      BY <2>4, RestoreLoadServes
    <2>5. CASE AddPlan(s) \/ ManualPlan(s) \/ RestorePlan(s)
      BY <2>5, PlansServe
    <2>6. CASE Cancel(s)
      BY <2>6, QuitServes DEF Cancel, Writing
    <2>7. CASE Refused(s)
      BY <2>7, QuitServes DEF Refused, LockFree, Writing
    <2>8. CASE Write(s)
      BY <2>8, WriteServes
    <2>9. CASE Finish(s)
      BY <2>9, FinishKeepsServing
    <2>10. CASE Fail(s)
      BY <2>10, RollBackKeepsServing DEF Fail
    <2> QED
      BY <1>1, <2>1, <2>2, <2>3, <2>4, <2>5, <2>6, <2>7, <2>8, <2>9, <2>10 DEF Next1
  <1>2. ASSUME NEW s \in Sessions, Abort(s)
        PROVE  Serving'
    BY <1>2, RollBackKeepsServing DEF Abort
  <1>3. ASSUME NEW s \in Sessions, Crash(s)
        PROVE  Serving'
    BY <1>3, CrashServes
  <1>4. ASSUME NEW o \in Owners, UserReplaces(o) \/ UserTweaks(o)
        PROVE  Serving'
    BY <1>4, UserReplacesServes, UserTweaksServes
  <1>5. ASSUME NEW p \in Paths, UserPolicy(p)
        PROVE  Serving'
    BY <1>5, UserPolicyServes
  <1> QED
    BY <1>1, <1>2, <1>3, <1>4, <1>5 DEF Next

LEMMA StutterServes ==
    ASSUME Kept, Serving, UNCHANGED vars
    PROVE  Serving'
  <1>1. UNCHANGED <<scene, disk, sess, moved, tampered, removed>>
    BY DEF vars
  <1>2. LockFree' => Served(tampered', removed', disk')
    BY <1>1 DEF LockFree, Serving
  <1>3. ASSUME NEW r \in Sessions
        PROVE  ServesOn(r)
    BY <1>1 DEF ServesOn, Serving, Writing
  <1> QED
    BY <1>1, <1>2, <1>3, ServingStays

LEMMA AlwaysServing == Spec => [](Routed /\ Kept /\ Serving)
  <1>1. Init => Serving
    BY InitServing
  <1>2. Routed /\ Kept /\ Serving /\ [Next]_vars => Serving'
    BY NextServes, StutterServes
  <1> QED
    BY <1>1, <1>2, AlwaysKept, PTL DEF Spec

(* Whoever is writing, every wrapper and every route on record is served. *)
LEMMA AllServed ==
    ASSUME Routed, Kept, Serving
    PROVE  Served(tampered, removed, disk)
  <1>1. CASE LockFree
    BY <1>1 DEF Serving
  <1>2. CASE ~LockFree
    <2>1. PICK s \in Sessions : Writing(s)
      BY <1>2 DEF LockFree, Writing
    <2> DEFINE j == sess[s]
               files == moved[s]
               command == scene.command[s]
               w == World
    <2>2. /\ Works(w, disk, j, files, command) /\ j.written \subseteq j.files
          /\ Lands(tampered, removed, disk, j, files, command)
      BY <2>1, WritingIs
    <2> HIDE DEF j, files, command, w
    <2> QED
      BY <2>2, LandsServe
  <1> QED
    BY <1>1, <1>2

LEMMA ServedIsRunnable ==
    ASSUME Served(tampered, removed, disk)
    PROVE  Runnable
  <1> SUFFICES ASSUME NEW line \in CommandLines, line.policy # ""
               PROVE  \E p : /\ p = line.policy /\ Serves(removed, disk, p, line.source)
    BY DEF Runnable, Serves, Present, Has, Stored
  <1>1. CASE \E o \in Owners \ tampered : line = ParseEntry(disk.config[o[1]][o[2]])
    <2>1. PICK o \in Owners \ tampered : line = ParseEntry(Entry(disk, o))
      BY <1>1 DEF Entry
    <2>2. Fits(removed, disk, o)
      BY <2>1 DEF Served
    <2> QED
      BY <2>1, <2>2 DEF Fits, Managing, ManagedPolicy, Upstream
  <1>2. CASE \E o \in RoutesOnRecord : line = ParseManagedWrapper(disk.route[o].args)
    <2>1. PICK o \in RoutesOnRecord : line = RouteLine(disk, o)
      BY <1>2 DEF RouteLine
    <2>2. o \in Owners /\ OnRecord(disk, o)
      BY <2>1 DEF RoutesOnRecord, OnRecord, Rec
    <2>3. RouteRuns(removed, disk, o)
      BY <2>2 DEF Served, Keeps
    <2> QED
      BY <2>1, <2>2, <2>3 DEF RouteRuns
  <1> QED
    BY <1>1, <1>2 DEF CommandLines

(* At every moment, with two setups, restores and edits by hand in any order,  *)
(* after every crash and rollback: the policy and the profile that an entry    *)
(* names are there when a client starts it, and those that a route on record   *)
(* names when the gateway does.                                                *)
THEOREM NothingDangles == Spec => []Runnable
  <1>1. Routed /\ Kept /\ Serving => Runnable
    BY AllServed, ServedIsRunnable
  <1> QED
    BY <1>1, AlwaysServing, PTL

-----------------------------------------------------------------------------
(* The user's entries come back.                                           *)

(* Beside the record r and the route rt, restore is offered for the entry e of *)
(* owner o, and puts u back.                                                   *)
PutsBack(u, o, e, r, rt) ==
    /\ r # NoRecord /\ r.original[o[2]] = u /\ (u # NoEntry \/ r.created)
    /\ r.installed[o[2]] = e
    /\ \/ ManagedPolicy(e) # "" /\ r.path = ManagedPolicy(e)
       \/ /\ r.created /\ r.route # NoRoute /\ e = HttpEntry(r.route.port, o)
          /\ rt \in {NoRoute, r.route}

Safe(T, u, o, e, r, rt) == o \in T \/ e = u \/ PutsBack(u, o, e, r, rt)

(* Setup installs wrappers and entries of the gateway's. *)
Sealed(o, r) ==
    \/ r = NoRecord \/ IsWrapper(r.installed[o[2]])
    \/ \E port \in Ports : r.installed[o[2]] = HttpEntry(port, o)

Returns(T, w, d, o) ==
    Safe(T, w[o], o, Entry(d, o), Rec(d, o), d.route[o]) /\ Sealed(o, Rec(d, o))

(* While session j writes: the entry e is there before the session replaces it, *)
(* beside what it replaces first, ... *)
Waits(T, u, j, o, e, command) ==
    \A rt \in {j.before.route[o], j.after.route[o]} :
        /\ Safe(T, u, o, e, Rec(j.before, o), rt)
        /\ command # "restore" => Safe(T, u, o, e, Rec(j.after, o), rt)

(* ... or it has come in its place, before what the session replaces last. *)
Holds(T, u, j, o, e, command) ==
    /\ Safe(T, u, o, e, Rec(j.after, o), j.after.route[o])
    /\ command = "restore" => Safe(T, u, o, e, Rec(j.before, o), j.after.route[o])

Brings(T, w, d, j, files, command, o) ==
    /\ Sealed(o, Rec(j.before, o)) /\ Sealed(o, Rec(j.after, o))
    /\ o \notin DOMAIN j.picked => j.after.route[o] = j.before.route[o]
    /\ IF ConfigFile(o[1]) \in j.written THEN Holds(T, w[o], j, o, Entry(d, o), command)
       ELSE Waits(T, w[o], j, o, Entry(d, o), command)
    /\ ConfigFile(o[1]) \in j.written \ files =>
          Safe(T \union j.healed, w[o], o, Entry(j.before, o), Rec(j.before, o), j.before.route[o])
    /\ ConfigFile(o[1]) \in j.files \ (j.written \union files) =>
          Holds(T \ j.healed, w[o], j, o, Entry(j.after, o), command)

(* A command line that is no wrapper's. *)
Direct(x) == x.kind = "stdio" /\ x.target # <<>> => x.target[1] # Command

(* What a session has chosen. *)
Claims(T, j, files, command) ==
    /\ command \in {"add", "manual"} /\ j.pc = "chosen" =>
         \A o \in DOMAIN j.picked : Direct(j.picked[o].source)
    /\ command = "restore" /\ j.pc = "chosen" =>
         \A o \in DOMAIN j.picked :
            j.picked[o].kind = "legacy" /\ ConfigFile(o[1]) \notin files => o \in T

Redeemable ==
    /\ LockFree => \A o \in Owners : Returns(tampered, own, disk, o)
    /\ \A s \in Sessions :
          /\ Writing(s) => \A o \in Owners :
                Brings(tampered, own, disk, sess[s], moved[s], scene.command[s], o)
          /\ Claims(tampered, sess[s], moved[s], scene.command[s])

LEMMA SafeGrows ==
    ASSUME NEW T, NEW U, NEW u, NEW o, NEW e, NEW r, NEW rt, Safe(T, u, o, e, r, rt),
           o \in T => o \in U
    PROVE  Safe(U, u, o, e, r, rt)
  BY DEF Safe

LEMMA WaitsGrow ==
    ASSUME NEW T, NEW U, NEW u, NEW j, NEW o, NEW e, NEW command, o \in T => o \in U
    PROVE  /\ Waits(T, u, j, o, e, command) => Waits(U, u, j, o, e, command)
           /\ Holds(T, u, j, o, e, command) => Holds(U, u, j, o, e, command)
  BY SafeGrows DEF Waits, Holds

(* What is beside an entry while a session writes. *)
LEMMA BesideAnEntry ==
    ASSUME NEW w, NEW T, NEW R, NEW d, NEW j, NEW files, NEW command,
           Works(w, d, j, files, command), Lands(T, R, d, j, files, command),
           j.written \subseteq j.files, NEW o \in Owners
    PROVE  /\ ConfigFile(o[1]) \in j.written =>
                /\ d.route[o] = j.after.route[o]
                /\ \/ Rec(d, o) = Rec(j.after, o)
                   \/ command = "restore" /\ Rec(d, o) = Rec(j.before, o)
           /\ ConfigFile(o[1]) \notin j.written =>
                /\ d.route[o] \in {j.before.route[o], j.after.route[o]}
                /\ \/ Rec(d, o) = Rec(j.before, o)
                   \/ command # "restore" /\ Rec(d, o) = Rec(j.after, o)
  <1> DEFINE f == ConfigFile(o[1])
             g == StateFile(o[1])
             h == RouteFile(o)
  <1>1. /\ Rec(d, o) = IF g \in j.written THEN Rec(j.after, o) ELSE Rec(j.before, o)
        /\ g \notin j.files => Rec(j.after, o) = Rec(j.before, o)
    BY RecordsLand
  <1>2. /\ d.route[o] = IF h \in j.written THEN j.after.route[o] ELSE j.before.route[o]
        /\ h \notin j.files => j.after.route[o] = j.before.route[o]
    <2>1. RouteLands(d, j, files, o)
      BY Landing
    <2> QED
      BY <2>1 DEF RouteLands, Side
  <1>3. o \notin DOMAIN j.picked => Rec(j.after, o) = Rec(j.before, o)
    BY Unpicked
  <1>4. o \in DOMAIN j.picked => f \in j.files
    BY Unpicked
  <1>5. InSequence(j, command)
    BY Landing
  <1>6. CASE command # "restore"
    <2>1. f \in j.written => /\ h \in j.files => h \in j.written
                             /\ g \in j.files => g \in j.written
      BY <1>5, <1>6, SetupSequence
    <2> HIDE DEF f, g, h
    <2> QED
      BY <1>1, <1>2, <1>6, <2>1 DEF f
  <1>7. CASE command = "restore"
    <2>1. InSequence(j, "restore")
      BY <1>5, <1>7
    <2>2. f \in j.written => (h \in j.files => h \in j.written)
      <3>1. RestoreRank[f[1]] = 2 /\ RestoreRank[h[1]] = 1
        BY DEF RestoreRank, RouteFile, ConfigFile, File
      <3>2. ~(RestoreRank[f[1]] <= RestoreRank[h[1]])
        BY <3>1
      <3> HIDE DEF f, h
      <3> QED
        BY <2>1, <3>2 DEF InSequence, Rank
    <2>3. g \in j.written /\ f \notin j.written => Rec(j.after, o) = Rec(j.before, o)
      <3>1. g \in j.written => (f \in j.files => f \in j.written)
        BY <2>1, RestoreSequence
      <3> HIDE DEF f, g
      <3> QED
        BY <1>3, <1>4, <3>1
    <2> HIDE DEF f, g, h
    <2> QED
      BY <1>1, <1>2, <1>7, <2>2, <2>3 DEF f
  <1> QED
    BY <1>6, <1>7

LEMMA BringsReturns ==
    ASSUME NEW v, NEW T, NEW R, NEW d, NEW j, NEW files, NEW command,
           Works(v, d, j, files, command), Lands(T, R, d, j, files, command),
           j.written \subseteq j.files, NEW o \in Owners,
           NEW w, Brings(T, w, d, j, files, command, o)
    PROVE  Returns(T, w, d, o)
  <1> DEFINE f == ConfigFile(o[1])
             rec == Rec(d, o)
             rt == d.route[o]
             e == Entry(d, o)
  <1>1. /\ f \in j.written =>
             /\ rt = j.after.route[o]
             /\ rec = Rec(j.after, o) \/ (command = "restore" /\ rec = Rec(j.before, o))
        /\ f \notin j.written =>
             /\ rt \in {j.before.route[o], j.after.route[o]}
             /\ rec = Rec(j.before, o) \/ (command # "restore" /\ rec = Rec(j.after, o))
    BY BesideAnEntry
  <1>2. Sealed(o, Rec(j.before, o)) /\ Sealed(o, Rec(j.after, o))
    BY DEF Brings
  <1>3. IF f \in j.written THEN Holds(T, w[o], j, o, e, command)
        ELSE Waits(T, w[o], j, o, e, command)
    BY DEF Brings
  <1> HIDE DEF f, rec, rt, e
  <1>4. Sealed(o, rec)
    BY <1>1, <1>2
  <1>5. Safe(T, w[o], o, e, rec, rt)
    <2>1. CASE f \in j.written
      BY <1>1, <1>3, <2>1 DEF Holds
    <2>2. CASE f \notin j.written
      BY <1>1, <1>3, <2>2 DEF Waits
    <2> QED
      BY <2>1, <2>2
  <1> QED
    BY <1>4, <1>5 DEF Returns, rec, rt, e

-----------------------------------------------------------------------------
(* A file is written, or goes back.                                        *)

LEMMA SameSides ==
    ASSUME NEW T, NEW u, NEW j, NEW k, k.before = j.before, k.after = j.after,
           NEW o, NEW e, NEW command
    PROVE  /\ Waits(T, u, j, o, e, command) => Waits(T, u, k, o, e, command)
           /\ Holds(T, u, j, o, e, command) => Holds(T, u, k, o, e, command)
  BY DEF Waits, Holds

(* Session j has written file f, and is k: disk d is x, and T is U. *)
Puts(T, U, d, x, j, k, files, f) ==
    /\ f \in j.files /\ f \notin files /\ f \notin j.written
    /\ x = Copy(d, {f}, j.after) /\ Wrote(j, k, f) /\ k.healed = j.healed
    /\ \A o \in T : o \in U \/ (o \in j.healed /\ f = ConfigFile(o[1]))

LEMMA WriteBrings ==
    ASSUME NEW v, NEW T, NEW d, NEW j, NEW files, NEW command,
           Works(v, d, j, files, command), IsDisk(d), NEW o \in Owners,
           NEW w, Brings(T, w, d, j, files, command, o),
           NEW U, NEW x, NEW k, NEW f, Puts(T, U, d, x, j, k, files, f)
    PROVE  Brings(U, w, x, k, files, command, o)
  <1> DEFINE F == ConfigFile(o[1])
  <1>0. /\ f \in j.files /\ f \notin files /\ f \notin j.written
        /\ x = Copy(d, {f}, j.after) /\ Wrote(j, k, f) /\ k.healed = j.healed
        /\ o \in T => o \in U \/ (o \in j.healed /\ f = ConfigFile(o[1]))
    BY DEF Puts
  <1>1. /\ k.before = j.before /\ k.after = j.after /\ k.picked = j.picked
        /\ k.files = j.files /\ k.written = j.written \union {f}
    BY <1>0 DEF Wrote
  <1>2. Entry(x, o) = IF F = f THEN Entry(j.after, o) ELSE Entry(d, o)
    BY <1>0, CopyEntries
  <1>3. /\ o \in T \ j.healed => o \in U
        /\ o \in T => o \in U \union k.healed
        /\ F # f => (o \in T => o \in U)
    BY <1>0
  <1>4. /\ Sealed(o, Rec(j.before, o)) /\ Sealed(o, Rec(j.after, o))
        /\ o \notin DOMAIN j.picked => j.after.route[o] = j.before.route[o]
        /\ F \in j.written => Holds(T, w[o], j, o, Entry(d, o), command)
        /\ F \notin j.written => Waits(T, w[o], j, o, Entry(d, o), command)
        /\ F \in j.written \ files =>
              Safe(T \union j.healed, w[o], o, Entry(j.before, o), Rec(j.before, o),
                   j.before.route[o])
        /\ F \in j.files \ (j.written \union files) =>
              Holds(T \ j.healed, w[o], j, o, Entry(j.after, o), command)
    BY DEF Brings
  <1>5. F = f => Entry(d, o) = Entry(j.before, o)
    <2>1. ConfigLands(d, j, files, o[1])
      BY DEF Works, Owners
    <2> QED
      BY <1>0, <2>1 DEF ConfigLands, Entry
  <1> HIDE DEF F
  <1>6. CASE F = f
    <2>1. Holds(T \ j.healed, w[o], j, o, Entry(x, o), command)
      BY <1>0, <1>2, <1>4, <1>6
    <2>2. Holds(U, w[o], k, o, Entry(x, o), command)
      BY <1>0, <1>1, <1>3, <2>1, WaitsGrow, SameSides
    <2>3. Waits(T, w[o], j, o, Entry(j.before, o), command)
      BY <1>0, <1>4, <1>5, <1>6
    <2>4. Safe(T, w[o], o, Entry(j.before, o), Rec(j.before, o), j.before.route[o])
      BY <2>3 DEF Waits
    <2>5. Safe(U \union k.healed, w[o], o, Entry(k.before, o), Rec(k.before, o), k.before.route[o])
      BY <1>0, <1>1, <1>3, <2>4, SafeGrows
    <2> QED
      BY <1>0, <1>1, <1>4, <1>6, <2>2, <2>5 DEF Brings, F
  <1>7. CASE F # f
    <2>1. F \in k.written => Holds(U, w[o], k, o, Entry(x, o), command)
      BY <1>0, <1>1, <1>2, <1>3, <1>4, <1>7, WaitsGrow, SameSides
    <2>2. F \notin k.written => Waits(U, w[o], k, o, Entry(x, o), command)
      BY <1>0, <1>1, <1>2, <1>3, <1>4, <1>7, WaitsGrow, SameSides
    <2>3. o \in T \union j.healed => o \in U \union k.healed
      BY <1>0, <1>3
    <2>4. F \in k.written \ files =>
            Safe(U \union k.healed, w[o], o, Entry(k.before, o), Rec(k.before, o),
                 k.before.route[o])
      BY <1>0, <1>1, <1>4, <1>7, <2>3, SafeGrows
    <2>5. o \in T \ j.healed => o \in U \ k.healed
      BY <1>0, <1>3
    <2>6. F \in k.files \ (k.written \union files) =>
            Holds(U \ k.healed, w[o], k, o, Entry(k.after, o), command)
      BY <1>0, <1>1, <1>4, <1>7, <2>5, WaitsGrow, SameSides
    <2> QED
      BY <1>0, <1>1, <1>4, <2>1, <2>2, <2>4, <2>6 DEF Brings, F
  <1> QED
    BY <1>6, <1>7

(* Session j takes back what it may: disk d is x, and T is U. *)
Undoes(T, U, d, x, j, files) ==
    /\ x = Copy(d, j.written \ files, j.before)
    /\ U = T \union j.healed \union (IF j.written \cap files = {} THEN {}
                                     ELSE DOMAIN j.picked)

LEMMA RollBackReturns ==
    ASSUME NEW v, NEW T, NEW R, NEW d, NEW j, NEW files, NEW command,
           Works(v, d, j, files, command), Lands(T, R, d, j, files, command), IsDisk(d),
           j.written \subseteq j.files, NEW o \in Owners,
           NEW w, Brings(T, w, d, j, files, command, o),
           NEW U, NEW x, Undoes(T, U, d, x, j, files)
    PROVE  Returns(U, w, x, o)
  <1>0. /\ x = Copy(d, j.written \ files, j.before)
        /\ U = T \union j.healed \union (IF j.written \cap files = {} THEN {}
                                         ELSE DOMAIN j.picked)
    BY DEF Undoes
  <1> DEFINE F == ConfigFile(o[1])
             b == j.before
  <1>1. Rec(x, o) = Rec(b, o)
    <2>1. /\ Rec(d, o) = IF StateFile(o[1]) \in j.written THEN Rec(j.after, o) ELSE Rec(b, o)
          /\ StateFile(o[1]) \notin files
      BY RecordsLand
    <2>2. Rec(x, o) = IF StateFile(o[1]) \in j.written \ files THEN Rec(b, o) ELSE Rec(d, o)
      BY <1>0, CopyEntries
    <2> QED
      BY <2>1, <2>2
  <1>2. x.route[o] = b.route[o]
    <2>1. RouteLands(d, j, files, o)
      BY Landing
    <2>2. x.route[o] = IF RouteFile(o) \in j.written \ files THEN b.route[o] ELSE d.route[o]
      BY <1>0, CopyRest
    <2> QED
      BY <2>1, <2>2 DEF RouteLands, Side
  <1>3. Entry(x, o) = IF F \in j.written \ files THEN Entry(b, o) ELSE Entry(d, o)
    BY <1>0, CopyEntries
  <1>4. /\ Sealed(o, Rec(b, o))
        /\ o \notin DOMAIN j.picked => j.after.route[o] = b.route[o]
        /\ F \in j.written => Holds(T, w[o], j, o, Entry(d, o), command)
        /\ F \notin j.written => Waits(T, w[o], j, o, Entry(d, o), command)
        /\ F \in j.written \ files =>
              Safe(T \union j.healed, w[o], o, Entry(b, o), Rec(b, o), b.route[o])
    BY DEF Brings
  <1>5. o \notin DOMAIN j.picked => Rec(j.after, o) = Rec(b, o)
    BY Unpicked
  <1>6. F \in j.written \cap files => (o \in DOMAIN j.picked => o \in U)
    BY <1>0
  <1>7. o \in T \union j.healed => o \in U
    BY <1>0
  <1> HIDE DEF F, b
  <1>8. Safe(U, w[o], o, Entry(x, o), Rec(b, o), b.route[o])
    <2>1. CASE F \in j.written \ files
      BY <1>3, <1>4, <1>7, <2>1, SafeGrows
    <2>2. CASE F \in j.written \cap files
      <3>1. CASE o \in DOMAIN j.picked
        BY <1>6, <2>2, <3>1 DEF Safe
      <3>2. CASE o \notin DOMAIN j.picked
        <4>1. Safe(T, w[o], o, Entry(d, o), Rec(j.after, o), j.after.route[o])
          BY <1>4, <2>2 DEF Holds
        <4> QED
          BY <1>3, <1>4, <1>5, <1>7, <2>2, <3>2, <4>1, SafeGrows
      <3> QED
        BY <3>1, <3>2
    <2>3. CASE F \notin j.written
      <3>1. Safe(T, w[o], o, Entry(d, o), Rec(b, o), b.route[o])
        BY <1>4, <2>3 DEF Waits, b
      <3> QED
        BY <1>3, <1>7, <2>3, <3>1, SafeGrows
    <2> QED
      BY <2>1, <2>2, <2>3
  <1> QED
    BY <1>1, <1>2, <1>4, <1>8 DEF Returns

-----------------------------------------------------------------------------
(* The user gives a server another entry.                                  *)

(* Disk x is d but for the entry of owner q, which the user gave it or is in U. *)
Handed(T, U, w, v, d, x, q) ==
    /\ x.route = d.route /\ \A o \in Owners : Rec(x, o) = Rec(d, o)
    /\ \A o \in Owners : o # q =>
          Entry(x, o) = Entry(d, o) /\ v[o] = w[o] /\ (o \in T => o \in U)
    /\ q \in U \/ Entry(x, q) = v[q]

LEMMA HandedReturns ==
    ASSUME NEW T, NEW U, NEW w, NEW v, NEW d, NEW x, NEW q, Handed(T, U, w, v, d, x, q),
           NEW o \in Owners, Returns(T, w, d, o)
    PROVE  Returns(U, v, x, o)
  <1>1. CASE o = q
    BY <1>1 DEF Handed, Returns, Safe
  <1>2. CASE o # q
    BY <1>2, SafeGrows DEF Handed, Returns
  <1> QED
    BY <1>1, <1>2

LEMMA HandedBrings ==
    ASSUME NEW T, NEW U, NEW w, NEW v, NEW d, NEW x, NEW q, Handed(T, U, w, v, d, x, q),
           NEW j, NEW files, NEW command, NEW o \in Owners,
           Brings(T, w, d, j, files, command, o),
           NEW more, more = files \union {ConfigFile(q[1])}
    PROVE  Brings(U, v, x, j, more, command, o)
  <1> DEFINE F == ConfigFile(o[1])
  <1>1. /\ Sealed(o, Rec(j.before, o)) /\ Sealed(o, Rec(j.after, o))
        /\ o \notin DOMAIN j.picked => j.after.route[o] = j.before.route[o]
        /\ F \in j.written => Holds(T, w[o], j, o, Entry(d, o), command)
        /\ F \notin j.written => Waits(T, w[o], j, o, Entry(d, o), command)
        /\ F \in j.written \ files =>
              Safe(T \union j.healed, w[o], o, Entry(j.before, o), Rec(j.before, o),
                   j.before.route[o])
        /\ F \in j.files \ (j.written \union files) =>
              Holds(T \ j.healed, w[o], j, o, Entry(j.after, o), command)
    BY DEF Brings
  <1>2. o = q => F \in more
    OBVIOUS
  <1>3. F \notin more => F \notin files
    OBVIOUS
  <1>4. o # q => Entry(x, o) = Entry(d, o) /\ v[o] = w[o] /\ (o \in T => o \in U)
    BY DEF Handed
  <1>5. o = q => o \in U \/ Entry(x, o) = v[o]
    BY DEF Handed
  <1> HIDE DEF F
  <1>6. CASE o = q
    <2>1. /\ Holds(U, v[o], j, o, Entry(x, o), command)
          /\ Waits(U, v[o], j, o, Entry(x, o), command)
      BY <1>5, <1>6 DEF Holds, Waits, Safe
    <2> QED
      BY <1>1, <1>2, <1>6, <2>1 DEF Brings, F
  <1>7. CASE o # q
    <2>1. /\ F \in j.written => Holds(U, v[o], j, o, Entry(x, o), command)
          /\ F \notin j.written => Waits(U, v[o], j, o, Entry(x, o), command)
      BY <1>1, <1>4, <1>7, WaitsGrow
    <2>2. F \in j.written \ more =>
            Safe(U \union j.healed, v[o], o, Entry(j.before, o), Rec(j.before, o),
                 j.before.route[o])
      <3>1. o \in T \union j.healed => o \in U \union j.healed
        BY <1>4, <1>7
      <3> QED
        BY <1>1, <1>3, <1>4, <1>7, <3>1, SafeGrows
    <2>3. F \in j.files \ (j.written \union more) =>
            Holds(U \ j.healed, v[o], j, o, Entry(j.after, o), command)
      <3>1. o \in T \ j.healed => o \in U \ j.healed
        BY <1>4, <1>7
      <3> QED
        BY <1>1, <1>3, <1>4, <1>7, <3>1, WaitsGrow
    <2> QED
      BY <1>1, <2>1, <2>2, <2>3 DEF Brings, F
  <1> QED
    BY <1>6, <1>7

-----------------------------------------------------------------------------
(* A plan is begun.                                                        *)

LEMMA PlanBrings ==
    ASSUME NEW T, NEW U, NEW w, NEW b, NEW o \in Owners, Returns(T, w, b, o),
           o \in T => o \in U, NEW k, k.before = b, k.written = {}, NEW x,
           Entry(x, o) = Entry(b, o), NEW command,
           IF o \in DOMAIN k.picked
           THEN /\ Waits(U, w[o], k, o, Entry(b, o), command)
                /\ Holds(U \ k.healed, w[o], k, o, Entry(k.after, o), command)
                /\ Sealed(o, Rec(k.after, o))
           ELSE /\ Entry(k.after, o) = Entry(b, o) /\ Rec(k.after, o) = Rec(b, o)
                /\ k.after.route[o] = b.route[o] /\ o \notin k.healed
    PROVE  Brings(U, w, x, k, {}, command, o)
  <1>1. Sealed(o, Rec(b, o)) /\ Safe(U, w[o], o, Entry(b, o), Rec(b, o), b.route[o])
    BY SafeGrows DEF Returns
  <1>2. CASE o \in DOMAIN k.picked
    BY <1>1, <1>2 DEF Brings
  <1>3. CASE o \notin DOMAIN k.picked
    <2>1. Safe(U \ k.healed, w[o], o, Entry(b, o), Rec(b, o), b.route[o])
      BY <1>1, <1>3, SafeGrows
    <2>2. /\ Rec(k.before, o) = Rec(b, o) /\ Rec(k.after, o) = Rec(b, o)
          /\ k.before.route[o] = b.route[o] /\ k.after.route[o] = b.route[o]
          /\ Entry(k.after, o) = Entry(b, o)
      BY <1>3
    <2>3. /\ Waits(U, w[o], k, o, Entry(b, o), command)
          /\ Holds(U \ k.healed, w[o], k, o, Entry(k.after, o), command)
      BY <1>1, <2>1, <2>2 DEF Waits, Holds
    <2> QED
      BY <1>1, <1>3, <2>2, <2>3 DEF Brings
  <1> QED
    BY <1>2, <1>3

(* An entry that setup installs is none of the user's. *)
LEMMA SealedIsSetups ==
    ASSUME Routed, NEW o \in Owners, NEW r, Sealed(o, r), r # NoRecord
    PROVE  r.installed[o[2]] \notin World.hand
  BY NoneByHand DEF Sealed, NoWrapperByHand

LEMMA NoEntryUnsupported == ParseEntry(NoEntry).source = NoSource /\ ~Supported(NoEntry)
  <1> DEFINE none == NoSource
             e == NoEntry
  <1>1. e.type = "none"
    BY NoEntryIsPlain
  <1> HIDE DEF none, e
  <1>2. ParseEntry(e).source = none
    BY <1>1 DEF ParseEntry, none
  <1> QED
    BY <1>2 DEF Supported, none, e

(* What a backup puts back for a wrapper is an entry. *)
LEMMA LegacyIsAnEntry ==
    ASSUME NEW d, NEW c, NEW n, NEW by \in LegacyRestoreEntry(d, c, n)
    PROVE  by.original[n] # NoEntry
  <1>1. PICK i \in DOMAIN d.backups[c] : /\ by = FromBackup(d.backups[c][i])
                                         /\ Restorable(d.config[c], n, by)
    BY DEF LegacyRestoreEntry
  <1>2. by.tracked = FALSE
    BY <1>1 DEF FromBackup
  <1>3. ParseEntry(by.original[n]).source # NoSource
    BY <1>1, <1>2 DEF Restorable, WrapsOriginal
  <1> QED
    BY <1>3, NoEntryUnsupported

(* What a new record says. *)
LEMMA NewRecordIs ==
    ASSUME NEW d, NEW o \in Owners, NEW installed, NEW policy, NEW created, NEW route,
           NEW r, r = NewRecord(d, o[1], o[2], installed, policy, created, route),
           NEW adoption, adoption = Adoption(d, o[1], o[2]), adoption # "none"
    PROVE  /\ r.path = PathOf(o) /\ r.installed = installed /\ r.route = route
           /\ adoption = "fresh" => r.original[o[2]] = Entry(d, o) /\ r.created = created
           /\ adoption = "record" =>
                r.original = Rec(d, o).original /\ r.created = Rec(d, o).created
           /\ adoption = "legacy" =>
                \E by \in LegacyRestoreEntry(d, o[1], o[2]) : r.original = by.original
  <1>1. adoption \in {"fresh", "record", "legacy"}
    BY AdoptionIs
  <1>2. r = RecordAs(adoption, d, o[1], o[2], installed, policy, created, route)
    BY DEF NewRecord
  <1>3. /\ r.path = PathOf(o)
        /\ adoption = "fresh" => r.original = d.config[o[1]] /\ r.created = created
        /\ adoption = "record" =>
             r.original = Rec(d, o).original /\ r.created = Rec(d, o).created
    BY <1>1, <1>2, RecordAsIs DEF PathOf, Rec
  <1>4. /\ r.installed = installed /\ r.route = route
        /\ adoption = "legacy" =>
             r.original = (CHOOSE e \in LegacyRestoreEntry(d, o[1], o[2]) : TRUE).original
    BY <1>1, <1>2, RecordAsRest
  <1>5. adoption = "legacy" => LegacyRestoreEntry(d, o[1], o[2]) # {}
    BY DEF Adoption
  <1> QED
    BY <1>3, <1>4, <1>5 DEF Entry

(* A wrapper that an Add installs for owner o, beside what was there. *)
LEMMA AddReturns ==
    ASSUME NEW T, NEW R, NEW w, NEW d, NEW o \in Owners, Returns(T, w, d, o), ~IsWrapper(w[o]),
           o \in T \/ Fits(R, d, o), Supported(Entry(d, o)),
           IsLocalHttp(Entry(d, o)) /\ Rec(d, o).installed[o[2]] = Entry(d, o) => o \in T,
           NEW healed, o \in healed => /\ Adoption(d, o[1], o[2]) = "legacy"
                                       /\ \A by \in LegacyRestoreEntry(d, o[1], o[2]) :
                                             by.original[o[2]] = w[o],
           Adoption(d, o[1], o[2]) = "none" => o \in T \ healed,
           NEW entry, IsWrapper(entry), ManagedPolicy(entry) = PathOf(o),
           o \notin T /\ Managing(d, o) => entry = Entry(d, o),
           NEW installed, installed[o[2]] = entry, NEW policy, NEW created \in BOOLEAN, NEW route,
           NEW r, r = NewRecord(d, o[1], o[2], installed, policy, created, route), NEW rt
    PROVE  /\ Safe(T, w[o], o, Entry(d, o), r, d.route[o])
           /\ Safe(T \ healed, w[o], o, entry, r, rt)
           /\ Sealed(o, r)
  <1> DEFINE adoption == Adoption(d, o[1], o[2])
             was == Entry(d, o)
             old == Rec(d, o)
             p == PathOf(o)
  <1>1. /\ adoption \in {"fresh", "record", "legacy", "none"}
        /\ adoption = "fresh" <=> ~Managing(d, o)
    BY AdoptionIs DEF Managing, Entry
  <1>2. adoption = "none" => r = NoRecord
    BY DEF NewRecord, RecordAs
  <1>3. Safe(T, w[o], o, was, old, d.route[o])
    BY DEF Returns
  <1>4. p # "" /\ d.config[o[1]][o[2]] = was /\ d.state[o[1]][o[2]] = old
        /\ p = PolicyLocation(o[1], o[2])
    BY OwnerParts DEF Entry, Rec, PathOf
  <1>5. o \notin T /\ Managing(d, o) => adoption = "record" /\ ManagedPolicy(was) = p
    BY FitsIsAdopted DEF Fits, Managing
  <1>6. adoption \in {"fresh", "record", "legacy"} =>
          /\ r.path = p /\ r.installed = installed
          /\ adoption = "fresh" => r.original[o[2]] = was
          /\ adoption = "record" => r.original = old.original /\ r.created = old.created
          /\ adoption = "legacy" =>
               \E by \in LegacyRestoreEntry(d, o[1], o[2]) : r.original = by.original
    BY NewRecordIs
  <1>7. adoption \in {"fresh", "record", "legacy"} => r # NoRecord
    BY <1>4, <1>6, NoRecordIs
  <1> HIDE DEF adoption
  <1>10. Sealed(o, r)
    BY <1>1, <1>2, <1>6 DEF Sealed
  <1>11. ManagedPolicy(was) = "" <=> ~Managing(d, o)
    BY DEF Managing
  <1>12. IsWrapper(w[o]) \/ ManagedPolicy(w[o]) = ""
    BY ManagedIsWrapper
  <1>13. o \notin T /\ Managing(d, o) => PutsBack(w[o], o, was, old, d.route[o]) /\ entry = was
    <2>1. Managing(d, o) => was # w[o]
      BY <1>11, <1>12
    <2> HIDE DEF was, old
    <2> QED
      BY <1>3, <2>1 DEF Safe, was
  <1>14. o \notin T /\ ~Managing(d, o) => was = w[o]
    <2> SUFFICES ASSUME o \notin T, ~Managing(d, o), PutsBack(w[o], o, was, old, d.route[o])
                 PROVE  FALSE
      BY <1>3 DEF Safe
    <2>1. old.installed[o[2]] = was
      BY DEF PutsBack
    <2>2. was = HttpEntry(old.route.port, o)
      BY <1>11 DEF PutsBack
    <2>3. IsLocalHttp(was)
      BY <2>2, HttpIsUnmanaged
    <2> QED
      BY <2>1, <2>3
  <1> HIDE DEF was, old, p
  <1>15. Safe(T, w[o], o, was, r, d.route[o])
    <2>1. CASE o \in T
      BY <2>1 DEF Safe
    <2>2. CASE o \notin T /\ ~Managing(d, o)
      BY <1>14, <2>2 DEF Safe
    <2>3. CASE o \notin T /\ Managing(d, o)
      <3>1. PutsBack(w[o], o, was, r, d.route[o])
        BY <1>5, <1>6, <1>7, <1>11, <1>13, <2>3 DEF PutsBack
      <3> QED
        BY <3>1 DEF Safe
    <2> QED
      BY <2>1, <2>2, <2>3
  <1>16. Safe(T \ healed, w[o], o, entry, r, rt)
    <2> SUFFICES ASSUME o \notin T \ healed
                 PROVE  PutsBack(w[o], o, entry, r, rt)
      BY DEF Safe
    <2>1. adoption \in {"fresh", "record", "legacy"}
      BY <1>1 DEF adoption
    <2>2. /\ r # NoRecord /\ r.installed[o[2]] = entry
          /\ ManagedPolicy(entry) # "" /\ r.path = ManagedPolicy(entry)
      BY <1>4, <1>6, <1>7, <2>1 DEF p
    <2>3. CASE adoption = "fresh"
      <3>1. o \notin healed /\ ~Managing(d, o)
        BY <1>1, <2>3 DEF adoption
      <3>2. was = w[o] /\ was # NoEntry
        BY <1>14, <3>1, NoEntryUnsupported DEF was
      <3> QED
        BY <1>6, <2>2, <2>3, <3>2 DEF PutsBack
    <2>4. CASE adoption = "record"
      <3>1. o \notin T /\ Managing(d, o)
        BY <1>1, <2>4 DEF adoption
      <3> QED
        BY <1>6, <1>13, <2>2, <2>4, <3>1 DEF PutsBack
    <2>5. CASE adoption = "legacy"
      <3>1. o \in healed
        BY <1>1, <1>5, <2>5
      <3>2. PICK by \in LegacyRestoreEntry(d, o[1], o[2]) : r.original = by.original
        BY <1>6, <2>5
      <3>3. by.original[o[2]] = w[o]
        BY <3>1, <3>2
      <3>4. by.original[o[2]] # NoEntry
        BY <3>2, LegacyIsAnEntry
      <3> QED
        BY <2>2, <3>2, <3>3, <3>4 DEF PutsBack
    <2> QED
      BY <2>1, <2>3, <2>4, <2>5
  <1> QED
    BY <1>10, <1>15, <1>16 DEF was

(* A wrapper that setup writes around an upstream is read as one. *)
LEMMA InstalledParses ==
    ASSUME NEW o \in Owners, NEW src, WritableSource(src), Direct(src), NEW old,
           NEW entry, entry = WrapperEntry(PathOf(o), src, old)
    PROVE  ManagedPolicy(entry) = PathOf(o) /\ IsWrapper(entry)
  <1> DEFINE p == PathOf(o)
  <1>1. p \in STRING /\ Plain(p) /\ p # ""
    BY SceneAssumption DEF Plain
  <1>2. ValidSource(src)
    <2>1. src.target # <<>>
      BY DEF WritableSource
    <2> QED
      BY <2>1 DEF ValidSource, Direct
  <1> HIDE DEF p
  <1>3. IsWrapper(entry) /\ ParseEntry(entry) = Managed(p, src)
    BY <1>1, WrapperParses DEF p
  <1>4. Managed(p, src) = [policy |-> p, source |-> src]
    BY <1>1, <1>2 DEF Managed
  <1>5. Managed(p, src).policy = p
    BY <1>4
  <1> QED
    BY <1>3, <1>5 DEF ManagedPolicy, p

(* Record r, of the entry that a setup installs for owner o, puts back what the *)
(* user gave it, before the entry has come and after.                           *)
Backs(T, w, d, healed, o, entry, route, r) ==
    LET rt == IF route = NoRoute THEN d.route[o] ELSE route
    IN  /\ Safe(T, w[o], o, Entry(d, o), r, d.route[o])
        /\ Safe(T, w[o], o, Entry(d, o), r, rt)
        /\ Safe(T, w[o], o, Entry(d, o), Rec(d, o), rt)
        /\ Safe(T \ healed, w[o], o, entry, r, rt)
        /\ Sealed(o, r)

LEMMA SetupBrings ==
    ASSUME Routed, IsTable(disk.config), NEW s \in Sessions, ~Writing(s),
           NEW command, command # "restore",
           DOMAIN sess[s].picked \subseteq Owners,
           \A o \in DOMAIN sess[s].picked : disk.config[o[1]] = sess[s].seen[o[1]],
           NEW entries, NEW routes, NEW created \in BOOLEAN,
           NEW healed, healed \subseteq DOMAIN sess[s].picked,
           BeginSetup(s, Installed(s, entries, routes, created), healed),
           NEW T, NEW U, NEW w, NEW o \in Owners, Returns(T, w, disk, o), o \in T => o \in U,
           o \in DOMAIN sess[s].picked =>
              \A r : IsNew(disk, o, entries[o], created, routes[o], r) =>
                        Backs(U, w, disk, healed, o, entries[o], routes[o], r)
    PROVE  Brings(U, w, disk', sess'[s], moved'[s], command, o)
  <1> DEFINE M == DOMAIN sess[s].picked
             after == Installed(s, entries, routes, created)
             files == SavedFiles(s) \union ProfileFiles(s) \union PolicyFiles(s)
                        \union RouteFiles(after) \union StateFiles(after) \union ConfigFiles(s)
             k == sess'[s]
             b == disk
             x == disk'
  <1>1. /\ k.before = b /\ k.after = after /\ k.written = {} /\ k.picked = sess[s].picked
        /\ moved'[s] = {} /\ k.healed = healed /\ x.config = b.config
    <2>1. Begin(s, files, after, healed)
      BY Zenon DEF BeginSetup
    <2> HIDE DEF files, after
    <2> QED
      BY <2>1, Begun, BegunRest
  <1>2. /\ Entry(after, o) = IF o \in M THEN entries[o] ELSE Entry(b, o)
        /\ Rec(after, o) = IF o \in M
                           THEN NewRecord(b, o[1], o[2], after.config[o[1]],
                                          sess[s].picked[o].policy, created, routes[o])
                           ELSE Rec(b, o)
    <2>1. after = Installed(s, entries, routes, created)
      OBVIOUS
    <2> HIDE DEF after
    <2> QED
      BY <2>1, InstalledIs
  <1>3. after.route[o] = IF o \in M /\ routes[o] # NoRoute THEN routes[o] ELSE b.route[o]
    <2>1. after = Installed(s, entries, routes, created)
      OBVIOUS
    <2> HIDE DEF after
    <2> QED
      BY <2>1, InstalledRest
  <1>4. Entry(x, o) = Entry(b, o)
    BY <1>1 DEF Entry
  <1> HIDE DEF after
  <1>5. ASSUME o \in M
        PROVE  /\ Waits(U, w[o], k, o, Entry(b, o), command)
               /\ Holds(U \ k.healed, w[o], k, o, Entry(k.after, o), command)
               /\ Sealed(o, Rec(k.after, o))
    <2> DEFINE entry == entries[o]
               route == routes[o]
               installed == after.config[o[1]]
               policy == sess[s].picked[o].policy
               r == Rec(after, o)
               rt == IF route = NoRoute THEN b.route[o] ELSE route
    <2>1. /\ Entry(after, o) = entry /\ installed[o[2]] = entry /\ after.route[o] = rt
          /\ r = NewRecord(b, o[1], o[2], installed, policy, created, route)
      BY <1>2, <1>3, <1>5 DEF Entry
    <2>2. IsNew(b, o, entry, created, route, r) =>
             Backs(U, w, b, healed, o, entry, route, r)
      BY <1>5
    <2> HIDE DEF entry, route, installed, policy, r, b, k, M
    <2>3. Backs(U, w, b, healed, o, entry, route, r)
      BY <2>1, <2>2 DEF IsNew
    <2>4. /\ Safe(U, w[o], o, Entry(b, o), r, b.route[o])
          /\ Safe(U, w[o], o, Entry(b, o), r, rt)
          /\ Safe(U, w[o], o, Entry(b, o), Rec(b, o), rt)
          /\ Safe(U \ healed, w[o], o, entry, r, rt)
          /\ Sealed(o, r)
      BY <2>3 DEF Backs
    <2>5. Safe(U, w[o], o, Entry(b, o), Rec(b, o), b.route[o])
      BY SafeGrows DEF Returns, b
    <2> HIDE DEF rt
    <2>6. Rec(k.before, o) = Rec(b, o) /\ Rec(k.after, o) = r /\ k.before.route[o] = b.route[o]
          /\ k.after.route[o] = rt /\ Entry(k.after, o) = entry /\ k.healed = healed
      BY <1>1, <2>1 DEF r
    <2>7. Waits(U, w[o], k, o, Entry(b, o), command)
      BY <2>4, <2>5, <2>6 DEF Waits
    <2>8. Holds(U \ k.healed, w[o], k, o, Entry(k.after, o), command)
      BY <2>4, <2>6 DEF Holds
    <2> QED
      BY <2>4, <2>6, <2>7, <2>8
  <1>6. ASSUME o \notin M
        PROVE  /\ Entry(k.after, o) = Entry(b, o) /\ Rec(k.after, o) = Rec(b, o)
               /\ k.after.route[o] = b.route[o] /\ o \notin k.healed
    BY <1>1, <1>2, <1>3, <1>6
  <1>7. DOMAIN k.picked = M
    BY <1>1
  <1>8. k.before = b /\ k.written = {} /\ Returns(T, w, b, o)
    BY <1>1
  <1> HIDE DEF M, k, b, x
  <1>9. Brings(U, w, x, k, {}, command, o)
    BY <1>4, <1>5, <1>6, <1>7, <1>8, PlanBrings
  <1> QED
    BY <1>1, <1>9 DEF k, x

LEMMA AddPlanBrings ==
    ASSUME Routed, Kept, Serving, Redeemable, NEW s \in Sessions, AddPlan(s), NEW o \in Owners
    PROVE  Brings(tampered', own', disk', sess'[s], moved'[s], "add", o)
  <1> DEFINE M == DOMAIN sess[s].picked
             entries == [q \in M |-> WrapperEntry(PathOf(q), sess[s].picked[q].source,
                                                  sess[s].seen[q[1]][q[2]])]
             routes == [q \in M |-> NoRoute]
             healed == Refound(M)
             U == tampered \union Mistaken(M)
  <1>1. /\ Runs(s, "add", "chosen") /\ LockFree /\ AddReady(s)
        /\ own' = own /\ tampered' = U
        /\ BeginSetup(s, Installed(s, entries, routes, FALSE), healed)
    BY Zenon DEF AddPlan
  <1>2. /\ M \subseteq Owners /\ IsTable(disk.config) /\ Served(U, removed, disk)
        /\ Chooses(World, disk, sess[s], moved[s], scene.command[s])
        /\ Settles(disk, sess[s], moved[s], scene.command[s])
        /\ Claims(tampered, sess[s], moved[s], scene.command[s])
        /\ Returns(tampered, own, disk, o)
        /\ own[o] \in World.hand
    BY <1>1 DEF Kept, Tables, Serving, Served, Redeemable, World
  <1>3. scene.command[s] = "add" /\ sess[s].pc = "chosen" /\ ~Writing(s)
    BY <1>1 DEF Runs, Writing
  <1>4. \A q \in M : disk.config[q[1]] = sess[s].seen[q[1]]
    BY <1>1 DEF AddReady, PlanIsCurrent
  <1>5. ASSUME o \in M
        PROVE  /\ WritableSource(sess[s].picked[o].source) /\ Direct(sess[s].picked[o].source)
               /\ Found(Upstream(disk, o), sess[s].picked[o].source)
               /\ Supported(Entry(disk, o)) /\ (o \in U \/ Fits(removed, disk, o))
    <2>1. WritableSource(sess[s].picked[o].source)
      BY <1>1, <1>5 DEF AddReady, PlanIsCurrent
    <2>2. Supported(Entry(disk, o))
      BY <1>2, <1>3, <1>4, <1>5 DEF Chooses, Entry
    <2>3. Found(Upstream(disk, o), sess[s].picked[o].source)
      BY <1>2, <1>3, <1>4, <1>5 DEF Settles, Upstream, Entry
    <2>4. Direct(sess[s].picked[o].source)
      BY <1>2, <1>3, <1>5 DEF Claims
    <2> QED
      BY <1>2, <2>1, <2>2, <2>3, <2>4 DEF Served
  <1>6. ~IsWrapper(own[o])
    BY <1>2, NoneByHand DEF NoWrapperByHand
  <1>7. ASSUME o \in M, NEW r, IsNew(disk, o, entries[o], FALSE, routes[o], r)
        PROVE  Backs(U, own, disk, healed, o, entries[o], routes[o], r)
    <2> DEFINE src == sess[s].picked[o].source
               entry == entries[o]
               old == Entry(disk, o)
               created == FALSE
               route == NoRoute
               rt == disk.route[o]
    <2>1. entry = WrapperEntry(PathOf(o), src, old)
      BY <1>4, <1>7 DEF Entry
    <2>2. /\ WritableSource(src) /\ Direct(src) /\ Found(Upstream(disk, o), src)
          /\ Supported(old) /\ (o \in U \/ Fits(removed, disk, o))
      BY <1>5, <1>7
    <2>3. PICK installed, policy :
             /\ installed[o[2]] = entry
             /\ r = NewRecord(disk, o[1], o[2], installed, policy, created, route)
      BY <1>7 DEF IsNew
    <2>4. o \in healed => /\ Adoption(disk, o[1], o[2]) = "legacy"
                          /\ \A by \in LegacyRestoreEntry(disk, o[1], o[2]) :
                                by.original[o[2]] = own[o]
      BY DEF Refound, Owned
    <2>5. IsLocalHttp(old) /\ Rec(disk, o).installed[o[2]] = old => o \in U
      BY <1>7 DEF Mistaken, Entry, Rec
    <2>6. Returns(U, own, disk, o)
      BY <1>2, SafeGrows DEF Returns
    <2>7. created \in BOOLEAN
      OBVIOUS
    <2> HIDE DEF src, entry, routes, entries, healed, M, old, U, created, route
    <2>8. ManagedPolicy(entry) = PathOf(o) /\ IsWrapper(entry)
      BY <2>1, <2>2, InstalledParses
    <2>9. o \notin U /\ Managing(disk, o) => entry = old
      BY <2>1, <2>2 DEF Found, Fits, old
    <2>10. Adoption(disk, o[1], o[2]) = "none" => o \in U \ healed
      <3>1. Adoption(disk, o[1], o[2]) = "none" => Managing(disk, o)
        BY AdoptionIs DEF Managing, Entry
      <3> QED
        BY <2>2, <2>4, <3>1, FitsIsAdopted
    <2>11. /\ Safe(U, own[o], o, old, r, disk.route[o])
           /\ Safe(U \ healed, own[o], o, entry, r, rt)
           /\ Sealed(o, r)
      BY <1>6, <2>2, <2>3, <2>4, <2>5, <2>6, <2>7, <2>8, <2>9, <2>10, AddReturns DEF old
    <2>12. Safe(U, own[o], o, old, Rec(disk, o), disk.route[o])
      BY <2>6 DEF Returns, old
    <2>13. routes[o] = NoRoute
      BY <1>7 DEF routes, M
    <2> QED
      BY <2>11, <2>12, <2>13 DEF Backs, old, entry
  <1>8. healed \subseteq M
    BY DEF Refound, Owned
  <1> DEFINE created == FALSE
  <1>9. created \in BOOLEAN /\ "add" # "restore" /\ (o \in tampered => o \in U)
        /\ BeginSetup(s, Installed(s, entries, routes, created), healed)
        /\ (o \in M => \A r : IsNew(disk, o, entries[o], created, routes[o], r) =>
                         Backs(U, own, disk, healed, o, entries[o], routes[o], r))
    BY <1>1, <1>7
  <1> HIDE DEF entries, routes, healed, U, created
  <1>10. Brings(U, own, disk', sess'[s], moved'[s], "add", o)
    BY <1>2, <1>3, <1>4, <1>8, <1>9, SetupBrings
  <1> QED
    BY <1>1, <1>10

(* An entry that the user gave the server is none that restore undoes. *)
LEMMA NothingToUndo ==
    ASSUME NEW T, NEW u, NEW o, NEW e, NEW rt, Safe(T, u, o, e, NoRecord, rt)
    PROVE  o \in T \/ e = u
  BY DEF Safe, PutsBack

LEMMA ManualPlanBrings ==
    ASSUME Routed, Kept, Serving, Redeemable, NEW s \in Sessions, ManualPlan(s), NEW o \in Owners
    PROVE  Brings(tampered', own', disk', sess'[s], moved'[s], "manual", o)
  <1> DEFINE M == DOMAIN sess[s].picked
             entries == [q \in M |-> IF sess[s].picked[q].port = ""
                                     THEN WrapperEntry(PathOf(q), sess[s].picked[q].source, NoEntry)
                                     ELSE HttpEntry(sess[s].picked[q].port, q)]
             routes == ManualRoutes(s)
             T == tampered
  <1>1. /\ Runs(s, "manual", "chosen") /\ LockFree /\ ManualReady(s)
        /\ own' = own /\ tampered' = T
        /\ BeginSetup(s, Installed(s, entries, routes, TRUE), {})
    BY Zenon DEF ManualPlan
  <1>2. /\ M \subseteq Owners /\ IsTable(disk.config) /\ Served(T, removed, disk)
        /\ Chooses(World, disk, sess[s], moved[s], scene.command[s])
        /\ Claims(T, sess[s], moved[s], scene.command[s])
        /\ Returns(T, own, disk, o)
    BY <1>1 DEF Kept, Tables, Serving, Redeemable
  <1>3. scene.command[s] = "manual" /\ sess[s].pc = "chosen" /\ ~Writing(s)
    BY <1>1 DEF Runs, Writing
  <1>4. \A q \in M : disk.config[q[1]] = sess[s].seen[q[1]]
    BY <1>1 DEF ManualReady, PlanIsCurrent
  <1>5. ASSUME o \in M
        PROVE  /\ WritableSource(sess[s].picked[o].source) /\ Direct(sess[s].picked[o].source)
               /\ Entry(disk, o) = NoEntry /\ TakeoverAllowed(disk, PathOf(o), {})
               /\ RecordKeeps(disk, o)
    <2>1. WritableSource(sess[s].picked[o].source) /\ TakeoverAllowed(disk, PathOf(o), {})
      BY <1>1, <1>5 DEF ManualReady, PlanIsCurrent
    <2>2. Entry(disk, o) = NoEntry
      BY <1>2, <1>3, <1>4, <1>5 DEF Chooses, Entry
    <2>3. Direct(sess[s].picked[o].source)
      BY <1>2, <1>3, <1>5 DEF Claims
    <2> QED
      BY <1>2, <2>1, <2>2, <2>3 DEF Served, Keeps
  <1>6. ASSUME o \in M
        PROVE  sess[s].picked[o].port = "" \/ sess[s].picked[o].port \in Ports
    <2>1. PortStands(s)
      BY <1>1 DEF Routed, Chosen
    <2>2. sess[s].picked[o].port # "" => sess[s].picked[o].port \in PortsPicked(s)
      BY <1>6 DEF PortsPicked
    <2>3. \A p \in PortsPicked(s) : p \in Ports
      BY <2>1 DEF PortStands
    <2> QED
      BY <2>2, <2>3
  <1>7. ASSUME o \in M
        PROVE  /\ entries[o] = IF sess[s].picked[o].port = ""
                               THEN WrapperEntry(PathOf(o), sess[s].picked[o].source, NoEntry)
                               ELSE HttpEntry(sess[s].picked[o].port, o)
               /\ routes[o] = IF sess[s].picked[o].port = "" THEN NoRoute
                              ELSE RouteDefinition(sess[s].picked[o].port, o, PathOf(o),
                                                   sess[s].picked[o].source)
    BY <1>7 DEF ManualRoutes
  <1> HIDE DEF entries, routes
  <1>8. ASSUME o \in M, NEW r, IsNew(disk, o, entries[o], TRUE, routes[o], r)
        PROVE  Backs(T, own, disk, {}, o, entries[o], routes[o], r)
    <2> DEFINE src == sess[s].picked[o].source
               port == sess[s].picked[o].port
               entry == entries[o]
               old == Entry(disk, o)
               created == TRUE
               route == routes[o]
               u == own[o]
               p == PathOf(o)
    <2>1. /\ entry = IF port = "" THEN WrapperEntry(p, src, NoEntry) ELSE HttpEntry(port, o)
          /\ route = IF port = "" THEN NoRoute ELSE RouteDefinition(port, o, p, src)
      BY <1>7, <1>8
    <2>2. /\ WritableSource(src) /\ Direct(src) /\ old = NoEntry
          /\ port = "" \/ port \in Ports
      BY <1>5, <1>6, <1>8
    <2>3. Rec(disk, o) = NoRecord
      <3>1. o \notin References(disk, p)
        BY <1>5, <1>8 DEF TakeoverAllowed
      <3>2. Rec(disk, o).path # p
        BY <1>5, <1>8, <3>1, ReferencesAre
      <3> QED
        BY <1>5, <1>8, <3>2 DEF RecordKeeps
    <2>4. PICK installed, policy :
             /\ installed[o[2]] = entry
             /\ r = NewRecord(disk, o[1], o[2], installed, policy, created, route)
      BY <1>8 DEF IsNew
    <2>5. Adoption(disk, o[1], o[2]) = "fresh"
      <3>1. ManagedPolicy(disk.config[o[1]][o[2]]) = ""
        BY <2>2, NoEntryIsPlain DEF Entry
      <3> QED
        BY <3>1, AdoptionIs
    <2>6. o \in T \/ u = NoEntry
      <3>1. Safe(T, u, o, old, NoRecord, disk.route[o])
        BY <1>2, <2>3 DEF Returns
      <3> QED
        BY <2>2, <3>1, NothingToUndo
    <2>7. p # ""
      BY OwnerParts
    <2>8. created = TRUE
      OBVIOUS
    <2> HIDE DEF src, port, entry, old, created, route, u, M, T, p
    <2>9. /\ r.path = p /\ r.installed[o[2]] = entry /\ r.route = route
          /\ r.original[o[2]] = NoEntry /\ r.created
      <3>1. r.path = p /\ r.installed = installed /\ r.route = route
            /\ r.original[o[2]] = Entry(disk, o) /\ r.created = created
        BY <2>4, <2>5, NewRecordIs DEF p
      <3> QED
        BY <2>2, <2>4, <2>8, <3>1 DEF old
    <2>10. r # NoRecord
      BY <2>7, <2>9, NoRecordIs
    <2>11. port = "" => ManagedPolicy(entry) = p /\ IsWrapper(entry)
      BY <2>1, <2>2, InstalledParses DEF p
    <2>12. Sealed(o, r)
      BY <2>1, <2>2, <2>9, <2>11 DEF Sealed
    <2>13. port # "" => route.port = port /\ route # NoRoute
      <3> SUFFICES ASSUME port # "" PROVE route.port = port /\ route # NoRoute
        OBVIOUS
      <3>1. route.port = port
        BY <2>1 DEF RouteDefinition
      <3>2. NoRoute.port = ""
        BY DEF NoRoute
      <3> QED
        BY <3>1, <3>2
    <2>14. ASSUME NEW q, NEW rt
           PROVE  Safe(T, u, o, old, q, rt)
      BY <2>2, <2>6 DEF Safe
    <2>15. ASSUME NEW rt, route = NoRoute \/ rt = route
           PROVE  Safe(T, u, o, entry, r, rt)
      <3>1. CASE o \in T
        BY <3>1 DEF Safe
      <3>2. CASE o \notin T /\ port = ""
        <4>1. PutsBack(u, o, entry, r, rt)
          BY <2>6, <2>7, <2>9, <2>10, <2>11, <3>2 DEF PutsBack
        <4> QED
          BY <4>1 DEF Safe
      <3>3. CASE o \notin T /\ port # ""
        <4>1. entry = HttpEntry(route.port, o) /\ route # NoRoute
          BY <2>1, <2>13, <3>3
        <4>2. PutsBack(u, o, entry, r, rt)
          BY <2>6, <2>9, <2>10, <2>15, <3>3, <4>1 DEF PutsBack
        <4> QED
          BY <4>2 DEF Safe
      <3> QED
        BY <3>1, <3>2, <3>3
    <2> DEFINE now == IF route = NoRoute THEN disk.route[o] ELSE route
               none == {}
    <2>16. Safe(T, u, o, entry, r, now)
      <3>1. route = NoRoute \/ now = route
        OBVIOUS
      <3> HIDE DEF now
      <3> QED
        BY <2>15, <3>1
    <2>17. o \in T => o \in T \ none
      OBVIOUS
    <2> HIDE DEF none, now
    <2>18. Safe(T \ none, u, o, entry, r, now)
      BY <2>16, <2>17, SafeGrows
    <2> QED
      BY <2>12, <2>14, <2>18 DEF Backs, u, old, entry, route, now, none
  <1> DEFINE created == TRUE
             healed == {}
  <1>9. created \in BOOLEAN /\ "manual" # "restore" /\ (o \in T => o \in T) /\ healed \subseteq M
        /\ BeginSetup(s, Installed(s, entries, routes, created), healed)
        /\ (o \in M => \A r : IsNew(disk, o, entries[o], created, routes[o], r) =>
                         Backs(T, own, disk, healed, o, entries[o], routes[o], r))
    BY <1>1, <1>8
  <1> HIDE DEF healed, T, created
  <1>10. Brings(T, own, disk', sess'[s], moved'[s], "manual", o)
    BY <1>2, <1>3, <1>4, <1>9, SetupBrings
  <1> QED
    BY <1>1, <1>10

LEMMA NoInstalls ==
    ASSUME NEW n \in Names
    PROVE  NoRecord.installed[n] = NoEntry
  BY DEF NoRecord

(* A route that a restore has taken away is no obstacle to another restore. *)
LEMMA SafeWithoutRoute ==
    ASSUME NEW T, NEW u, NEW o, NEW e, NEW r, NEW rt, Safe(T, u, o, e, r, rt)
    PROVE  Safe(T, u, o, e, r, NoRoute)
  BY DEF Safe, PutsBack

LEMMA RestorePlanBrings ==
    ASSUME Routed, Kept, Serving, Redeemable, NEW s \in Sessions, RestorePlan(s), NEW o \in Owners
    PROVE  Brings(tampered', own', disk', sess'[s], moved'[s], "restore", o)
  <1> DEFINE picked == sess[s].picked
             M == DOMAIN picked
             after == AfterRestore(disk, picked)
             T == Tracked(picked)
             policies == {PolicyFile(p) : p \in {q \in Paths : PolicyIsRestored(disk, T, q)}}
             files == RouteFiles(after) \union ConfigFiles(s) \union policies
                        \union StateFiles(after)
             healed == {q \in tampered \cap M : after.config[q[1]][q[2]] = own[q]}
             k == sess'[s]
             b == disk
             x == disk'
             e == Entry(disk, o)
             r == Rec(disk, o)
             u == own[o]
  <1>1. /\ Runs(s, "restore", "chosen") /\ LockFree /\ RestoreReady(s)
        /\ Begin(s, files, after, healed)
        /\ own' = own /\ tampered' = tampered
    BY Zenon DEF RestorePlan, BeginRestore, Tracked
  <1>2. /\ M \subseteq Owners /\ IsDisk(disk)
        /\ Chooses(World, disk, sess[s], moved[s], scene.command[s])
        /\ Claims(tampered, sess[s], moved[s], scene.command[s])
        /\ Returns(tampered, own, disk, o) /\ u \in World.hand
    BY <1>1 DEF Kept, Tables, Redeemable, Routed, Shape, World
  <1>3. scene.command[s] = "restore" /\ sess[s].pc = "chosen" /\ ~Writing(s)
    BY <1>1 DEF Runs, Writing
  <1>4. /\ k.before = b /\ k.after = after /\ k.written = {} /\ k.picked = picked
        /\ moved'[s] = {} /\ k.healed = healed /\ x.config = b.config
    <2> HIDE DEF files, after, healed
    <2> QED
      BY <1>1, <1>3, Begun, BegunRest
  <1>5. after = AfterRestore(disk, picked)
    OBVIOUS
  <1> HIDE DEF after, policies, files
  <1>6. /\ Entry(after, o) = IF o \in M THEN picked[o].by.original[o[2]] ELSE e
        /\ Rec(after, o) = IF o \in T THEN NoRecord ELSE r
    BY <1>2, <1>5, AfterRestoreIs
  <1>7. after.route[o] = IF o \in M /\ picked[o].kind = "route" THEN NoRoute ELSE b.route[o]
    BY <1>2, <1>5, AfterRestoreRest
  <1>8. ASSUME o \in M
        PROVE  /\ Restorable(disk.config[o[1]], o[2], picked[o].by)
               /\ IF o \in T THEN picked[o].by = FromRecord(r) ELSE o \in tampered
    <2>1. /\ ConfigFile(o[1]) \notin moved[s]
          /\ Restorable(disk.config[o[1]], o[2], picked[o].by)
          /\ picked[o].kind # "legacy" => StateFile(o[1]) \notin moved[s]
      BY <1>1, <1>8 DEF RestoreReady
    <2>2. picked[o].kind # "legacy" => picked[o].by = FromRecord(r)
      BY <1>2, <1>3, <1>8, <2>1 DEF Chooses
    <2>3. picked[o].kind = "legacy" => o \in tampered
      BY <1>2, <1>3, <1>8, <2>1 DEF Claims
    <2>4. o \in T <=> picked[o].kind # "legacy"
      BY <1>8 DEF Tracked
    <2> QED
      BY <2>1, <2>2, <2>3, <2>4
  <1>9. o \in M /\ o \in healed => Entry(after, o) = u
    BY DEF Entry
  <1>10. o \in T => o \in M
    BY DEF Tracked
  <1>11. Safe(tampered, u, o, e, r, b.route[o]) /\ Sealed(o, r)
    BY <1>2 DEF Returns
  <1>12. /\ e = Entry(x, o)
         /\ DOMAIN k.picked = M
         /\ o \notin M => o \notin k.healed
    BY <1>4 DEF Entry
  <1> HIDE DEF M, T, healed, k, picked
  <1>13. ASSUME o \in M, o \notin tampered
         PROVE  Entry(after, o) = u
    <2>1. /\ o \in T /\ picked[o].by = FromRecord(r)
          /\ Restorable(disk.config[o[1]], o[2], picked[o].by)
      BY <1>8, <1>13
    <2> DEFINE by == picked[o].by
               content == disk.config[o[1]]
    <2>2. by = FromRecord(r) /\ Restorable(content, o[2], by) /\ content[o[2]] = e
      BY <2>1 DEF Entry
    <2>3. Entry(after, o) = by.original[o[2]]
      BY <1>6, <1>13
    <2> HIDE DEF by, content, r, e, u
    <2>4. by.tracked = TRUE /\ by.installed = r.installed /\ by.original = r.original
      BY <2>2 DEF FromRecord
    <2>5. e = r.installed[o[2]] /\ e # NoEntry
      BY <2>2, <2>4 DEF Restorable
    <2>6. r # NoRecord
      BY <2>5, NoInstalls DEF Owners
    <2>7. e \notin World.hand
      BY <1>11, <2>5, <2>6, SealedIsSetups
    <2>8. PutsBack(u, o, e, r, b.route[o])
      BY <1>2, <1>11, <1>13, <2>7 DEF Safe
    <2> QED
      BY <2>3, <2>4, <2>8 DEF PutsBack
  <1> HIDE DEF e, r, u
  <1>14. Safe(tampered, u, o, e, r, NoRoute)
    BY <1>11, SafeWithoutRoute
  <1>15. ASSUME o \in M
         PROVE  /\ Waits(tampered, own[o], k, o, Entry(b, o), "restore")
                /\ Holds(tampered \ k.healed, own[o], k, o, Entry(k.after, o), "restore")
                /\ Sealed(o, Rec(k.after, o))
    <2>1. /\ k.before.route[o] = b.route[o] /\ k.after.route[o] \in {NoRoute, b.route[o]}
          /\ Rec(k.before, o) = r /\ Rec(k.after, o) \in {NoRecord, r}
          /\ Entry(b, o) = e /\ own[o] = u
      BY <1>4, <1>6, <1>7 DEF r, e, u
    <2>2. Sealed(o, Rec(k.after, o))
      BY <1>11, <2>1 DEF Sealed
    <2>3. Waits(tampered, own[o], k, o, Entry(b, o), "restore")
      BY <1>11, <1>14, <2>1 DEF Waits
    <2>4. o \in tampered \ k.healed \/ Entry(k.after, o) = u
      BY <1>4, <1>9, <1>13, <1>15
    <2>5. Holds(tampered \ k.healed, own[o], k, o, Entry(k.after, o), "restore")
      BY <2>1, <2>4 DEF Holds, Safe
    <2> QED
      BY <2>2, <2>3, <2>5
  <1>16. ASSUME o \notin M
         PROVE  /\ Entry(k.after, o) = Entry(b, o) /\ Rec(k.after, o) = Rec(b, o)
                /\ k.after.route[o] = b.route[o] /\ o \notin k.healed
    BY <1>4, <1>6, <1>7, <1>10, <1>12, <1>16 DEF e, r
  <1>17. k.before = b /\ k.written = {} /\ Returns(tampered, own, b, o) /\ Entry(x, o) = Entry(b, o)
    BY <1>2, <1>4, <1>12 DEF e
  <1> HIDE DEF b, x
  <1>18. Brings(tampered, own, x, k, {}, "restore", o)
    BY <1>12, <1>15, <1>16, <1>17, PlanBrings
  <1> QED
    BY <1>1, <1>4, <1>18 DEF k, x

-----------------------------------------------------------------------------
(* What a session goes by has no wrapper's command line.                   *)

(* Disk x is d as far as owner o goes. *)
LEMMA SameBrings ==
    ASSUME NEW T, NEW w, NEW d, NEW x, NEW o, Entry(x, o) = Entry(d, o), Rec(x, o) = Rec(d, o),
           x.route[o] = d.route[o], NEW j, NEW files, NEW command, NEW more,
           ConfigFile(o[1]) \in more <=> ConfigFile(o[1]) \in files
    PROVE  /\ Returns(T, w, d, o) => Returns(T, w, x, o)
           /\ Brings(T, w, d, j, files, command, o) => Brings(T, w, x, j, more, command, o)
  <1>1. Returns(T, w, d, o) => Returns(T, w, x, o)
    BY DEF Returns
  <1>2. Brings(T, w, d, j, files, command, o) => Brings(T, w, x, j, more, command, o)
    BY DEF Brings
  <1> QED
    BY <1>1, <1>2

LEMMA DirectStays ==
    ASSUME NEW x, IsUpstream(x), Direct(x), NEW id
    PROVE  /\ Direct([x EXCEPT !.kind = "sse"])
           /\ Direct([x EXCEPT !.profile = id])
  <1>1. [x EXCEPT !.kind = "sse"].kind = "sse"
    BY DEF IsUpstream
  <1>2. [x EXCEPT !.profile = id].kind = x.kind /\ [x EXCEPT !.profile = id].target = x.target
    BY DEF IsUpstream
  <1> QED
    BY <1>1, <1>2 DEF Direct

LEMMA DirectFound ==
    ASSUME NEW cs, NEW x, OneOrTwo(cs, x), IsUpstream(x), Direct(x), NEW id,
           NEW found \in DiscoverSetupServer(cs, id)
    PROVE  Direct(found)
  <1> DEFINE y == [x EXCEPT !.kind = "sse"]
             S == {x, y}
             k == FirstCompatible(cs, FALSE)
             rest == SubSeq(cs, k, Len(cs))
  <1>1. Direct(y) /\ IsUpstream(y)
    BY DirectStays, KindOnly
  <1>2. cs = <<x>> \/ cs = <<x, y>>
    BY DEF OneOrTwo
  <1>3. k \in 1..Len(cs)
    BY AlternativesAre
  <1>4. \/ \E base \in DiscoverAlternatives(rest, TRUE) : found = [base EXCEPT !.profile = id]
        \/ found \in DiscoverAlternatives(cs, FALSE)
    BY Zenon DEF DiscoverSetupServer
  <1> HIDE DEF y, k
  <1>5. cs \in Seq(S)
    <2>1. CASE cs = <<x>>
      BY <2>1
    <2>2. CASE cs = <<x, y>>
      BY <2>2
    <2> QED
      BY <1>2, <2>1, <2>2
  <1>6. \A i \in 1..Len(cs) : Direct(cs[i]) /\ IsUpstream(cs[i])
    <2>1. \A i \in 1..Len(cs) : cs[i] \in S
      BY <1>5
    <2> QED
      BY <1>1, <2>1
  <1>7. CASE found \in DiscoverAlternatives(cs, FALSE)
    <2>1. \E i \in 1..Len(cs) : found = cs[i]
      BY <1>7, AlternativesAre
    <2> QED
      BY <1>6, <2>1
  <1>8. CASE \E base \in DiscoverAlternatives(rest, TRUE) : found = [base EXCEPT !.profile = id]
    <2>1. PICK base \in DiscoverAlternatives(rest, TRUE) : found = [base EXCEPT !.profile = id]
      BY <1>8
    <2>2. PICK z : OneOrTwo(rest, z)
      BY <1>3, CandidatesFit
    <2>3. \A i \in 1..Len(rest) : rest[i] = cs[k + i - 1] /\ k + i - 1 \in 1..Len(cs)
      BY <1>3, <1>5
    <2> HIDE DEF rest
    <2>4. PICK i \in 1..Len(rest) : base = rest[i]
      BY <2>1, <2>2, AlternativesAre
    <2>5. Direct(base) /\ IsUpstream(base)
      BY <1>6, <2>3, <2>4
    <2> QED
      BY <2>1, <2>5, DirectStays
  <1> QED
    BY <1>4, <1>7, <1>8

LEMMA WrapperDirect ==
    ASSUME NEW args
    PROVE  Direct(ParseManagedWrapper(args).source)
  <1> DEFINE dash == FirstDash(args)
             pairs == OptionPairs(args, dash)
             given == ValuesGiven(pairs)
             rest == SubSeq(args, dash, Len(args))
             parsed == ParseOptions(pairs, given, rest)
  <1>1. ParseManagedWrapper(args) = NotManaged \/ ParseManagedWrapper(args) = parsed
    BY DEF ParseManagedWrapper, ParseWords
  <1>2. Direct(NotManaged.source)
    BY DEF Direct, NotManaged, NoSource
  <1> HIDE DEF pairs, given, rest
  <1>3. parsed = NotManaged \/ \E p, x : parsed = Managed(p, x)
    BY DEF ParseOptions
  <1> HIDE DEF parsed
  <1>4. ASSUME NEW p, NEW x
        PROVE  Direct(Managed(p, x).source)
    BY <1>2 DEF Managed, ValidSource, Direct
  <1> QED
    BY <1>1, <1>2, <1>3, <1>4

LEMMA EntryDirect ==
    ASSUME NEW entry
    PROVE  Direct(ParseEntry(entry).source)
  <1>1. Direct(NoSource)
    BY DEF Direct, NoSource
  <1> DEFINE HasKind(x, kind, target) == x.kind = kind /\ x.target = target
  <1>2. ASSUME NEW kind, NEW target, NEW env, NEW bearer
        PROVE  HasKind([NoSource EXCEPT !.kind = kind, !.target = target, !.env = env,
                                        !.bearer = bearer], kind, target)
    <2> DEFINE nothing == <<>>
               none == NoSource
    <2>1. none = [kind |-> "none", target |-> nothing, env |-> nothing, cwd |-> "",
                  bearer |-> "", profile |-> ""]
      BY DEF NoSource
    <2> HIDE DEF nothing, none
    <2>2. HasKind([none EXCEPT !.kind = kind, !.target = target, !.env = env,
                             !.bearer = bearer], kind, target)
      BY <2>1
    <2> QED
      BY <2>2 DEF none
  <1>3. CASE entry.type = "stdio" /\ entry.words[1] = Command
    BY <1>3, WrapperDirect DEF ParseEntry
  <1>4. CASE ~(entry.type = "stdio" /\ entry.words[1] = Command)
    <2> DEFINE none == NoSource
               given == [NoSource EXCEPT !.kind = entry.type, !.target = entry.words,
                                         !.env = entry.env, !.bearer = entry.bearer]
               source == IF entry.type = "none" THEN none ELSE given
               parsed == ParseEntry(entry)
    <2>1. given.kind = entry.type /\ given.target = entry.words
      <3>1. HasKind(given, entry.type, entry.words)
        <4> HIDE DEF HasKind
        <4> QED
          BY <1>2
      <3> HIDE DEF given
      <3> QED
        BY <3>1
    <2>2. parsed = [policy |-> "", source |-> source]
      BY <1>4 DEF ParseEntry
    <2>3. Direct(none)
      BY <1>1
    <2> HIDE DEF none, given, parsed
    <2>4. Direct(given)
      BY <1>4, <2>1 DEF Direct
    <2>5. parsed.source = source
      BY <2>2
    <2>6. Direct(source)
      BY <2>3, <2>4
    <2> HIDE DEF source
    <2> QED
      BY <2>5, <2>6 DEF parsed
  <1> QED
    BY <1>3, <1>4

LEMMA AddPickIsDirect ==
    ASSUME NEW s \in Sessions, NEW o, NEW pick \in AddPicks(s, o)
    PROVE  Direct(pick.source)
  <1> DEFINE x == ParseEntry(sess[s].seen[o[1]][o[2]]).source
             cs == ServerCandidates(o[1], x)
  <1>1. pick.source \in IF x.profile # "" /\ ~Stored(x.profile) THEN {}
                        ELSE DiscoverSetupServer(cs, Profile(s))
    BY PickSource, Zenon DEF AddPicks
  <1>2. IsUpstream(x) /\ OneOrTwo(cs, x) /\ Direct(x)
    BY EntryUpstream, CandidatesOf, EntryDirect
  <1> HIDE DEF x, cs
  <1>3. pick.source \in DiscoverSetupServer(cs, Profile(s))
    BY <1>1
  <1> QED
    BY <1>2, <1>3, DirectFound

LEMMA ManualPickIsDirect ==
    ASSUME Routed, NEW s \in Sessions, NEW c, NEW n, NEW port,
           NEW pick \in ManualPicks(s, c, n, port)
    PROVE  Direct(pick.source)
  <1> DEFINE x == scene.typed
             cs == <<x>>
  <1>1. pick.source \in DiscoverSetupServer(cs, Profile(s))
    BY PickSource, Zenon DEF ManualPicks
  <1>2. IsUpstream(x) /\ Direct(x)
    <2>1. scene \in Scenes
      BY DEF Routed, Shape
    <2>2. x \in Sources /\ (x.kind = "stdio" /\ x.target # <<>> => x.target[1] # Command)
      BY <2>1, SceneAssumption
    <2> QED
      BY <2>2, SourceIs DEF IsUpstream, Direct
  <1>3. OneOrTwo(cs, x)
    BY DEF OneOrTwo
  <1> HIDE DEF x, cs
  <1> QED
    BY <1>1, <1>2, <1>3, DirectFound

-----------------------------------------------------------------------------
(* What a step leaves of the promise that the user's entries come back.    *)

RedeemsOn(r) ==
    /\ sess'[r].pc = "writing" =>
          \A o \in Owners :
             Brings(tampered', own', disk', sess'[r], moved'[r], scene.command[r], o)
    /\ \/ Claims(tampered', sess'[r], moved'[r], scene.command[r])
       \/ sess'[r].pc # "chosen"
       \/ /\ sess'[r] = sess[r] /\ moved[r] \subseteq moved'[r]
          /\ \A o \in Owners :
                ConfigFile(o[1]) \notin moved'[r] => (o \in tampered => o \in tampered')

LEMMA ClaimsStays ==
    ASSUME NEW T, NEW j, NEW files, NEW command, Claims(T, j, files, command),
           DOMAIN j.picked \subseteq Owners, NEW more, files \subseteq more, NEW U,
           \A o \in Owners : ConfigFile(o[1]) \notin more => (o \in T => o \in U)
    PROVE  Claims(U, j, more, command)
  <1>1. ASSUME command = "restore", j.pc = "chosen", NEW o \in DOMAIN j.picked,
               j.picked[o].kind = "legacy", ConfigFile(o[1]) \notin more
        PROVE  o \in U
    <2>1. ConfigFile(o[1]) \notin files
      BY <1>1
    <2>2. o \in T
      BY <1>1, <2>1 DEF Claims
    <2> QED
      BY <1>1, <2>2
  <1> QED
    BY <1>1 DEF Claims

LEMMA ClaimsNothing ==
    ASSUME NEW T, NEW j, NEW files, NEW command, j.pc # "chosen"
    PROVE  Claims(T, j, files, command)
  BY DEF Claims

LEMMA RedeemableStays ==
    ASSUME Kept, Redeemable, UNCHANGED scene,
           LockFree' => \A o \in Owners : Returns(tampered', own', disk', o),
           \A r \in Sessions : RedeemsOn(r)
    PROVE  Redeemable'
  <1>1. ASSUME NEW r \in Sessions
        PROVE  Claims(tampered', sess'[r], moved'[r], scene.command[r])
    <2>1. RedeemsOn(r)
      OBVIOUS
    <2>2. CASE sess'[r].pc # "chosen"
      BY <2>2, ClaimsNothing
    <2>3. CASE /\ sess'[r] = sess[r] /\ moved[r] \subseteq moved'[r]
               /\ \A o \in Owners :
                     ConfigFile(o[1]) \notin moved'[r] => (o \in tampered => o \in tampered')
      <3>1. Claims(tampered, sess[r], moved[r], scene.command[r])
            /\ DOMAIN sess[r].picked \subseteq Owners
        BY DEF Kept, Redeemable
      <3>2. Claims(tampered', sess[r], moved'[r], scene.command[r])
        BY <2>3, <3>1, ClaimsStays
      <3> QED
        BY <2>3, <3>2
    <2> QED
      BY <2>1, <2>2, <2>3 DEF RedeemsOn
  <1>2. ASSUME NEW r \in Sessions
        PROVE  Writing(r)' =>
                  \A o \in Owners :
                     Brings(tampered', own', disk', sess'[r], moved'[r], scene.command[r], o)
    BY DEF RedeemsOn, Writing
  <1> QED
    BY <1>1, <1>2 DEF Redeemable

LEMMA QuietRedeems ==
    ASSUME Kept, Redeemable, NEW s \in Sessions, UNCHANGED <<scene, disk, own, tampered>>,
           ~Writing(s), sess'[s].pc # "writing",
           Claims(tampered, sess'[s], moved'[s], scene.command[s]),
           \A r \in Sessions : r # s => sess'[r] = sess[r] /\ moved'[r] = moved[r]
    PROVE  Redeemable'
  <1>1. LockFree' => \A o \in Owners : Returns(tampered', own', disk', o)
    BY DEF LockFree, Redeemable, Writing
  <1>2. RedeemsOn(s)
    BY DEF RedeemsOn
  <1>3. ASSUME NEW r \in Sessions, r # s
        PROVE  RedeemsOn(r)
    BY <1>3 DEF RedeemsOn, Redeemable, Writing
  <1> QED
    BY <1>1, <1>2, <1>3, RedeemableStays

LEMMA QuitRedeems ==
    ASSUME Routed, Kept, Redeemable, NEW s \in Sessions, ~Writing(s), Ends(s),
           UNCHANGED <<scene, disk, own, tampered>>
    PROVE  Redeemable'
  <1>1. /\ Becomes(s, [Idle EXCEPT !.pc = "ended"])
        /\ \A r \in Sessions : r # s => moved'[r] = moved[r]
    BY DEF Ends, Routed, Shape
  <1>2. sess'[s].pc = "ended" /\ \A r \in Sessions : r # s => sess'[r] = sess[r]
    BY <1>1, EndedIs
  <1>3. Claims(tampered, sess'[s], moved'[s], scene.command[s])
    BY <1>2, ClaimsNothing
  <1> QED
    BY <1>1, <1>2, <1>3, QuietRedeems

LEMMA PlanRedeems ==
    ASSUME Routed, Kept, Redeemable, NEW s \in Sessions, ~Writing(s), LockFree,
           NEW files, NEW after, NEW healed,
           Begin(s, files, after, healed), UNCHANGED scene, tampered \subseteq tampered',
           \A o \in Owners :
              Brings(tampered', own', disk', sess'[s], moved'[s], scene.command[s], o)
    PROVE  Redeemable'
  <1>1. /\ sess'[s].pc = "writing"
        /\ \A r \in Sessions : r # s => sess'[r] = sess[r] /\ moved'[r] = moved[r]
    BY Begun
  <1>2. ~LockFree'
    BY <1>1 DEF LockFree
  <1>3. RedeemsOn(s)
    BY <1>1 DEF RedeemsOn
  <1>4. ASSUME NEW r \in Sessions, r # s
        PROVE  RedeemsOn(r)
    <2>1. sess'[r] = sess[r] /\ moved'[r] = moved[r] /\ sess[r].pc # "writing"
      BY <1>1, <1>4 DEF LockFree
    <2> QED
      BY <2>1 DEF RedeemsOn
  <1> QED
    BY <1>2, <1>3, <1>4, RedeemableStays

LEMMA PlansRedeem ==
    ASSUME Routed, Kept, Serving, Redeemable, NEW s \in Sessions,
           AddPlan(s) \/ ManualPlan(s) \/ RestorePlan(s)
    PROVE  Redeemable'
  <1>1. CASE AddPlan(s)
    <2>1. \E entries, routes, healed : BeginSetup(s, Installed(s, entries, routes, FALSE), healed)
      BY <1>1, Zenon DEF AddPlan
    <2>2. PICK files, after, healed : Begin(s, files, after, healed)
      BY <2>1 DEF BeginSetup
    <2>3. LockFree /\ ~Writing(s) /\ UNCHANGED scene /\ scene.command[s] = "add"
      BY <1>1 DEF AddPlan, Runs, Writing
    <2>4. tampered \subseteq tampered'
      BY <1>1 DEF AddPlan
    <2>5. \A o \in Owners :
             Brings(tampered', own', disk', sess'[s], moved'[s], scene.command[s], o)
      BY <1>1, <2>3, AddPlanBrings
    <2> QED
      BY <2>2, <2>3, <2>4, <2>5, PlanRedeems
  <1>2. CASE ManualPlan(s)
    <2>1. \E entries, routes, healed : BeginSetup(s, Installed(s, entries, routes, TRUE), healed)
      BY <1>2, Zenon DEF ManualPlan
    <2>2. PICK files, after, healed : Begin(s, files, after, healed)
      BY <2>1 DEF BeginSetup
    <2>3. LockFree /\ ~Writing(s) /\ UNCHANGED scene /\ scene.command[s] = "manual"
      BY <1>2 DEF ManualPlan, Runs, Writing
    <2>4. tampered \subseteq tampered'
      BY <1>2 DEF ManualPlan
    <2>5. \A o \in Owners :
             Brings(tampered', own', disk', sess'[s], moved'[s], scene.command[s], o)
      BY <1>2, <2>3, ManualPlanBrings
    <2> QED
      BY <2>2, <2>3, <2>4, <2>5, PlanRedeems
  <1>3. CASE RestorePlan(s)
    <2>1. \E after, policies : BeginRestore(s, after, policies)
      BY <1>3, Zenon DEF RestorePlan
    <2>2. PICK files, after, healed : Begin(s, files, after, healed)
      BY <2>1 DEF BeginRestore
    <2>3. LockFree /\ ~Writing(s) /\ UNCHANGED scene /\ scene.command[s] = "restore"
      BY <1>3 DEF RestorePlan, Runs, Writing
    <2>4. tampered \subseteq tampered'
      BY <1>3 DEF RestorePlan
    <2>5. \A o \in Owners :
             Brings(tampered', own', disk', sess'[s], moved'[s], scene.command[s], o)
      BY <1>3, <2>3, RestorePlanBrings
    <2> QED
      BY <2>2, <2>3, <2>4, <2>5, PlanRedeems
  <1> QED
    BY <1>1, <1>2, <1>3

LEMMA WriteRedeems ==
    ASSUME Routed, Kept, Serving, Redeemable, NEW s \in Sessions, Write(s)
    PROVE  Redeemable'
  <1>1. Writing(s) /\ UNCHANGED <<scene, own>>
    BY Writes
  <1>2. PICK f \in Due(s) \ moved[s] :
           /\ disk' = Copy(disk, {f}, sess[s].after)
           /\ Wrote(sess[s], sess'[s], f) /\ sess'[s].pc = "writing"
           /\ sess'[s].healed = sess[s].healed
           /\ tampered' = tampered \ {o \in sess[s].healed : f = ConfigFile(o[1])}
           /\ moved'[s] = moved[s]
           /\ \A r \in Sessions : r # s =>
                 /\ sess'[r] = sess[r]
                 /\ sess[r].pc \in {"loaded", "chosen", "writing"} =>
                       moved'[r] = moved[r] \union {f}
    BY WriteHeals
  <1>3. f \in sess[s].files /\ f \notin sess[s].written
    BY DEF Due, Files, Written
  <1>4. ASSUME NEW o \in Owners
        PROVE  Brings(tampered', own', disk', sess'[s], moved'[s], scene.command[s], o)
    <2> DEFINE j == sess[s]
               k == sess'[s]
               files == moved[s]
               command == scene.command[s]
               v == World
               x == disk'
               U == tampered'
    <2>1. Works(v, disk, j, files, command) /\ IsDisk(disk)
      BY <1>1, WritingIs
    <2>2. Brings(tampered, own, disk, j, files, command, o)
      BY <1>1 DEF Redeemable
    <2>3. Puts(tampered, U, disk, x, j, k, files, f)
      BY <1>2, <1>3 DEF Puts
    <2>4. moved'[s] = files /\ own' = own
      BY <1>1, <1>2
    <2> DEFINE w == own
    <2> HIDE DEF j, k, files, command, v, w, x, U
    <2>5. Brings(U, w, x, k, files, command, o)
      BY <2>1, <2>2, <2>3, WriteBrings DEF w
    <2> QED
      BY <2>4, <2>5 DEF U, w, x, k, command
  <1>5. ~LockFree'
    BY <1>2 DEF LockFree
  <1>6. RedeemsOn(s)
    BY <1>2, <1>4 DEF RedeemsOn
  <1>7. ASSUME NEW r \in Sessions, r # s
        PROVE  RedeemsOn(r)
    <2>1. sess'[r] = sess[r] /\ sess[r].pc # "writing"
      BY <1>1, <1>2, <1>7 DEF Routed, OneWriter, Writing
    <2>2. CASE sess[r].pc # "chosen"
      BY <2>1, <2>2 DEF RedeemsOn
    <2>3. CASE sess[r].pc = "chosen"
      <3>1. moved'[r] = moved[r] \union {f}
        BY <1>2, <1>7, <2>3
      <3>2. \A o \in Owners :
               ConfigFile(o[1]) \notin moved'[r] => (o \in tampered => o \in tampered')
        BY <1>2, <3>1
      <3> QED
        BY <2>1, <3>1, <3>2 DEF RedeemsOn
    <2> QED
      BY <2>2, <2>3
  <1> QED
    BY <1>1, <1>5, <1>6, <1>7, RedeemableStays

LEMMA EndRedeems ==
    ASSUME Routed, Kept, Redeemable, NEW s \in Sessions, Writing(s), UNCHANGED scene,
           sess'[s].pc = "ended", \A o \in Owners : Returns(tampered', own', disk', o),
           \A o \in Owners : o \in tampered => o \in tampered',
           \A r \in Sessions : r # s =>
              /\ sess'[r] = sess[r]
              /\ sess[r].pc = "chosen" => moved[r] \subseteq moved'[r]
    PROVE  Redeemable'
  <1>1. RedeemsOn(s)
    BY DEF RedeemsOn
  <1>2. ASSUME NEW r \in Sessions, r # s
        PROVE  RedeemsOn(r)
    <2>1. sess'[r] = sess[r] /\ sess[r].pc # "writing"
      BY <1>2 DEF Routed, OneWriter, Writing
    <2>2. CASE sess[r].pc # "chosen"
      BY <2>1, <2>2 DEF RedeemsOn
    <2>3. CASE sess[r].pc = "chosen"
      <3>1. moved[r] \subseteq moved'[r]
        BY <1>2, <2>3
      <3> QED
        BY <2>1, <3>1 DEF RedeemsOn
    <2> QED
      BY <2>2, <2>3
  <1> QED
    BY <1>1, <1>2, RedeemableStays

(* Wherever a session that writes stops, the entries come back. *)
LEMMA WritingReturns ==
    ASSUME Routed, Kept, Serving, Redeemable, NEW s \in Sessions, Writing(s), NEW o \in Owners
    PROVE  Returns(tampered, own, disk, o)
  <1> DEFINE j == sess[s]
             files == moved[s]
             command == scene.command[s]
             v == World
             T == tampered
             w == own
  <1>1. /\ Works(v, disk, j, files, command) /\ j.written \subseteq j.files
        /\ Lands(T, removed, disk, j, files, command)
    BY WritingIs
  <1>2. Brings(T, w, disk, j, files, command, o)
    BY DEF Redeemable
  <1> HIDE DEF j, files, command, v, T, w
  <1>3. Returns(T, w, disk, o)
    BY <1>1, <1>2, BringsReturns
  <1> QED
    BY <1>3 DEF T, w

LEMMA AllReturn ==
    ASSUME Routed, Kept, Serving, Redeemable, NEW o \in Owners
    PROVE  Returns(tampered, own, disk, o)
  <1>1. CASE LockFree
    BY <1>1 DEF Redeemable
  <1>2. CASE ~LockFree
    <2>1. PICK s \in Sessions : Writing(s)
      BY <1>2 DEF LockFree, Writing
    <2> QED
      BY <2>1, WritingReturns
  <1> QED
    BY <1>1, <1>2

(* A session that leaves the disk as it is. *)
LEMMA StopRedeems ==
    ASSUME Routed, Kept, Serving, Redeemable, NEW s \in Sessions, Crash(s) \/ Finish(s)
    PROVE  Redeemable'
  <1>1. Writing(s) /\ Ends(s) /\ UNCHANGED <<scene, disk, own, tampered>>
    BY DEF Crash, Finish
  <1>2. /\ Becomes(s, [Idle EXCEPT !.pc = "ended"])
        /\ \A r \in Sessions : r # s => moved'[r] = moved[r]
    BY <1>1 DEF Ends, Routed, Shape
  <1>3. /\ sess'[s].pc = "ended"
        /\ \A r \in Sessions : r # s => sess'[r] = sess[r] /\ moved'[r] = moved[r]
    BY <1>2, EndedIs
  <1>4. \A o \in Owners : Returns(tampered, own, disk, o)
    BY AllReturn
  <1>5. \A o \in Owners : Returns(tampered', own', disk', o) /\ (o \in tampered => o \in tampered')
    BY <1>1, <1>4
  <1> QED
    BY <1>1, <1>3, <1>5, EndRedeems

LEMMA RollBackRedeems ==
    ASSUME Routed, Kept, Serving, Redeemable, NEW s \in Sessions, Writing(s), RollBack(s),
           UNCHANGED <<scene, own>>
    PROVE  Redeemable'
  <1> DEFINE undo == sess[s].written \ moved[s]
             spared == sess[s].written \cap moved[s]
  <1>1. /\ disk' = Copy(disk, undo, sess[s].before)
        /\ Becomes(s, [Idle EXCEPT !.pc = "ended"])
        /\ moved' = [r \in Sessions |->
              IF r = s THEN {}
              ELSE IF sess[r].pc \in {"loaded", "chosen"} THEN moved[r] \union undo
                   ELSE moved[r]]
        /\ tampered' = tampered \union sess[s].healed
                          \union IF spared = {} THEN {} ELSE DOMAIN sess[s].picked
    BY DEF RollBack, Written
  <1>2. sess'[s].pc = "ended" /\ \A r \in Sessions : r # s => sess'[r] = sess[r]
    BY <1>1, EndedIs
  <1>3. ASSUME NEW o \in Owners
        PROVE  Returns(tampered', own, disk', o)
    <2> DEFINE j == sess[s]
               files == moved[s]
               command == scene.command[s]
               v == World
               T == tampered
               w == own
               x == disk'
               U == tampered'
    <2>1. /\ Works(v, disk, j, files, command) /\ j.written \subseteq j.files /\ IsDisk(disk)
          /\ Lands(T, removed, disk, j, files, command)
      BY WritingIs
    <2>2. Undoes(T, U, disk, x, j, files)
      BY <1>1 DEF Undoes
    <2>3. Brings(T, w, disk, j, files, command, o)
      BY DEF Redeemable
    <2> HIDE DEF j, files, command, v, T, w, x, U
    <2>4. Returns(U, w, x, o)
      BY <2>1, <2>2, <2>3, RollBackReturns
    <2> QED
      BY <2>4 DEF U, w, x
  <1>4. \A o \in Owners : o \in tampered => o \in tampered'
    BY <1>1
  <1>5. \A r \in Sessions : r # s =>
           /\ sess'[r] = sess[r]
           /\ sess[r].pc = "chosen" => moved[r] \subseteq moved'[r]
    BY <1>1, <1>2
  <1>6. \A o \in Owners : Returns(tampered', own', disk', o)
    BY <1>3
  <1> QED
    BY <1>2, <1>4, <1>5, <1>6, EndRedeems

-----------------------------------------------------------------------------
(* The user's edits, and what they give back.                              *)

LEMMA UserWritesRedeems ==
    ASSUME Routed, Kept, Redeemable, NEW q \in Owners, NEW entry, UserWrites(q, entry),
           UNCHANGED <<scene, sess>>,
           q \in tampered' \/ entry = own'[q],
           \A o \in Owners : o # q => own'[o] = own[o] /\ (o \in tampered => o \in tampered')
    PROVE  Redeemable'
  <1> DEFINE f == ConfigFile(q[1])
             x == disk'
             T == tampered
             U == tampered'
             w == own
             v == own'
  <1>1. Moved({f}, {})
    BY DEF UserWrites
  <1>2. /\ x.state = disk.state /\ x.route = disk.route /\ Entry(x, q) = entry
        /\ \A o \in Owners : o # q => Entry(x, o) = Entry(disk, o)
    BY UserWritesIs
  <1>3. Handed(T, U, w, v, disk, x, q)
    <2>1. \A o \in Owners : Rec(x, o) = Rec(disk, o)
      BY <1>2 DEF Rec
    <2> HIDE DEF x
    <2> QED
      BY <1>2, <2>1 DEF Handed
  <1> HIDE DEF x, T, U, w, v
  <1>4. LockFree' => \A o \in Owners : Returns(U, v, x, o)
    <2> SUFFICES ASSUME LockFree, NEW o \in Owners PROVE Returns(U, v, x, o)
      BY DEF LockFree
    <2>1. Returns(T, w, disk, o)
      BY DEF Redeemable, T, w
    <2> QED
      BY <1>3, <2>1, HandedReturns
  <1>5. ASSUME NEW r \in Sessions
        PROVE  RedeemsOn(r)
    <2>1. /\ sess[r].pc \in {"chosen", "writing"} => moved'[r] = moved[r] \union {f}
          /\ sess'[r] = sess[r]
      BY <1>1 DEF Moved
    <2>2. ASSUME sess'[r].pc = "writing", NEW o \in Owners
          PROVE  Brings(U, v, x, sess'[r], moved'[r], scene.command[r], o)
      <3> DEFINE j == sess[r]
                 files == moved[r]
                 more == moved'[r]
                 command == scene.command[r]
      <3>1. Brings(T, w, disk, j, files, command, o)
        BY <2>1, <2>2 DEF Redeemable, Writing, T, w
      <3>2. more = files \union {ConfigFile(q[1])}
        BY <2>1, <2>2
      <3> HIDE DEF j, files, more, command
      <3>3. Brings(U, v, x, j, more, command, o)
        BY <1>3, <3>1, <3>2, HandedBrings
      <3> QED
        BY <2>1, <3>3 DEF j, more, command
    <2>3. ASSUME sess'[r].pc = "chosen"
          PROVE  /\ sess'[r] = sess[r] /\ moved[r] \subseteq moved'[r]
                 /\ \A o \in Owners :
                       ConfigFile(o[1]) \notin moved'[r] => (o \in tampered => o \in tampered')
      <3>1. moved'[r] = moved[r] \union {f} /\ sess'[r] = sess[r]
        BY <2>1, <2>3
      <3>2. \A o \in Owners : ConfigFile(o[1]) \notin moved'[r] => o # q
        BY <3>1
      <3> QED
        BY <3>1, <3>2
    <2> QED
      BY <2>2, <2>3 DEF RedeemsOn, U, v, x
  <1>6. LockFree' => \A o \in Owners : Returns(tampered', own', disk', o)
    BY <1>4 DEF U, v, x
  <1> QED
    BY <1>5, <1>6, RedeemableStays

LEMMA UserReplacesRedeems ==
    ASSUME Routed, Kept, Redeemable, NEW q \in Owners, UserReplaces(q)
    PROVE  Redeemable'
  <1>1. PICK edit :
           /\ UserWrites(q, edit.entry)
           /\ own' = [own EXCEPT ![q] = edit.own]
           /\ tampered' = IF edit.entry = edit.own THEN tampered \ {q} ELSE tampered \union {q}
           /\ UNCHANGED <<scene, sess>>
    BY DEF UserReplaces
  <1>2. own = [o \in Owners |-> own[o]]
    BY DEF Kept, Tables
  <1>3. own'[q] = edit.own /\ \A o \in Owners : o # q => own'[o] = own[o]
    BY <1>1, <1>2
  <1>4. q \in tampered' \/ edit.entry = own'[q]
    BY <1>1, <1>3
  <1>5. \A o \in Owners : o # q => own'[o] = own[o] /\ (o \in tampered => o \in tampered')
    BY <1>1, <1>3
  <1> QED
    BY <1>1, <1>4, <1>5, UserWritesRedeems

LEMMA UserTweaksRedeems ==
    ASSUME Routed, Kept, Redeemable, NEW q \in Owners, UserTweaks(q)
    PROVE  Redeemable'
  <1> DEFINE entry == Tweaked(disk.config[q[1]][q[2]])
  <1>1. UserWrites(q, entry) /\ UNCHANGED <<scene, sess>>
    BY DEF UserTweaks
  <1>2. q \in tampered'
        /\ \A o \in Owners : o # q => own'[o] = own[o] /\ (o \in tampered => o \in tampered')
    BY DEF UserTweaks
  <1> HIDE DEF entry
  <1> QED
    BY <1>1, <1>2, UserWritesRedeems

LEMMA UserPolicyRedeems ==
    ASSUME Routed, Kept, Redeemable, NEW q \in Paths, UserPolicy(q)
    PROVE  Redeemable'
  <1> DEFINE f == PolicyFile(q)
             x == disk'
             T == tampered
             w == own
  <1>1. PICK policy :
           /\ disk' = [disk EXCEPT !.policy[q] = policy] /\ Moved({f}, {})
           /\ UNCHANGED <<scene, sess, own, tampered>>
    BY DEF UserPolicy
  <1>2. x.config = disk.config /\ x.state = disk.state /\ x.route = disk.route
    BY <1>1 DEF Routed, Shape, IsDisk
  <1>3. \A o \in Owners : /\ Entry(x, o) = Entry(disk, o) /\ Rec(x, o) = Rec(disk, o)
                          /\ x.route[o] = disk.route[o]
    BY <1>2 DEF Entry, Rec
  <1> HIDE DEF x
  <1>4. LockFree' => \A o \in Owners : Returns(T, w, x, o)
    <2> SUFFICES ASSUME LockFree, NEW o \in Owners PROVE Returns(T, w, x, o)
      BY <1>1 DEF LockFree
    <2>1. Returns(T, w, disk, o)
      BY DEF Redeemable
    <2> HIDE DEF T, w
    <2> QED
      BY <1>3, <2>1, SameBrings
  <1>5. ASSUME NEW r \in Sessions
        PROVE  RedeemsOn(r)
    <2>1. /\ sess[r].pc \in {"chosen", "writing"} => moved'[r] = moved[r] \union {f}
          /\ sess'[r] = sess[r]
      BY <1>1 DEF Moved
    <2>2. ASSUME sess'[r].pc = "writing", NEW o \in Owners
          PROVE  Brings(T, w, x, sess'[r], moved'[r], scene.command[r], o)
      <3> DEFINE j == sess[r]
                 files == moved[r]
                 more == moved'[r]
                 command == scene.command[r]
      <3>1. Brings(T, w, disk, j, files, command, o)
        BY <2>1, <2>2 DEF Redeemable, Writing
      <3>2. ConfigFile(o[1]) \in more <=> ConfigFile(o[1]) \in files
        <4>1. ConfigFile(o[1]) # f
          BY FilesDiffer
        <4> HIDE DEF f
        <4> QED
          BY <2>1, <2>2, <4>1
      <3> HIDE DEF j, files, more, command, T, w
      <3>3. Brings(T, w, x, j, more, command, o)
        BY <1>3, <3>1, <3>2, SameBrings
      <3> QED
        BY <2>1, <3>3 DEF j, more, command
    <2>3. ASSUME sess'[r].pc = "chosen"
          PROVE  /\ sess'[r] = sess[r] /\ moved[r] \subseteq moved'[r]
                 /\ \A o \in Owners :
                       ConfigFile(o[1]) \notin moved'[r] => (o \in tampered => o \in tampered')
      BY <1>1, <2>1, <2>3
    <2> QED
      BY <1>1, <2>2, <2>3 DEF RedeemsOn, x
  <1>6. LockFree' => \A o \in Owners : Returns(tampered', own', disk', o)
    BY <1>1, <1>4 DEF x
  <1>7. UNCHANGED scene
    BY <1>1
  <1> QED
    BY <1>5, <1>6, <1>7, RedeemableStays

-----------------------------------------------------------------------------
(* What the sessions choose.                                               *)

LEMMA AddLoadRedeems ==
    ASSUME Routed, Kept, Redeemable, NEW s \in Sessions, AddLoad(s)
    PROVE  Redeemable'
  <1>1. PICK T : Becomes(s, Loaded("loaded", [o \in T |-> NoPick]))
    BY DEF AddLoad
  <1>2. ~Writing(s) /\ UNCHANGED <<scene, disk, moved, own, tampered>>
    BY DEF AddLoad, Runs, Writing
  <1> DEFINE picked == [o \in T |-> NoPick]
  <1> HIDE DEF picked
  <1>3. sess'[s].pc = "loaded" /\ \A r \in Sessions : r # s => sess'[r] = sess[r]
    BY <1>1, BecomesIs, LoadedIs DEF Routed, picked
  <1>4. Claims(tampered, sess'[s], moved'[s], scene.command[s])
    BY <1>3, ClaimsNothing
  <1>5. /\ sess'[s].pc # "writing"
        /\ \A r \in Sessions : r # s => sess'[r] = sess[r] /\ moved'[r] = moved[r]
    BY <1>2, <1>3
  <1> QED
    BY <1>2, <1>4, <1>5, QuietRedeems

LEMMA AddChooseRedeems ==
    ASSUME Routed, Kept, Redeemable, NEW s \in Sessions, AddChoose(s)
    PROVE  Redeemable'
  <1> DEFINE T == DOMAIN sess[s].picked
             Session(picked) ==
               [sess[s] EXCEPT !.pc = "chosen", !.picked = picked, !.policies = disk.policy]
  <1>1. PICK kept, picked :
           /\ picked \in [kept -> UNION {AddPicks(s, o) : o \in kept}]
           /\ \A o \in kept : picked[o] \in AddPicks(s, o)
           /\ Becomes(s, Session(picked))
    <2>1. \E kept \in (SUBSET T) \ {{}} :
          \E picked \in [kept -> UNION {AddPicks(s, o) : o \in kept}] :
             /\ \A o \in kept : picked[o] \in AddPicks(s, o)
             /\ Becomes(s, Session(picked))
      BY Zenon DEF AddChoose
    <2> HIDE DEF Session
    <2> QED
      BY <2>1
  <1>2. /\ scene.command[s] = "add" /\ ~Writing(s)
        /\ UNCHANGED <<scene, disk, own, tampered>> /\ \E F : Reads(s, F)
    BY Zenon DEF AddChoose, Runs, Writing
  <1>3. DOMAIN picked = kept
    BY <1>1
  <1> DEFINE chosen == Session(picked)
  <1>4. chosen.pc = "chosen" /\ chosen.picked = picked
    BY DEF Routed, Shape, IsSession
  <1> HIDE DEF chosen
  <1>5. /\ sess'[s].pc = "chosen" /\ sess'[s].picked = picked
        /\ \A r \in Sessions : r # s => sess'[r] = sess[r]
    BY <1>1, <1>4, BecomesIs DEF Routed, chosen
  <1>6. \A o \in kept : Direct(picked[o].source)
    BY <1>1, AddPickIsDirect
  <1>7. Claims(tampered, sess'[s], moved'[s], scene.command[s])
    BY <1>2, <1>3, <1>5, <1>6 DEF Claims
  <1>8. /\ sess'[s].pc # "writing"
        /\ \A r \in Sessions : r # s => sess'[r] = sess[r] /\ moved'[r] = moved[r]
    BY <1>2, <1>5 DEF Reads, Routed, Shape
  <1> QED
    BY <1>2, <1>7, <1>8, QuietRedeems

LEMMA ManualLoadRedeems ==
    ASSUME Routed, Kept, Redeemable, NEW s \in Sessions, ManualLoad(s)
    PROVE  Redeemable'
  <1>1. /\ scene.command[s] = "manual" /\ ~Writing(s)
        /\ UNCHANGED <<scene, disk, moved, own, tampered>>
    BY DEF ManualLoad, Runs, Writing
  <1> DEFINE Picked(n, C, pick) == [o \in {<<c, n>> : c \in C} |-> pick[o[1]]]
             Session(n, C, pick) ==
               [Loaded("chosen", Picked(n, C, pick)) EXCEPT !.policies = disk.policy]
  <1>2. PICK n, port, C, pick :
           /\ \A c \in C : pick[c] \in ManualPicks(s, c, n, port)
           /\ Becomes(s, Session(n, C, pick))
    <2>1. \E n \in scene.names, port \in IF UsedPorts = {} THEN Ports ELSE UsedPorts :
          \E C \in SUBSET {c \in scene.files[s] : disk.config[c][n] = NoEntry} :
          \E pick \in [C -> UNION {ManualPicks(s, c, n, port) : c \in C}] :
             /\ \A c \in C : pick[c] \in ManualPicks(s, c, n, port)
             /\ Becomes(s, Session(n, C, pick))
      BY ZenonT(40) DEF ManualLoad
    <2> HIDE DEF Session
    <2> QED
      BY <2>1
  <1> DEFINE picked == Picked(n, C, pick)
             chosen == Session(n, C, pick)
  <1>3. \A o \in DOMAIN picked : o[1] \in C /\ picked[o] = pick[o[1]]
    OBVIOUS
  <1> HIDE DEF picked
  <1>4. chosen.pc = "chosen" /\ chosen.picked = picked
    <2>1. ASSUME NEW p
          PROVE  LET session == [Loaded("chosen", p) EXCEPT !.policies = disk.policy]
                 IN  session.pc = "chosen" /\ session.picked = p
      BY DEF Loaded, Idle
    <2> HIDE DEF Picked
    <2> QED
      BY <2>1 DEF picked
  <1>5. /\ sess'[s] = chosen /\ \A r \in Sessions : r # s => sess'[r] = sess[r]
    BY <1>2, BecomesIs DEF picked, Routed
  <1> HIDE DEF chosen
  <1>6. ASSUME NEW o \in DOMAIN picked
        PROVE  Direct(picked[o].source)
    <2>1. picked[o] \in ManualPicks(s, o[1], n, port)
      BY <1>2, <1>3
    <2> QED
      BY <2>1, ManualPickIsDirect
  <1>7. Claims(tampered, sess'[s], moved'[s], scene.command[s])
    BY <1>1, <1>4, <1>5, <1>6 DEF Claims
  <1>8. /\ sess'[s].pc # "writing"
        /\ \A r \in Sessions : r # s => sess'[r] = sess[r] /\ moved'[r] = moved[r]
    BY <1>1, <1>4, <1>5
  <1> QED
    BY <1>1, <1>7, <1>8, QuietRedeems

(* A backup is asked for only of a wrapper that its record does not fit. *)
LEMMA LegacyIsTampered ==
    ASSUME Routed, Kept, Serving, NEW o \in Owners,
           NEW choice \in RestoreChoices(disk, o[1], o[2]), choice.kind = "legacy"
    PROVE  o \in tampered
  <1> DEFINE record == Rec(disk, o)
             managed == ManagedPolicy(Entry(disk, o))
             by == FromRecord(record)
  <1>1. choice \in ChoicesFor(disk, o[1], o[2], record, managed)
    BY DEF RestoreChoices, Rec, Entry
  <1> HIDE DEF record, managed, by
  <1>2. choice.kind # "legacy" \/ (managed # "" /\ ~(record # NoRecord /\ record.path = managed))
    <2>1. \/ choice = [kind |-> "route", by |-> by]
          \/ choice = [kind |-> "record", by |-> by]
          \/ managed # "" /\ ~(record # NoRecord /\ record.path = managed)
      BY <1>1 DEF ChoicesFor, by
    <2>2. ASSUME NEW kind, choice = [kind |-> kind, by |-> by]
          PROVE  choice.kind = kind
      BY <2>2
    <2>3. choice.kind # "route" /\ choice.kind # "record"
      OBVIOUS
    <2> QED
      BY <2>1, <2>2, <2>3
  <1>3. o \in tampered \/ Fits(removed, disk, o)
    BY AllServed DEF Served
  <1>4. Fits(removed, disk, o) /\ managed # "" => managed = PathOf(o) /\ record.path = PathOf(o)
    BY DEF Fits, Managing, managed, record
  <1>5. record.path # "" => record # NoRecord
    BY NoRecordIs
  <1> QED
    BY <1>2, <1>3, <1>4, <1>5

LEMMA RestoreLoadRedeems ==
    ASSUME Routed, Kept, Serving, Redeemable, NEW s \in Sessions, RestoreLoad(s)
    PROVE  Redeemable'
  <1> DEFINE Choice(o) == CHOOSE choice \in RestoreChoices(disk, o[1], o[2]) : TRUE
             Picked(T) == [o \in T |-> [NoPick EXCEPT !.kind = Choice(o).kind, !.by = Choice(o).by]]
             Session(T, missing) == [Loaded("chosen", Picked(T)) EXCEPT !.missing = missing]
  <1>1. /\ scene.command[s] = "restore" /\ ~Writing(s)
        /\ UNCHANGED <<scene, disk, moved, own, tampered>>
    BY DEF RestoreLoad, Runs, Writing
  <1>2. PICK T \in SUBSET Owners, missing \in SUBSET Owners :
           /\ \A o \in T : RestoreChoices(disk, o[1], o[2]) # {}
           /\ Becomes(s, Session(T, missing))
    <2>1. \E T \in (SUBSET {o \in Owners : /\ o[1] \in scene.files[s]
                                           /\ RestoreChoices(disk, o[1], o[2]) # {}}) \ {{}} :
             Becomes(s, Session(T, {o \in T : disk.route[o] = NoRoute}))
      BY Zenon DEF RestoreLoad
    <2> HIDE DEF Session
    <2> QED
      BY <2>1
  <1> DEFINE picked == Picked(T)
             chosen == Session(T, missing)
  <1>3. ASSUME NEW o \in T, picked[o].kind = "legacy"
        PROVE  o \in tampered
    <2> DEFINE choice == Choice(o)
               blank == FromBackup([m \in Names |-> NoEntry])
    <2>1. choice \in RestoreChoices(disk, o[1], o[2])
      BY <1>2
    <2> HIDE DEF choice, blank
    <2>2. NoPick = [kind |-> "", by |-> blank, from |-> "", policy |-> NoFile, source |-> NoSource,
                    port |-> "", save |-> FALSE]
      BY DEF NoPick, blank
    <2>3. picked[o] = [NoPick EXCEPT !.kind = choice.kind, !.by = choice.by]
      BY DEF choice
    <2>4. ASSUME NEW item, NEW kind, NEW by, item = [NoPick EXCEPT !.kind = kind, !.by = by]
          PROVE  item.kind = kind
      BY <2>2, <2>4
    <2>5. picked[o].kind = choice.kind
      <3> HIDE DEF picked
      <3> QED
        BY <2>3, <2>4
    <2>6. choice.kind = "legacy" /\ o \in Owners
      BY <1>3, <2>5
    <2> QED
      BY <2>1, <2>6, LegacyIsTampered
  <1>4. DOMAIN picked = T
    OBVIOUS
  <1> HIDE DEF picked
  <1>5. chosen.pc = "chosen" /\ chosen.picked = picked
    <2>1. ASSUME NEW p
          PROVE  LET session == [Loaded("chosen", p) EXCEPT !.missing = missing]
                 IN  session.pc = "chosen" /\ session.picked = p
      BY DEF Loaded, Idle
    <2> HIDE DEF Picked
    <2> QED
      BY <2>1 DEF picked
  <1>6. /\ sess'[s] = chosen /\ \A r \in Sessions : r # s => sess'[r] = sess[r]
    BY <1>2, BecomesIs DEF picked, Routed
  <1> HIDE DEF chosen
  <1>7. Claims(tampered, sess'[s], moved'[s], scene.command[s])
    BY <1>1, <1>3, <1>4, <1>5, <1>6 DEF Claims
  <1>8. /\ sess'[s].pc # "writing"
        /\ \A r \in Sessions : r # s => sess'[r] = sess[r] /\ moved'[r] = moved[r]
    BY <1>1, <1>5, <1>6
  <1> QED
    BY <1>1, <1>7, <1>8, QuietRedeems

-----------------------------------------------------------------------------
(* The user's entries come back, always.                                   *)

LEMMA InitRedeemable == Init => Redeemable
  <1> SUFFICES ASSUME Init PROVE Redeemable
    OBVIOUS
  <1>1. /\ disk.config = scene.entries /\ sess = [s \in Sessions |-> Idle]
        /\ own = [o \in Owners |-> scene.entries[o[1]][o[2]]]
        /\ disk.state = [c \in Configs |-> [n \in Names |-> NoRecord]]
    BY DEF Init
  <1>2. ASSUME NEW o \in Owners
        PROVE  Returns(tampered, own, disk, o)
    <2>1. Entry(disk, o) = own[o]
      BY <1>1 DEF Entry
    <2>2. Rec(disk, o) = NoRecord
      <3>1. o[1] \in Configs /\ o[2] \in Names
        BY OwnerParts
      <3>2. disk.state[o[1]][o[2]] = NoRecord
        <4> HIDE DEF NoRecord
        <4> QED
          BY <1>1, <3>1
      <3> QED
        BY <3>2 DEF Rec
    <2> QED
      BY <2>1, <2>2 DEF Returns, Safe, Sealed
  <1>3. ASSUME NEW s \in Sessions
        PROVE  ~Writing(s) /\ Claims(tampered, sess[s], moved[s], scene.command[s])
    <2>1. sess[s].pc = "start"
      BY <1>1 DEF Idle
    <2> QED
      BY <2>1, ClaimsNothing DEF Writing
  <1> QED
    BY <1>2, <1>3 DEF Redeemable

LEMMA NextRedeems ==
    ASSUME Routed, Kept, Serving, Redeemable, Next
    PROVE  Redeemable'
  <1>1. ASSUME NEW s \in Sessions, Next1(s)
        PROVE  Redeemable'
    <2>1. CASE AddLoad(s)
      BY <2>1, AddLoadRedeems
    <2>2. CASE AddChoose(s)
      BY <2>2, AddChooseRedeems
    <2>3. CASE ManualLoad(s)
      BY <2>3, ManualLoadRedeems
    <2>4. CASE RestoreLoad(s)
      BY <2>4, RestoreLoadRedeems
    <2>5. CASE AddPlan(s) \/ ManualPlan(s) \/ RestorePlan(s)
      BY <2>5, PlansRedeem
    <2>6. CASE Cancel(s)
      BY <2>6, QuitRedeems DEF Cancel, Writing
    <2>7. CASE Refused(s)
      BY <2>7, QuitRedeems DEF Refused, LockFree, Writing
    <2>8. CASE Write(s)
      BY <2>8, WriteRedeems
    <2>9. CASE Finish(s)
      BY <2>9, StopRedeems
    <2>10. CASE Fail(s)
      BY <2>10, RollBackRedeems DEF Fail
    <2> QED
      BY <1>1, <2>1, <2>2, <2>3, <2>4, <2>5, <2>6, <2>7, <2>8, <2>9, <2>10 DEF Next1
  <1>2. ASSUME NEW s \in Sessions, Abort(s)
        PROVE  Redeemable'
    BY <1>2, RollBackRedeems DEF Abort
  <1>3. ASSUME NEW s \in Sessions, Crash(s)
        PROVE  Redeemable'
    BY <1>3, StopRedeems
  <1>4. ASSUME NEW o \in Owners, UserReplaces(o) \/ UserTweaks(o)
        PROVE  Redeemable'
    BY <1>4, UserReplacesRedeems, UserTweaksRedeems
  <1>5. ASSUME NEW p \in Paths, UserPolicy(p)
        PROVE  Redeemable'
    BY <1>5, UserPolicyRedeems
  <1> QED
    BY <1>1, <1>2, <1>3, <1>4, <1>5 DEF Next

LEMMA StutterRedeems ==
    ASSUME Kept, Redeemable, UNCHANGED vars
    PROVE  Redeemable'
  <1>1. UNCHANGED <<scene, disk, sess, moved, own, tampered>>
    BY DEF vars
  <1>2. LockFree' => \A o \in Owners : Returns(tampered', own', disk', o)
    BY <1>1 DEF LockFree, Redeemable
  <1>3. ASSUME NEW r \in Sessions
        PROVE  RedeemsOn(r)
    BY <1>1 DEF RedeemsOn, Redeemable, Writing
  <1> QED
    BY <1>1, <1>2, <1>3, RedeemableStays

LEMMA AlwaysRedeemable == Spec => [](Routed /\ Kept /\ Serving /\ Redeemable)
  <1>1. Init => Redeemable
    BY InitRedeemable
  <1>2. Routed /\ Kept /\ Serving /\ Redeemable /\ [Next]_vars => Redeemable'
    BY NextRedeems, StutterRedeems
  <1> QED
    BY <1>1, <1>2, AlwaysServing, PTL DEF Spec

LEMMA PutBack ==
    ASSUME NEW d, NEW o \in Owners, NEW u,
           PutsBack(u, o, Entry(d, o), Rec(d, o), d.route[o])
    PROVE  \E choice \in RestoreChoices(d, o[1], o[2]) :
              /\ choice.kind # "legacy" /\ Restorable(d.config[o[1]], o[2], choice.by)
              /\ choice.by.original[o[2]] = u
  <1> DEFINE r == Rec(d, o)
             e == Entry(d, o)
             rt == d.route[o]
             by == FromRecord(r)
             managed == ManagedPolicy(e)
  <1>1. RestoreChoices(d, o[1], o[2]) = ChoicesFor(d, o[1], o[2], r, managed)
    BY DEF RestoreChoices, Rec, Entry
  <1>2. /\ by.original = r.original /\ by.installed = r.installed /\ by.created = r.created
        /\ by.tracked
    BY DEF FromRecord
  <1>3. o = <<o[1], o[2]>>
    BY OwnerParts
  <1>4. /\ d.config[o[1]][o[2]] = e /\ d.state[o[1]][o[2]] = r
        /\ d.route[<<o[1], o[2]>>] = rt
    BY <1>3 DEF Entry, Rec
  <1>5. /\ r # NoRecord /\ r.original[o[2]] = u /\ (u # NoEntry \/ r.created)
        /\ r.installed[o[2]] = e
        /\ \/ managed # "" /\ r.path = managed
           \/ /\ r.created /\ r.route # NoRoute /\ e = HttpEntry(r.route.port, o)
              /\ rt \in {NoRoute, r.route}
    BY DEF PutsBack
  <1>6. e # NoEntry => Restorable(d.config[o[1]], o[2], by)
    <2> HIDE DEF by, r, e
    <2> QED
      BY <1>2, <1>4, <1>5 DEF Restorable
  <1>7. CASE managed # "" /\ r.path = managed
    <2>1. ~IsLocalHttp(e) /\ e # NoEntry
      <3>1. IsWrapper(e)
        BY <1>7, ManagedIsWrapper
      <3>2. e.type = "stdio"
        BY <3>1 DEF IsWrapper
      <3> QED
        BY <3>2, NoEntryIsPlain DEF IsLocalHttp
    <2>2. ~IsLocalHttp(d.config[o[1]][o[2]])
      BY <1>4, <2>1
    <2> DEFINE choice == [kind |-> "record", by |-> by]
    <2>3. choice \in ChoicesFor(d, o[1], o[2], r, managed)
      <3> HIDE DEF r, e, managed, by
      <3> QED
        BY <1>5, <1>7, <2>2 DEF ChoicesFor, by
    <2>4. choice.by = by /\ choice.kind # "legacy"
      OBVIOUS
    <2> HIDE DEF choice, by, r, e, managed
    <2>5. /\ choice.kind # "legacy" /\ Restorable(d.config[o[1]], o[2], choice.by)
          /\ choice.by.original[o[2]] = u
      BY <1>2, <1>5, <1>6, <2>1, <2>4
    <2> QED
      BY <1>1, <2>3, <2>5
  <1>8. CASE /\ r.created /\ r.route # NoRoute /\ e = HttpEntry(r.route.port, o)
             /\ rt \in {NoRoute, r.route}
    <2>1. IsLocalHttp(e) /\ e # NoEntry
      <3>1. IsLocalHttp(e)
        BY <1>8, HttpIsUnmanaged
      <3>2. e.type = "http"
        BY <3>1 DEF IsLocalHttp
      <3> QED
        BY <3>1, <3>2, NoEntryIsPlain
    <2>2. e.words = <<RouteUrl(r.route.port, o)>>
      <3>1. NoEntry = [type |-> "none", words |-> <<>>, env |-> <<>>, bearer |-> "", extra |-> ""]
        BY DEF NoEntry
      <3>2. HttpEntry(r.route.port, o).words = <<RouteUrl(r.route.port, o)>>
        <4> DEFINE url == RouteUrl(r.route.port, o)
        <4> HIDE DEF url
        <4> QED
          BY <3>1 DEF HttpEntry, url
      <3> QED
        BY <1>8, <3>2
    <2>3. RouteIsOwned(d, o[1], o[2])
      <3>1. rt = NoRoute \/ (rt = r.route /\ e.words = <<RouteUrl(rt.port, <<o[1], o[2]>>)>>)
        BY <1>3, <1>8, <2>2
      <3> HIDE DEF r, e, rt
      <3> QED
        BY <1>4, <3>1 DEF RouteIsOwned
    <2>4. IsLocalHttp(d.config[o[1]][o[2]]) /\ Restorable(d.config[o[1]], o[2], by)
      BY <1>4, <1>6, <2>1
    <2> DEFINE choice == [kind |-> "route", by |-> by]
    <2>5. choice \in ChoicesFor(d, o[1], o[2], r, managed)
      <3> HIDE DEF r, e, managed, by
      <3> QED
        BY <1>5, <1>8, <2>3, <2>4 DEF ChoicesFor, by
    <2>6. choice.by = by /\ choice.kind # "legacy"
      OBVIOUS
    <2> HIDE DEF choice, by, r, e, managed
    <2>7. /\ choice.kind # "legacy" /\ Restorable(d.config[o[1]], o[2], choice.by)
          /\ choice.by.original[o[2]] = u
      BY <1>2, <1>5, <2>4, <2>6
    <2> QED
      BY <1>1, <2>5, <2>7
  <1> QED
    BY <1>5, <1>7, <1>8

(* At every moment, with two setups, restores and edits by hand in any order,  *)
(* after every crash and rollback: the entry of a server is the one the user   *)
(* last gave it, or restore is offered for it, goes by the record that setup   *)
(* wrote of it, and puts exactly that entry back.                              *)
THEOREM EntriesComeBack == Spec => []Recoverable
  <1>1. ASSUME Routed, Kept, Serving, Redeemable
        PROVE  Recoverable
    <2> SUFFICES ASSUME NEW o \in Owners \ tampered
                 PROVE  \/ Entry(disk, o) = own[o]
                        \/ \E choice \in RestoreChoices(disk, o[1], o[2]) :
                              /\ choice.kind # "legacy"
                              /\ Restorable(disk.config[o[1]], o[2], choice.by)
                              /\ choice.by.original[o[2]] = own[o]
      BY DEF Recoverable, Entry
    <2>1. Safe(tampered, own[o], o, Entry(disk, o), Rec(disk, o), disk.route[o])
      <3>1. o \in Owners
        OBVIOUS
      <3>2. Returns(tampered, own, disk, o)
        BY <1>1, <3>1, AllReturn
      <3> QED
        BY <3>2 DEF Returns
    <2>2. CASE Entry(disk, o) = own[o]
      BY <2>2
    <2>3. CASE PutsBack(own[o], o, Entry(disk, o), Rec(disk, o), disk.route[o])
      BY <2>3, PutBack
    <2> QED
      BY <2>1, <2>2, <2>3 DEF Safe
  <1> QED
    BY <1>1, AlwaysRedeemable, PTL

=============================================================================
