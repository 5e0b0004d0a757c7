------------------------------- MODULE Wrapper -------------------------------
(* What setup writes into a client's configuration and reads back from it: the *)
(* command line of an `mcp-restrictor` wrapper, the client's entries, and the  *)
(* definition of a managed HTTP route.  A command line is a sequence of words; *)
(* BuildWrapperArgs writes one and ParseManagedWrapper is its only reader.     *)
EXTENDS Naturals, Sequences, SequencesExt

CONSTANTS
    Configs,     \* client configuration files, named by short strings
    Names,       \* server names
    Client,      \* Client[c]: the adapter that owns configuration c
    Root         \* Root[c]: the directory of c's policies (home or project)

NoSource == [kind |-> "none", target |-> <<>>, env |-> <<>>, cwd |-> "",
             bearer |-> "", profile |-> ""]

(* A client's entry: `words` is the command line, or the URL alone. *)
NoEntry == [type |-> "none", words |-> <<>>, env |-> <<>>, bearer |-> "", extra |-> ""]

Command == "mcp-restrictor"
MasterKeyVariable == "MCP_RESTRICTOR_MASTER_KEY_FILE"
ContainerMarker == "MCP_RESTRICTOR_CONTAINER"

PolicyLocation(c, n) == Root[c] \o Client[c] \o "/" \o n

------------------------------------------------------------------------------

RemoteOption == [http |-> "--upstream-http", sse |-> "--upstream-sse",
                 websocket |-> "--upstream-websocket"]
HeaderOption(kind) ==
    IF kind = "websocket" THEN "--upstream-header-base64url-env" ELSE "--upstream-header-env"

SingleOptions == {"--policy", "--upstream-cwd", "--upstream-bearer-token-env",
                  "--upstream-oauth-profile"} \cup {RemoteOption[k] : k \in DOMAIN RemoteOption}
HeaderOptions == {"--upstream-header-env", "--upstream-header-base64url-env"}
Options == SingleOptions \cup HeaderOptions \cup {"--upstream-env"}

(* optionValue: what may stand after an option; nothing that looks like one.   *)
Plain(value) == value \notin Options \cup {"", "--"}

Sources == [kind : {"stdio", "http", "sse", "websocket"}, target : Seq(STRING),
            env : Seq(STRING), cwd : STRING, bearer : STRING, profile : STRING]

(* What both the writer and the reader of a command line refuse. *)
WritableSource(src) ==
    /\ src \in Sources /\ src.target # <<>>
    /\ \A name \in ToSet(src.env) : Plain(name)
    /\ \A value \in {src.cwd, src.bearer, src.profile} : value # "" => Plain(value)
    /\ src.kind # "stdio" => Plain(src.target[1]) /\ IsInjective(src.env)
    /\ src.kind \in {"stdio", "websocket"} => src.bearer = "" /\ src.profile = ""
    /\ src.kind # "stdio" => Len(src.target) = 1 /\ src.cwd = ""
    /\ src.bearer = "" \/ src.profile = ""
    /\ src.profile # "" => MasterKeyVariable \notin ToSet(src.env)
    /\ ContainerMarker \notin ToSet(src.env) \cup {src.bearer}

(* The reader refuses a wrapper of a wrapper, too. *)
ValidSource(src) == WritableSource(src) /\ (src.kind = "stdio" => src.target[1] # Command)

(* The options of a command line are pairs of an option and its value. *)
Once(value) == IF value = "" THEN <<>> ELSE <<value>>
Each(option, values) == [i \in DOMAIN values |-> <<option, values[i]>>]
Words(pairs) == [i \in 1..(2 * Len(pairs)) |-> pairs[(i + 1) \div 2][2 - (i % 2)]]

BuildOptions(policy, src) ==
    IF src.kind = "stdio"
    THEN Each("--policy", <<policy>>) \o Each("--upstream-env", src.env)
         \o Each("--upstream-cwd", Once(src.cwd))
    ELSE Each("--policy", <<policy>>) \o Each(RemoteOption[src.kind], src.target)
         \o Each(HeaderOption(src.kind), src.env)
         \o Each("--upstream-bearer-token-env", Once(src.bearer))
         \o Each("--upstream-oauth-profile", Once(src.profile))

BuildWrapperArgs(policy, src) ==
    Words(BuildOptions(policy, src))
    \o IF src.kind = "stdio" THEN <<"--">> \o src.target ELSE <<>>

NotManaged == [policy |-> "", source |-> NoSource]

(* The policy and the upstream a command line names, NotManaged when it is no  *)
(* wrapper's.  Options come in pairs up to the first "--"; the value of one is *)
(* never an option itself.  given[o] are the values of option o, and `rest` is *)
(* the "--", if there is one, and the words after it.                          *)
FirstDash(args) ==
    CHOOSE i \in 1..(Len(args) + 1) : /\ i = Len(args) + 1 \/ args[i] = "--"
                                      /\ \A j \in 1..(i - 1) : args[j] # "--"
OptionPairs(args, dash) == [k \in 1..((dash - 1) \div 2) |-> <<args[2 * k - 1], args[2 * k]>>]

ValuesOf(pairs, option) ==
    LET at == {k \in DOMAIN pairs : pairs[k][1] = option}
    IN  [i \in 1..Cardinality(at) |->
            pairs[CHOOSE k \in at : Cardinality({j \in at : j <= k}) = i][2]]
ValuesGiven(pairs) == [option \in Options |-> ValuesOf(pairs, option)]
Single(values) == IF values = <<>> THEN "" ELSE values[1]

UpstreamGiven(given, kind, rest) ==
    [kind |-> kind,
     target |-> IF kind = "stdio" THEN SubSeq(rest, 2, Len(rest)) ELSE given[RemoteOption[kind]],
     env |-> given[IF kind = "stdio" THEN "--upstream-env" ELSE HeaderOption(kind)],
     cwd |-> Single(given["--upstream-cwd"]),
     bearer |-> Single(given["--upstream-bearer-token-env"]),
     profile |-> Single(given["--upstream-oauth-profile"])]

Managed(policy, source) ==
    IF policy # "" /\ ValidSource(source) THEN [policy |-> policy, source |-> source]
    ELSE NotManaged

ParseOptions(pairs, given, rest) ==
    LET remotes == {k \in DOMAIN RemoteOption : given[RemoteOption[k]] # <<>>}
        kind == IF remotes = {} THEN "stdio" ELSE CHOOSE k \in remotes : TRUE
    IN  IF /\ \A k \in DOMAIN pairs : pairs[k][1] \in Options /\ Plain(pairs[k][2])
           /\ \A o \in SingleOptions : Len(given[o]) <= 1
           /\ IF remotes = {} THEN \A o \in HeaderOptions : given[o] = <<>>
              ELSE rest = <<>> /\ given["--upstream-env"] = <<>>
        THEN Managed(Single(given["--policy"]), UpstreamGiven(given, kind, rest))
        ELSE NotManaged

ParseWords(args, dash) ==
    IF (dash - 1) % 2 # 0 THEN NotManaged
    ELSE ParseOptions(OptionPairs(args, dash), ValuesGiven(OptionPairs(args, dash)),
                      SubSeq(args, dash, Len(args)))

ParseManagedWrapper(args) == ParseWords(args, FirstDash(args))

------------------------------------------------------------------------------

(* How a client's adapter reads an entry: the policy of a wrapper, or "" when  *)
(* the entry connects to its upstream directly, and the upstream itself.  A    *)
(* `mcp-restrictor` command that does not parse is an unsupported server.      *)
ParseEntry(entry) ==
    IF entry.type = "stdio" /\ entry.words[1] = Command
    THEN ParseManagedWrapper(Tail(entry.words))
    ELSE [policy |-> "",
          source |-> IF entry.type = "none" THEN NoSource
                     ELSE [NoSource EXCEPT !.kind = entry.type, !.target = entry.words,
                                           !.env = entry.env, !.bearer = entry.bearer]]

ManagedPolicy(entry) == ParseEntry(entry).policy
Supported(entry) == ParseEntry(entry).source # NoSource

(* render and install: the entry that starts the wrapper.  A replaced entry's  *)
(* client settings (`timeout`, `alwaysLoad`) are carried over.                 *)
WrapperEntry(policy, src, entry) ==
    [type |-> "stdio", words |-> <<Command>> \o BuildWrapperArgs(policy, src),
     env |-> src.env, bearer |-> "", extra |-> entry.extra]

------------------------------------------------------------------------------

NoRoute == [port |-> "", owner |-> <<"", "">>, args |-> <<>>]

RouteUrl(port, owner) ==
    "http://127.0.0.1:" \o port \o "/mcp/" \o Client[owner[1]] \o "/" \o owner[1] \o "-" \o owner[2]

HttpEntry(port, owner) == [NoEntry EXCEPT !.type = "http", !.words = <<RouteUrl(port, owner)>>]

(* planManualDestinationHttpRoute: a route's command line is the wrapper's own. *)
RouteDefinition(port, owner, policy, src) ==
    [port |-> port, owner |-> owner, args |-> BuildWrapperArgs(policy, src)]

(* parseRoute: the arguments must be a wrapper's, in the order it writes them. *)
ValidRoute(route) ==
    LET managed == ParseManagedWrapper(route.args)
    IN  managed.policy # "" /\ BuildWrapperArgs(managed.policy, managed.source) = route.args

(* loadRoutes accepts the directory: every route is valid and all of them      *)
(* share one origin.  `run` refuses to start, and a manual setup to continue,  *)
(* when it does not.                                                           *)
RoutesLoad(routes) ==
    LET present == {o \in DOMAIN routes : routes[o] # NoRoute}
    IN  \A o, p \in present : ValidRoute(routes[o]) /\ routes[o].port = routes[p].port
==============================================================================
