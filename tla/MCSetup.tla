------------------------------- MODULE MCSetup -------------------------------
(* Two Claude Code configurations (CLAUDE_CONFIG_DIR differs between the runs, *)
(* their policies are shared) and one of OpenCode; a server started as a       *)
(* process, and a remote one that speaks SSE after an OAuth login.             *)
EXTENDS Setup

MCConfigs == {"u1", "u2", "o"}
MCNames == {"n", "m"}
MCClient == [c \in MCConfigs |-> IF c = "o" THEN "opencode" ELSE "claude"]
MCRoot == [c \in MCConfigs |-> "~/"]
MCSessions == {"s1", "s2", "s3"}
MCAnswer == [url \in {"https://x"} |-> [http |-> "incompatible", sse |-> "challenge", websocket |-> "error"]]

Local == [NoEntry EXCEPT !.type = "stdio", !.words = <<"srv">>, !.env = <<"KEY">>]
Web == [NoEntry EXCEPT !.type = "http", !.words = <<"https://x">>]
Other == [NoEntry EXCEPT !.type = "stdio", !.words = <<"other">>]

Place(entries) == [c \in MCConfigs |-> [n \in MCNames |->
                      IF <<c, n>> \in DOMAIN entries THEN entries[<<c, n>>] ELSE NoEntry]]
Own(policy) == [p \in Paths |-> IF p = "~/claude/n" THEN policy ELSE NoFile]
Scene(commands, files, entries, policy, choices, saves, edits, bound) ==
    [command |-> [s1 |-> commands[1], s2 |-> commands[2], s3 |-> commands[3]],
     files |-> [s1 |-> files[1], s2 |-> files[2], s3 |-> files[3]],
     entries |-> Place(entries), policies |-> Own(policy), choices |-> choices, saves |-> saves, edits |-> edits, mishaps |-> bound,
     names |-> {"n"},
     typed |-> [NoSource EXCEPT !.kind = "stdio", !.target = <<"srv">>]]

Empty == [o \in {} |-> NoEntry]
Servers(owners, entry) == [o \in owners |-> entry]

Another == [entry |-> Other, own |-> Other]
\* A wrapper taken back from an old copy of the file.
OldCopy == [entry |-> WrapperEntry("~/claude/n", ParseEntry(Local).source, Local), own |-> Local]

MCScenes == {
    Scene(<<"add", "add", "restore">>,
          <<{"u1"}, {"u1"}, {"u1"}>>,
          Servers({<<"u1", "n">>}, Local), "A", {"B"}, {FALSE}, {Another, OldCopy}, 1),
    Scene(<<"add", "add", "restore">>,
          <<{"u1"}, {"u1"}, {}>>,
          Servers({<<"u1", "n">>}, Local), NoFile, {"A"}, BOOLEAN, {Another}, 1),
    Scene(<<"add", "add", "restore">>,
          <<{"u1"}, {"u2"}, {"u2"}>>,
          Servers({<<"u1", "n">>, <<"u2", "n">>}, Local), NoFile, {"A"}, {FALSE}, {Another}, 1),
    Scene(<<"manual", "restore", "restore">>,
          <<{"u1", "o"}, {"u1", "o"}, {}>>,
          Empty, NoFile, {"A"}, {FALSE}, {Another}, 1),
    Scene(<<"manual", "manual", "restore">>,
          <<{"o"}, {"u1"}, {"o"}>>,
          Empty, NoFile, {"A"}, {FALSE}, {Another}, 1),
    Scene(<<"add", "add", "restore">>,
          <<{"o"}, {"o"}, {"o"}>>,
          Servers({<<"o", "n">>}, Web), NoFile, {"A"}, {FALSE}, {Another}, 1),
    Scene(<<"add", "restore", "restore">>,
          <<{"u1"}, {"u1"}, {"u1"}>>,
          Servers({<<"u1", "n">>, <<"u1", "m">>}, Local), NoFile, {"A"}, {FALSE}, {OldCopy}, 1),
    \* A route without a record, and a policy that comes and goes.
    Scene(<<"manual", "add", "restore">>,
          <<{"u1"}, {"u2"}, {"u2"}>>,
          Servers({<<"u2", "n">>}, Local), NoFile, {"A"}, {FALSE}, {}, 2)}
==============================================================================
