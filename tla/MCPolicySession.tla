--------------------------- MODULE MCPolicySession ---------------------------
(***************************************************************************)
(* Two tools, two arguments, three values of which two are strings, one a  *)
(* prefix of the other.  Rules about `read` have up to two conditions,     *)
(* rules about `delete` none; a policy has up to two allow rules and one   *)
(* deny rule; both defaults.                                               *)
(***************************************************************************)
EXTENDS PolicySession, TLC

CONSTANTS read, delete, path, proto, work, file, number

MCNames == {read, delete}
MCArguments == {path, proto}
MCUnsafe == {proto}
MCValues == {work, file, number}
MCStrings == {work, file}
MCExpressions == {work}
MCPrefixOf == {<<work, work>>, <<work, file>>, <<file, file>>}
MCMatches == {<<work, work>>}

On(operator, value) == [argument |-> path, operator |-> operator, value |-> value]

SmallConditions ==
    {{}, {On("startsWith", work)}, {On("regex", work)}, {On("equals", number)},
     {On("equals", file)}, {On("startsWith", work), On("regex", work)}}

SmallRules ==
    { [name |-> read, conditions |-> C] : C \in SmallConditions }
        \union {[name |-> delete, conditions |-> {}]}

MCPolicies ==
    { [default |-> d, allow |-> {}, deny |-> n] :
        d \in {"allow", "deny"}, n \in {{}} \union {{r} : r \in SmallRules} }
    \union
    { [default |-> d, allow |-> {a, b}, deny |-> n] :
        d \in {"allow", "deny"}, a \in SmallRules, b \in SmallRules,
        n \in {{}} \union {{r} : r \in SmallRules} }

MCClientCalls ==
    {<<delete, <<>>>>, <<read, <<>>>>, <<read, (path :> file) @@ (proto :> work)>>}
        \union { <<read, (path :> v)>> : v \in MCValues }
=============================================================================
