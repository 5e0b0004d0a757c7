------------------------------- MODULE Policy -------------------------------
(***************************************************************************)
(* The YAML policy of packages/policy/src/index.ts after parsing, and the  *)
(* two questions createPolicyAuthorizer answers about it: may a client     *)
(* discover a tool, and may it invoke the tool with these arguments.       *)
(*                                                                         *)
(* A rule list is only ever searched with `some` and a condition list with *)
(* `every`, so lists are sets.  Argument values are opaque: the string     *)
(* relations "starts with" and "is matched by the regular expression" are  *)
(* parameters.                                                             *)
(***************************************************************************)

CONSTANTS
    Names,       \* tool names
    Arguments,   \* direct property names of a tools/call "arguments" object
    Unsafe,      \* "__proto__", "constructor" and "prototype"
    Values,      \* argument values
    Strings,     \* the values that are strings
    Expressions, \* the strings that compile as a regular expression
    PrefixOf,    \* pairs <<p, s>>: the string s starts with p
    Matches      \* pairs <<e, s>>: the expression e matches somewhere in s

ASSUME PolicyAssumption ==
    /\ Unsafe \subseteq Arguments
    /\ Strings \subseteq Values
    /\ Expressions \subseteq Strings
    /\ PrefixOf \subseteq Strings \X Strings
    /\ Matches \subseteq Expressions \X Strings

-----------------------------------------------------------------------------
(* What the schema accepts.                                                *)

Condition ==
    { c \in [argument : Arguments \ Unsafe,
             operator : {"equals", "startsWith", "regex"},
             value    : Values] :
        /\ c.operator = "startsWith" => c.value \in Strings
        /\ c.operator = "regex" => c.value \in Expressions }

ToolRule == [name : Names, conditions : SUBSET Condition]

ParsedPolicy == [default : {"allow", "deny"},
                 allow   : SUBSET ToolRule,
                 deny    : SUBSET ToolRule]

(* The arguments of a well-formed call: an object with some own properties. *)
CallArguments == UNION { [D -> Values] : D \in SUBSET Arguments }

-----------------------------------------------------------------------------
(* The authorizer.                                                         *)

MatchesCondition(condition, arguments) ==
    /\ condition.argument \in DOMAIN arguments
    /\ LET actual == arguments[condition.argument]
       IN  \/ /\ condition.operator = "equals"
              /\ actual = condition.value
           \/ /\ condition.operator = "startsWith"
              /\ <<condition.value, actual>> \in PrefixOf
           \/ /\ condition.operator = "regex"
              /\ <<condition.value, actual>> \in Matches

RuleMatches(rule, name, arguments) ==
    /\ rule.name = name
    /\ \A c \in rule.conditions : MatchesCondition(c, arguments)

(* Mutation: any deny rule hides its tool, one with conditions too. *)
DiscoverUndenied(policy, name) ==
    /\ ~ \E rule \in policy.deny : rule.name = name
    /\ \/ policy.default = "allow"
       \/ \E rule \in policy.allow : rule.name = name

Discover(policy, name) ==
    /\ ~ \E rule \in policy.deny : rule.name = name /\ rule.conditions = {}
    /\ \/ policy.default = "allow"
       \/ \E rule \in policy.allow : rule.name = name

(* Mutation: allow rules are looked at first. *)
AuthorizeAllowFirst(policy, name, arguments) ==
    \/ \E rule \in policy.allow : RuleMatches(rule, name, arguments)
    \/ /\ policy.default = "allow"
       /\ ~ \E rule \in policy.deny : RuleMatches(rule, name, arguments)

Authorize(policy, name, arguments) ==
    /\ ~ \E rule \in policy.deny : RuleMatches(rule, name, arguments)
    /\ \/ \E rule \in policy.allow : RuleMatches(rule, name, arguments)
       \/ policy.default = "allow"
=============================================================================
