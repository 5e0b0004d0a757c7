---------------------------- MODULE PolicySession ----------------------------
(***************************************************************************)
(* A proxy and its policy over time.  The policy is read when a proxy      *)
(* starts and never changes while it runs; a client lists tools and calls  *)
(* them in any order; then the proxy is started again, with the policy     *)
(* file as its owner has edited it in between.                             *)
(***************************************************************************)
EXTENDS Policy, FiniteSets, Naturals

CONSTANTS
    Policies,       \* the contents the policy file may have
    ClientCalls,    \* the calls a client may make: pairs <<name, arguments>>
    MaxRemembered   \* bound of a run: how many allowed and how many refused calls it keeps

ASSUME PoliciesAssumption == Policies \subseteq ParsedPolicy

ASSUME ClientCallsAssumption == ClientCalls \subseteq Names \X CallArguments

VARIABLES
    policy,    \* the parsed policy the authorizer closes over
    visible,   \* the names the last discovery kept
    executed,  \* the calls that were allowed since the proxy started
    hidden,    \* history: the names that discoveries dropped and
    refused    \* the calls that were denied, since the policy was last loosened

sessionVars == <<policy, visible, executed, hidden, refused>>

SessionTypeOK ==
    /\ policy \in ParsedPolicy
    /\ visible \subseteq Names
    /\ executed \subseteq ClientCalls
    /\ hidden \subseteq Names
    /\ refused \subseteq ClientCalls

SessionInit ==
    /\ policy \in Policies
    /\ visible = {}
    /\ executed = {}
    /\ hidden = {}
    /\ refused = {}

(* The filter asks discover(name) for every tool the server offers. *)
List ==
    /\ visible' = { name \in Names : Discover(policy, name) }
    /\ hidden' = hidden \union (Names \ visible')
    /\ UNCHANGED <<policy, executed, refused>>

(* authorize() allows a call, *)
CallAllowed(call) ==
    /\ Authorize(policy, call[1], call[2])
    /\ Cardinality(executed) < MaxRemembered
    /\ executed' = executed \union {call}
    /\ UNCHANGED <<policy, visible, hidden, refused>>

(* or denies it. *)
CallDenied(call) ==
    /\ ~ Authorize(policy, call[1], call[2])
    /\ Cardinality(refused) < MaxRemembered
    /\ refused' = refused \union {call}
    /\ UNCHANGED <<policy, visible, executed, hidden>>

(* rule matches every call that other matches. *)
Covers(rule, other) ==
    /\ rule.name = other.name
    /\ rule.conditions \subseteq other.conditions

(* An edit from the policy `from` to the policy `to` tightens: it keeps every  *)
(* deny rule or widens it, and it allows nothing new.  What the allow rules of *)
(* a policy with default "allow" say does not matter.                          *)
Tightens(from, to) ==
    /\ \A rule \in from.deny : \E new \in to.deny : Covers(new, rule)
    /\ \/ from.default = "allow"
       \/ /\ to.default = "deny"
          /\ \A new \in to.allow : \E rule \in from.allow : Covers(rule, new)

(* The proxy is started again.  What earlier ones hid and refused is remembered *)
(* as long as no edit loosens the policy.                                       *)
Restart(edited) ==
    /\ policy' = edited
    /\ visible' = {}
    /\ executed' = {}
    /\ IF Tightens(policy, edited)
       THEN UNCHANGED <<hidden, refused>>
       ELSE hidden' = {} /\ refused' = {}

SessionNext ==
    \/ List
    \/ \E call \in ClientCalls : CallAllowed(call) \/ CallDenied(call)
    \/ \E edited \in Policies : Restart(edited)

SessionSpec == SessionInit /\ [][SessionNext]_sessionVars

-----------------------------------------------------------------------------
(* A tool that discovery hides is never executed, whatever arguments the   *)
(* call carries: discover() and authorize() are written independently and  *)
(* this is what keeps tools/list and tools/call consistent.                *)
HiddenToolsNeverExecuted ==
    \A call \in executed : Discover(policy, call[1])

(* What was hidden or refused stays so through any number of restarts and of *)
(* edits that only tighten the policy.  A new allow rule beside a default of *)
(* "allow", a condition more on an allow rule or one less on a deny rule, a  *)
(* default of "deny": none of them may let through what did not pass before. *)
(* This is where the order of the lists, the default and the conditions of   *)
(* discover() and authorize() must work together: an allow rule that won     *)
(* over a deny rule, with conditions or without, would break it.             *)
TighteningOpensNothing ==
    /\ executed \cap refused = {}
    /\ visible \cap hidden = {}
=============================================================================
