------------------------------ MODULE Discovery ------------------------------
(* How setup finds out which upstream a server really is: an OpenCode remote   *)
(* is tried as streamable HTTP and then as SSE, and a server that answers with *)
(* an OAuth challenge is tried again with the profile a login has produced.    *)
EXTENDS Wrapper

CONSTANT Answer     \* Answer[url][kind]: what a server says to an unauthenticated client

Answers == {"tools", "incompatible", "challenge", "error"}

Remote(src) == src.kind \in {"http", "sse", "websocket"}

(* supportsOAuthChallenge: the entry brings no credential of its own. *)
SupportsOAuthChallenge(src) ==
    src.kind \in {"http", "sse"} /\ src.profile = "" /\ src.bearer = ""

(* serverCandidates: only the OpenCode adapter gives a server an alternative. *)
ServerCandidates(c, src) ==
    <<src>> \o IF Client[c] = "opencode" /\ src.kind = "http"
               THEN <<[src EXCEPT !.kind = "sse"]>> ELSE <<>>

(* The k-th candidate's answer.  protocolUpstream watches for a response that  *)
(* rules the protocol out only on the first of several; anywhere else it is a  *)
(* failure like any other.  A profile answers the challenge.                   *)
Try(candidates, k, authorized) ==
    LET src == candidates[k]
        said == IF Remote(src) THEN Answer[src.target[1]][src.kind] ELSE "tools"
    IN  CASE said = "challenge" /\ (authorized \/ src.profile # "") -> "tools"
          [] said = "incompatible" /\ (k > 1 \/ Len(candidates) = 1) -> "error"
          [] OTHER -> said

(* The candidate the loop stops at: the first that is not ruled out. *)
FirstCompatible(candidates, authorized) ==
    CHOOSE k \in DOMAIN candidates :
        /\ Try(candidates, k, authorized) # "incompatible"
        /\ \A j \in 1..(k - 1) : Try(candidates, j, authorized) = "incompatible"

DiscoverAlternatives(candidates, authorized) ==
    LET k == FirstCompatible(candidates, authorized)
    IN  IF Try(candidates, k, authorized) = "tools" THEN {candidates[k]} ELSE {}

(* discoverSetupServer: the upstream that answered, {} when discovery fails.   *)
(* A challenge leads to a login, and the search goes on from the challenged    *)
(* candidate with the new profile `id`.                                        *)
DiscoverSetupServer(candidates, id) ==
    LET k == FirstCompatible(candidates, FALSE)
    IN  IF SupportsOAuthChallenge(candidates[1]) /\ Try(candidates, k, FALSE) = "challenge"
        THEN {[found EXCEPT !.profile = id] :
                found \in DiscoverAlternatives(SubSeq(candidates, k, Len(candidates)), TRUE)}
        ELSE DiscoverAlternatives(candidates, FALSE)
==============================================================================
