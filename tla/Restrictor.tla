----------------------------- MODULE Restrictor -----------------------------
(***************************************************************************)
(* What the proxy promises about each client message, without jobs, maps   *)
(* or transports (docs/architecture.md, "Request flow"): outstanding ids   *)
(* are unique, a duplicate and only a duplicate is refused for its id, a   *)
(* call is served only if it is authorized and refused only if it is not,  *)
(* and a tools/list answer shows discoverable tools only.                  *)
(***************************************************************************)
CONSTANTS Messages, Ids, Tools, Discoverable, Calls, Authorized, Malformed,
          NoId, None, Requests

VARIABLES
    request,   \* what each message says
    stage,     \* how far it got
    shown      \* the tools its answer shows

vars == <<request, stage, shown>>

Init ==
    /\ request = [m \in Messages |-> None]
    /\ stage = [m \in Messages |-> "unsent"]
    /\ shown = [m \in Messages |-> {}]

Live(id) ==
    \E m \in Messages : stage[m] \in {"accepted", "served"} /\ request[m].id = id

Duplicate(r) == r.id # NoId /\ Live(r.id)

(* A message arrives: it is accepted, or refused at once. *)
Receive(m, r) ==
    /\ stage[m] = "unsent"
    /\ request' = [request EXCEPT ![m] = r]
    /\ stage' = [stage EXCEPT ![m] =
          IF Duplicate(r) \/ r.call = Malformed THEN "refused" ELSE "accepted"]
    /\ UNCHANGED shown

(* The server is given the message. *)
Serve(m) ==
    /\ stage[m] = "accepted"
    /\ request[m].call \in Authorized \union {None}
    /\ stage' = [stage EXCEPT ![m] = "served"]
    /\ UNCHANGED <<request, shown>>

(* The policy denies a call. *)
Refuse(m) ==
    /\ stage[m] = "accepted"
    /\ request[m].call \in Calls \ Authorized
    /\ stage' = [stage EXCEPT ![m] = "refused"]
    /\ UNCHANGED <<request, shown>>

(* The authorizer itself failed, and the connection with it. *)
Drop(m) ==
    /\ stage[m] = "accepted"
    /\ request[m].call \in Calls
    /\ stage' = [stage EXCEPT ![m] = "dropped"]
    /\ UNCHANGED <<request, shown>>

(* A response to a request is taken from the server. *)
Answer(m) ==
    /\ stage[m] = "served"
    /\ request[m].id # NoId
    /\ stage' = [stage EXCEPT ![m] = "answered"]
    /\ \E visible \in SUBSET (Tools \intersect Discoverable) :
          /\ request[m].method # "tools/list" => visible = {}
          /\ shown' = [shown EXCEPT ![m] = visible]
    /\ UNCHANGED request

Next ==
    \E m \in Messages :
        \/ \E r \in Requests : Receive(m, r)
        \/ Serve(m) \/ Refuse(m) \/ Drop(m) \/ Answer(m)

Spec == Init /\ [][Next]_vars
=============================================================================
