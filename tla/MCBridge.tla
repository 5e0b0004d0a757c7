------------------------------ MODULE MCBridge ------------------------------
(***************************************************************************)
(* Instances of Bridge.  The authorizer is that of a policy which shows    *)
(* read and hides delete, and allows read only with safe arguments.        *)
(***************************************************************************)
EXTENDS Bridge, TLC

CONSTANTS one, two, read, delete, safe, unsafe

MCTools == {read, delete}
MCDiscoverable == {read}
MCCalls == {read} \X {safe, unsafe}
MCAuthorized == {<<read, safe>>}

Req(id, method, call) == [id |-> id, method |-> method, call |-> call]

(* Every method, with an id that is reused, a second id and no id. *)
MCRequests ==
    { Req(one, "tools/list", None), Req(one, "initialize", None),
      Req(two, "tools/call", <<read, safe>>), Req(one, "tools/call", <<read, unsafe>>),
      Req(one, "tools/call", Malformed), Req(NoId, "tools/call", <<read, unsafe>>) }

MCSymmetry == Permutations(Messages)
=============================================================================
