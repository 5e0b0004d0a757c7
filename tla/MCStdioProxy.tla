---------------------------- MODULE MCStdioProxy ----------------------------
(***************************************************************************)
(* A stdio proxy with two client messages and one server notification.    *)
(* Both messages are calls, an allowed one with the id one and a denied    *)
(* one with the id two, so each can be refused as well as served.          *)
(***************************************************************************)
EXTENDS StdioProxy

CONSTANTS one, two, read, delete, safe, unsafe

MCTools == {read, delete}
MCDiscoverable == {read}
MCCalls == {read} \X {safe, unsafe}
MCAuthorized == {<<read, safe>>}

Req(id, method, call) == [id |-> id, method |-> method, call |-> call]

MCRequests ==
    { Req(one, "tools/call", <<read, safe>>), Req(two, "tools/call", <<read, unsafe>>) }
=============================================================================
