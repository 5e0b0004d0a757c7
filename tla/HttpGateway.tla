---------------------------- MODULE HttpGateway ----------------------------
(***************************************************************************)
(* The HTTP listener, packages/transports/src/http.ts: its routes, the     *)
(* legacy sessions and per-request bridges of each, and the close() of all *)
(* of it while clients connect, vanish and ask for sessions.               *)
(*                                                                         *)
(* A bridge is known here by what bridgeTransports() promises (module      *)
(* Bridge): it starts or fails, closes by itself or when it is told to, is *)
(* told to by an aborted signal, and its `closed` resolves once.  The SDK's *)
(* server transports and node:http are external.                           *)
(***************************************************************************)
EXTENDS FiniteSets

CONSTANTS
    Requests,  \* the HTTP requests, one handler each
    Routes,    \* the route paths
    KindOf,    \* what each asks for: "initialize", "modern" or a
               \* "session" there is, to use it or to delete it
    None

ASSUME RequestAssumption ==
    /\ KindOf \in [Requests -> {"initialize", "modern", "session"}]
    /\ \A S \in SUBSET Requests : None # S

VARIABLES
    phase,     \* of each handler: see Phases
    conn,      \* of each request: its connection is "open" or "closed"
    route,     \* of each request: the route its path names
    target,    \* of each request with a session id: whose session
    bridge,    \* of each request: the bridge it started, see BridgeStates
    active,    \* activeBridges, of all the routes
    hasId,     \* requests whose session has an id
    sessions,  \* requests whose session is in its route's map
    gateway,   \* close(): "open", "routes", "requests", "listener", "done"
    snapshot,  \* of each route: what its close() waits for; None when it is over
    settling,  \* the activeRequests that close() waits for
    late       \* history: sessions whose id came after their bridge had closed

gatewayVars == <<phase, conn, route, target, bridge, active, hasId, sessions, gateway,
                 snapshot, settling, late>>

Phases == {"idle", "reading", "starting", "handling", "finally", "closing", "done"}
BridgeStates == {"none", "starting", "aborted", "open", "closing", "closed"}

GatewayTypeOK ==
    /\ phase \in [Requests -> Phases]
    /\ conn \in [Requests -> {"open", "closed"}]
    /\ route \in [Requests -> Routes \cup {None}]
    /\ target \in [Requests -> Requests \cup {None}]
    /\ bridge \in [Requests -> BridgeStates]
    /\ sessions \subseteq hasId
    /\ active \cup hasId \cup settling \cup late \subseteq Requests
    /\ gateway \in {"open", "routes", "requests", "listener", "done"}
    /\ snapshot \in [Routes -> (SUBSET Requests) \cup {None}]

GatewayInit ==
    /\ phase = [r \in Requests |-> "idle"]
    /\ conn = [r \in Requests |-> "open"]
    /\ route = [r \in Requests |-> None]
    /\ target = [r \in Requests |-> None]
    /\ bridge = [r \in Requests |-> "none"]
    /\ active = {}
    /\ hasId = {}
    /\ sessions = {}
    /\ gateway = "open"
    /\ snapshot = [p \in Routes |-> {}]
    /\ settling = {}
    /\ late = {}

---------------------------------------------------------------------------
closingVars == <<gateway, snapshot, settling>>
sessionVars == <<active, hasId, sessions, late>>

ActiveRequests == {r \in Requests : phase[r] \notin {"idle", "done"}}
Goto(r, p) == phase' = [phase EXCEPT ![r] = p]

\* close() of a bridge, or its signal aborted: a start in progress fails.
Closed(state) == CASE state = "starting" -> "aborted"
                   [] state = "open" -> "closing"
                   [] OTHER -> state
CloseBridges(S) ==
    bridge' = [r \in Requests |-> IF r \in S THEN Closed(bridge[r]) ELSE bridge[r]]

---------------------------------------------------------------------------
\* The request listener finds the route; a request with a session id looks the
\* session up in the map of that route, before it reads the body.
Arrive(r) ==
    /\ gateway = "open"
    /\ phase[r] = "idle"
    /\ \E p \in Routes :
         /\ route' = [route EXCEPT ![r] = p]
         /\ IF KindOf[r] = "session"
            THEN \E s \in hasId :
                   /\ target' = [target EXCEPT ![r] = s]
                   /\ Goto(r, IF s \in sessions /\ route[s] = p THEN "reading" ELSE "done")
            ELSE Goto(r, "reading") /\ UNCHANGED target
    /\ UNCHANGED <<conn, bridge, sessionVars, closingVars>>

\* The body is refused, or breaks off; or the request goes to the transport of
\* its session; or a bridge is started for it, with a signal that combines the
\* gateway's lifetime and the client's connection.
ReadBody(r) ==
    /\ phase[r] = "reading"
    /\ \/ Goto(r, "done") /\ UNCHANGED bridge
       \/ /\ KindOf[r] = "session"
          /\ conn[r] = "open"
          /\ Goto(r, "handling")
          /\ UNCHANGED bridge
       \/ /\ KindOf[r] # "session"
          /\ conn[r] = "open"
          /\ KindOf[r] = "initialize" => gateway = "open"
          /\ Goto(r, "starting")
          /\ bridge' = [bridge EXCEPT ![r] = IF gateway = "open" THEN "starting"
                                                                  ELSE "aborted"]
    /\ UNCHANGED <<conn, route, target, sessionVars, closingVars>>

\* bridgeTransports() resolves, and the handler looks whether the gateway is
\* closing before it hands the request to the transport.
BridgeStarted(r) ==
    /\ bridge[r] = "starting"
    /\ bridge' = [bridge EXCEPT ![r] = "open"]
    /\ active' = active \cup {r}
    /\ Goto(r, IF gateway = "open" THEN "handling" ELSE "finally")
    /\ UNCHANGED <<conn, route, target, hasId, sessions, late, closingVars>>

\* The upstream cannot be started, or the signal aborts the start: the bridge
\* closes what it has before it throws.
StartFails(r) ==
    /\ bridge[r] = "starting"
    /\ CloseBridges({r})
    /\ UNCHANGED <<phase, conn, route, target, sessionVars, closingVars>>

StartThrows(r) ==
    /\ bridge[r] = "aborted"
    /\ bridge' = [bridge EXCEPT ![r] = "closed"]
    /\ Goto(r, "done")
    /\ UNCHANGED <<conn, route, target, sessionVars, closingVars>>

\* onsessioninitialized: the SDK may call it whatever has become of the bridge.
SessionInitialized(r) ==
    /\ phase[r] = "handling"
    /\ KindOf[r] = "initialize"
    /\ r \notin hasId
    /\ hasId' = hasId \cup {r}
    /\ sessions' = sessions \cup {r}
    /\ late' = IF bridge[r] = "closed" THEN late \cup {r} ELSE late
    /\ UNCHANGED <<phase, conn, route, target, bridge, active, closingVars>>

\* onsessionclosed, for a DELETE: the handler waits for the bridge.
SessionClosed(r) ==
    /\ phase[r] = "handling"
    /\ KindOf[r] = "session"
    /\ sessions' = sessions \ {target[r]}
    /\ CloseBridges({target[r]})
    /\ Goto(r, "closing")
    /\ UNCHANGED <<conn, route, target, active, hasId, late, closingVars>>

\* The SDK is done with the request, whatever it answered.
HandleReturns(r) ==
    /\ phase[r] = "handling"
    /\ Goto(r, IF KindOf[r] = "session" THEN "done" ELSE "finally")
    /\ UNCHANGED <<conn, route, target, bridge, sessionVars, closingVars>>

\* Bug: a modern request waits for the end of its bridge.
FinallyWaits(r) ==
    /\ phase[r] = "finally"
    /\ Goto(r, IF KindOf[r] = "initialize" /\ r \in hasId THEN "done" ELSE "closing")
    /\ UNCHANGED <<conn, route, target, bridge, sessionVars, closingVars>>

\* Bug: leaves the bridge of every initialization to its session.
FinallySkipped(r) ==
    /\ phase[r] = "finally"
    /\ IF KindOf[r] = "initialize"
       THEN Goto(r, "done") /\ UNCHANGED bridge
       ELSE Goto(r, "closing") /\ CloseBridges({r})
    /\ UNCHANGED <<conn, route, target, sessionVars, closingVars>>

\* The finally blocks: a modern request always closes its bridge, an
\* initialization one that did not become a session.
Finally(r) ==
    /\ phase[r] = "finally"
    /\ IF KindOf[r] = "initialize" /\ r \in hasId
       THEN Goto(r, "done") /\ UNCHANGED bridge
       ELSE Goto(r, "closing") /\ CloseBridges({r})
    /\ UNCHANGED <<conn, route, target, sessionVars, closingVars>>

HandlerDone(r) ==
    /\ phase[r] = "closing"
    /\ bridge[IF KindOf[r] = "session" THEN target[r] ELSE r] = "closed"
    /\ Goto(r, "done")
    /\ UNCHANGED <<conn, route, target, bridge, sessionVars, closingVars>>

---------------------------------------------------------------------------
\* The client goes away, or its socket is destroyed: while the handler listens
\* for it the bridge's signal is aborted, unless an initialization has been
\* answered in full.
Disconnect(r) ==
    /\ conn[r] = "open"
    /\ phase[r] # "idle"
    /\ conn' = [conn EXCEPT ![r] = "closed"]
    /\ \/ phase[r] \in {"starting", "handling"} /\ CloseBridges({r})
       \/ phase[r] \notin {"starting", "handling"} /\ UNCHANGED bridge
       \/ phase[r] = "handling" /\ r \in hasId /\ UNCHANGED bridge
    /\ UNCHANGED <<phase, route, target, sessionVars, closingVars>>

\* The upstream of an open bridge goes away, or either side fails.
BridgeFails(r) ==
    /\ bridge[r] = "open"
    /\ CloseBridges({r})
    /\ UNCHANGED <<phase, conn, route, target, sessionVars, closingVars>>

\* Bug: forgets the bridge but not the session.
BridgeForgotten(r) ==
    /\ bridge[r] = "closing"
    /\ bridge' = [bridge EXCEPT ![r] = "closed"]
    /\ active' = active \ {r}
    /\ UNCHANGED <<phase, conn, route, target, hasId, sessions, late, closingVars>>

\* bridge.closed resolves: the bridge is forgotten, and so is the session if
\* its id is known by now.
BridgeClosed(r) ==
    /\ bridge[r] = "closing"
    /\ bridge' = [bridge EXCEPT ![r] = "closed"]
    /\ active' = active \ {r}
    /\ sessions' = IF r \in hasId THEN sessions \ {r} ELSE sessions
    /\ UNCHANGED <<phase, conn, route, target, hasId, late, closingVars>>

---------------------------------------------------------------------------
\* close() of the gateway, by its owner or its signal: no new connections, every
\* socket destroyed (Disconnect follows), the lifetime aborted, and every route
\* closing a snapshot of its bridges.
Close ==
    /\ gateway = "open"
    /\ gateway' = "routes"
    /\ CloseBridges(Requests)
    /\ snapshot' = [p \in Routes |-> {r \in active : route[r] = p}]
    /\ UNCHANGED <<phase, conn, route, target, sessionVars, settling>>

\* The loop of a route's close(): once the snapshot is closed it looks again.
RouteLoop(p) ==
    /\ gateway = "routes"
    /\ snapshot[p] # None
    /\ \A r \in snapshot[p] : bridge[r] = "closed"
    /\ LET rest == {r \in active \ snapshot[p] : route[r] = p}
       IN  /\ snapshot' = [snapshot EXCEPT ![p] = IF rest = {} THEN None ELSE rest]
           /\ CloseBridges(rest)
           /\ active' = active \ snapshot[p]
    /\ UNCHANGED <<phase, conn, route, target, hasId, sessions, late, gateway, settling>>

\* Bug: does not wait for the handlers.
RoutesClosedOnly ==
    /\ gateway = "routes"
    /\ \A p \in Routes : snapshot[p] = None
    /\ gateway' = "requests"
    /\ UNCHANGED <<phase, conn, route, target, bridge, sessionVars, snapshot, settling>>

RoutesClosed ==
    /\ gateway = "routes"
    /\ \A p \in Routes : snapshot[p] = None
    /\ gateway' = "requests"
    /\ settling' = ActiveRequests
    /\ UNCHANGED <<phase, conn, route, target, bridge, sessionVars, snapshot>>

RequestsSettled ==
    /\ gateway = "requests"
    /\ settling \cap ActiveRequests = {}
    /\ gateway' = "listener"
    /\ UNCHANGED <<phase, conn, route, target, bridge, sessionVars, snapshot, settling>>

\* The server's close event, after the last connection.
ListenerClosed ==
    /\ gateway = "listener"
    /\ \A r \in Requests : phase[r] # "idle" => conn[r] = "closed"
    /\ gateway' = "done"
    /\ UNCHANGED <<phase, conn, route, target, bridge, sessionVars, snapshot, settling>>

---------------------------------------------------------------------------
GatewayNext ==
    \/ \E r \in Requests :
         \/ Arrive(r) \/ ReadBody(r) \/ BridgeStarted(r) \/ StartFails(r)
         \/ StartThrows(r) \/ SessionInitialized(r) \/ SessionClosed(r)
         \/ HandleReturns(r) \/ Finally(r) \/ HandlerDone(r)
         \/ Disconnect(r) \/ BridgeFails(r) \/ BridgeClosed(r)
    \/ Close
    \/ \E p \in Routes : RouteLoop(p)
    \/ RoutesClosed
    \/ RequestsSettled
    \/ ListenerClosed

\* The SDK lets go of a request whose connection or bridge is gone.
HandleEnds(r) ==
    /\ conn[r] = "closed" \/ bridge[r] \in {"closing", "closed"}
    /\ HandleReturns(r) \/ SessionClosed(r)

\* A bridge that closes gets there (Bridge, StdioProxy); a broken request ends;
\* closeAllConnections() reaches every socket.  Clients need do nothing.
GatewayFairness ==
    /\ \A r \in Requests :
         /\ WF_gatewayVars(conn[r] = "closed" /\ ReadBody(r))
         /\ WF_gatewayVars(StartThrows(r))
         /\ WF_gatewayVars(HandleEnds(r))
         /\ WF_gatewayVars(Finally(r))
         /\ WF_gatewayVars(HandlerDone(r))
         /\ WF_gatewayVars(BridgeClosed(r))
         /\ WF_gatewayVars(gateway # "open" /\ Disconnect(r))
    /\ \A p \in Routes : WF_gatewayVars(RouteLoop(p))
    /\ WF_gatewayVars(RoutesClosed)
    /\ WF_gatewayVars(RequestsSettled)
    /\ WF_gatewayVars(ListenerClosed)

GatewaySpec == GatewayInit /\ [][GatewayNext]_gatewayVars /\ GatewayFairness

---------------------------------------------------------------------------
\* Once close() has resolved no upstream is left and no handler runs, also of
\* requests that were starting a bridge when it was called (http.ts 282-292,
\* 357-370).
CloseLeavesNothing ==
    gateway = "done" => \A r \in Requests : /\ bridge[r] \in {"none", "closed"}
                                            /\ r \notin ActiveRequests

\* An open bridge can be reached: by the handler that started it, which closes
\* it in the end, or as a session of its route (http.ts 151, 262-267).
NoOrphanBridge ==
    \A r \in Requests : bridge[r] = "open" => r \in ActiveRequests \cup sessions

\* A session is not offered once its bridge has closed, except one whose id the
\* SDK announced after that: its clean-up had already run (http.ts 119-122).
SessionsEndWithBridges ==
    \A r \in sessions \ late : bridge[r] # "closed"

\* close() ends, whatever the requests are doing when it is called; and the
\* upstream of a client that vanishes before it has a session ends, even if the
\* gateway stays (http.ts 132-143, 251-268, 282-292).
UpstreamsEnd ==
    /\ gateway = "routes" ~> gateway = "done"
    /\ \A r \in Requests :
        conn[r] = "closed" ~> bridge[r] \in {"none", "closed"} \/ r \in hasId
=============================================================================
