---------------------------- MODULE ClosingProofs ----------------------------
(***************************************************************************)
(* What a close leaves behind, for any number of fetches, requests and     *)
(* routes.                                                                 *)
(*                                                                         *)
(* An upstream: when close() has resolved nothing is left of the           *)
(* transport, and a tool discovery never ends with one that is open.  The  *)
(* WebSocket transport holds its socket exactly while a close event is to  *)
(* come (Socketed); the HTTP transport starts no fetch once its lifetime   *)
(* is over, and it ends before the snapshot is taken (Streamed); and the   *)
(* SDK's client lets go of the transport only when it is closed or         *)
(* closing (Tended).                                                       *)
(*                                                                         *)
(* The gateway: no bridge is orphaned, a session ends with its bridge, and *)
(* a gateway that has closed holds nothing open.  A bridge belongs to the  *)
(* handler of its request until it has an id, and then to the sessions,    *)
(* which lose it only when it closes (Handled).  The close aborts every    *)
(* start, so no bridge joins those it saw; when the routes are done there  *)
(* is none, and the handlers it waits for are all there are (Shutdown).    *)
(***************************************************************************)
EXTENDS Upstream, HttpGateway, TLAPS

(* The socket, the promises of start() and close(), and onclose. *)
Socketed ==
    /\ didClose => oncloses = 1
    /\ ~didClose => oncloses = 0
    /\ held <=> socket \in {"connecting", "open", "closing"}
    /\ startPromise = "none" => socket = "none"
    /\ ~heard => startPromise # "pending"
    /\ socket = "closed" => didClose /\ ~abortHook /\ startPromise # "pending"
    /\ closePromise = "waiting" => socket = "closing" /\ ~heard /\ ~abortHook
    /\ closePromise = "done" => WsClosed /\ didClose

(* The fetches and the steps of close(). *)
Streamed ==
    /\ httpClose # "none" => lifetime
    /\ httpClose = "streams" => ActiveStreams \subseteq awaited
    /\ httpClose = "done" => ActiveStreams = {}

(* Each kind of transport leaves the variables of the other alone. *)
Separate ==
    /\ kind = "websocket" => httpClose = "none" /\ ActiveStreams = {}
    /\ kind = "http" => startPromise = "none" /\ socket = "none" /\ closePromise = "none"

Unused == startPromise = "none" /\ ActiveStreams = {}

(* A transport that a discovery has let go of is closing, closed or unused. *)
Tended ==
    /\ user = "caller" => discovery = "idle"
    /\ user = "discovery" /\ discovery = "idle" => Unused /\ ~attached
    /\ user = "discovery" /\ ~attached => CloseCalled \/ socket = "closed" \/ Unused
    /\ discovery \in {"awaiting", "done"} =>
         CloseCalled \/ (~attached /\ (socket = "closed" \/ Unused))

IInv == TypeOK /\ Socketed /\ Streamed /\ Separate /\ Tended

-----------------------------------------------------------------------------
(* The WebSocket transport.  A step takes nothing back that a user of the   *)
(* transport relies on.                                                     *)
Steady ==
    /\ closePromise # "none" => closePromise' # "none"
    /\ socket = "closed" => socket' = "closed"
    /\ startPromise = "none" => startPromise' = "none"
    /\ oncloses' # oncloses => socket' = "closed" \/ closePromise' # "none"

LEMMA FinishedOnce ==
    ASSUME WsTypeOK, Socketed, FinishClose
    PROVE  ~abortHook' /\ ~held' /\ didClose' /\ oncloses' = 1
<1>1. CASE didClose
  BY <1>1 DEF Socketed, FinishClose
<1>2. CASE ~didClose
  BY <1>2 DEF Socketed, FinishClose
<1> QED
  BY <1>1, <1>2

LEMMA EventsKeep ==
    ASSUME WsTypeOK, Socketed, WsEvents
    PROVE  WsTypeOK' /\ Socketed' /\ Steady
<1> USE DEF WsTypeOK, Socketed, Steady, WsClosed, Rejected, Closing
<1>1. CASE WsOpen
  BY <1>1 DEF WsOpen, Fail
<1>2. CASE WsError
  BY <1>2 DEF WsError
<1>3. CASE WsPeerClose
  BY <1>3 DEF WsPeerClose
<1>4. CASE WsViolation
  BY <1>4 DEF WsViolation, Fail
<1>5. CASE WsCloseEvent
  <2>1. ~abortHook' /\ ~held' /\ didClose' /\ oncloses' = 1
    BY <1>5, FinishedOnce DEF WsCloseEvent
  <2>2. {held', didClose', abortHook'} \subseteq BOOLEAN
    BY <1>5 DEF WsCloseEvent, FinishClose
  <2> QED
    BY <1>5, <2>1, <2>2 DEF WsCloseEvent
<1> QED
  BY <1>1, <1>2, <1>3, <1>4, <1>5 DEF WsEvents

LEMMA StartKeeps ==
    ASSUME WsTypeOK, Socketed, WsStart
    PROVE  /\ WsTypeOK' /\ Socketed'
           /\ closePromise' = closePromise /\ socket # "closed"
<1>1. {held, heard, abortHook}' \subseteq BOOLEAN
  BY DEF WsTypeOK, WsStart
<1>2. closePromise' = closePromise /\ socket # "closed" /\ WsTypeOK'
  BY <1>1 DEF WsTypeOK, Socketed, WsStart
<1>3. closePromise # "done" /\ closePromise # "waiting"
  BY DEF Socketed, WsClosed, WsStart
<1>4. Socketed'
  BY <1>3 DEF WsTypeOK, Socketed, WsStart
<1> QED
  BY <1>2, <1>4

LEMMA AbortKeeps ==
    ASSUME WsTypeOK, Socketed, WsAbort
    PROVE  WsTypeOK' /\ Socketed' /\ Steady
  BY DEF WsTypeOK, Socketed, Steady, WsClosed, WsAbort, Rejected, Closing

LEMMA CloseKeeps ==
    ASSUME WsTypeOK, Socketed, CloseSteps, aborted' \in BOOLEAN
    PROVE  WsTypeOK' /\ Socketed' /\ Steady /\ closePromise' # "none"
<1> USE DEF WsTypeOK, Socketed, Steady, WsClosed, CloseSteps, Rejected, Closing
<1>1. CASE held /\ socket # "closed"
  BY <1>1
<1>2. CASE ~(held /\ socket # "closed")
  <2>1. ~abortHook' /\ ~held' /\ didClose' /\ oncloses' = 1
    BY <1>2, FinishedOnce
  <2>2. {held', didClose', abortHook'} \subseteq BOOLEAN
    BY <1>2 DEF FinishClose
  <2>3. socket' = socket /\ socket \in {"none", "closed"} /\ closePromise' = "done"
    BY <1>2
  <2> QED
    BY <1>2, <2>1, <2>2, <2>3
<1> QED
  BY <1>1, <1>2

LEMMA WsUnchanged ==
    ASSUME WsTypeOK, Socketed, UNCHANGED wsVars
    PROVE  WsTypeOK' /\ Socketed' /\ Steady
  BY DEF WsTypeOK, Socketed, Steady, WsClosed, wsVars

-----------------------------------------------------------------------------
(* The HTTP transports: after the start of close() no stream comes to life. *)
Draining ==
    /\ httpClose # "none" => httpClose' # "none"
    /\ (~\E f \in Fetches : FetchStart(f)) => ActiveStreams' \subseteq ActiveStreams

LEMMA FetchesKeep ==
    ASSUME HttpTypeOK, Streamed, HttpEvents
    PROVE  HttpTypeOK' /\ Streamed' /\ Draining /\ httpClose' = httpClose
<1> USE DEF HttpTypeOK, Streamed, Draining, ActiveStreams
<1> SUFFICES ASSUME NEW f \in Fetches,
                    \/ FetchStart(f) \/ FetchResponds(f) \/ FetchThrows(f)
                    \/ PipeSettles(f) \/ DropRequest(f)
             PROVE  HttpTypeOK' /\ Streamed' /\ Draining /\ httpClose' = httpClose
  BY DEF HttpEvents
<1>1. CASE FetchStart(f)
  BY <1>1 DEF FetchStart
<1>2. CASE FetchResponds(f)
  BY <1>2 DEF FetchResponds
<1>3. CASE FetchThrows(f)
  BY <1>3 DEF FetchThrows
<1>4. CASE PipeSettles(f)
  BY <1>4 DEF PipeSettles
<1>5. CASE DropRequest(f)
  BY <1>5 DEF DropRequest
<1> QED
  BY <1>1, <1>2, <1>3, <1>4, <1>5

LEMMA HttpCloseKeeps ==
    ASSUME HttpTypeOK, Streamed, HttpClose \/ HttpSdkClosed \/ HttpCloseDone
    PROVE  HttpTypeOK' /\ Streamed' /\ httpClose' # "none" /\ ActiveStreams' = ActiveStreams
  BY DEF HttpTypeOK, Streamed, ActiveStreams, HttpClose, HttpSdkClosed, HttpCloseDone

LEMMA HttpUnchanged ==
    ASSUME HttpTypeOK, Streamed, UNCHANGED httpVars
    PROVE  HttpTypeOK' /\ Streamed' /\ Draining /\ ActiveStreams' = ActiveStreams
  BY DEF HttpTypeOK, Streamed, Draining, ActiveStreams, httpVars

-----------------------------------------------------------------------------
(* Both, and their users. *)
LEMMA TransportKeeps ==
    ASSUME IInv, TransportStep
    PROVE  IInv'
<1> USE DEF IInv, TypeOK, TransportStep, OnClose, Separate, Tended, Unused, CloseCalled
<1>1. CASE kind = "websocket" /\ WsEvents /\ UNCHANGED httpVars
  <2>1. WsTypeOK' /\ Socketed' /\ Steady
    BY <1>1, EventsKeep
  <2>2. /\ HttpTypeOK' /\ Streamed'
        /\ ActiveStreams' = ActiveStreams /\ httpClose' = httpClose
    BY <1>1, HttpUnchanged DEF httpVars
  <2> QED
    BY <1>1, <2>1, <2>2 DEF Steady, WsTypeOK
<1>2. CASE kind = "http" /\ HttpEvents /\ UNCHANGED wsVars
  <2>1. HttpTypeOK' /\ Streamed' /\ Draining /\ httpClose' = httpClose
    BY <1>2, FetchesKeep
  <2>2. WsTypeOK' /\ Socketed'
    BY <1>2, WsUnchanged
  <2> QED
    BY <1>2, <2>1, <2>2 DEF Draining, wsVars
<1>3. CASE kind = "http" /\ (HttpSdkClosed \/ HttpCloseDone) /\ UNCHANGED wsVars
  <2>1. /\ HttpTypeOK' /\ Streamed' /\ httpClose' # "none"
        /\ ActiveStreams' = ActiveStreams
    BY <1>3, HttpCloseKeeps
  <2>2. WsTypeOK' /\ Socketed'
    BY <1>3, WsUnchanged
  <2> QED
    BY <1>3, <2>1, <2>2 DEF wsVars
<1> QED
  BY <1>1, <1>2, <1>3

(* close(), by whomever it is called. *)
LEMMA CloseTransportKeeps ==
    ASSUME IInv, CloseTransport, UNCHANGED <<kind, user>>
    PROVE  /\ WsTypeOK' /\ Socketed' /\ HttpTypeOK' /\ Streamed' /\ Separate'
           /\ CloseCalled'
<1> USE DEF IInv, TypeOK, CloseTransport, Separate, CloseCalled
<1>1. CASE CloseCalled /\ UNCHANGED <<wsVars, httpVars>>
  BY <1>1, WsUnchanged, HttpUnchanged DEF wsVars, httpVars
<1>2. CASE kind = "websocket" /\ WsClose /\ UNCHANGED httpVars
  BY <1>2, CloseKeeps, HttpUnchanged DEF WsClose, WsTypeOK, httpVars
<1>3. CASE kind = "http" /\ HttpClose /\ UNCHANGED wsVars
  BY <1>3, HttpCloseKeeps, WsUnchanged DEF wsVars
<1> QED
  BY <1>1, <1>2, <1>3

LEMMA CallerKeeps ==
    ASSUME IInv, CallerStep
    PROVE  IInv'
<1> USE DEF IInv, TypeOK, CallerStep
<1>1. CASE kind = "websocket" /\ WsStart /\ UNCHANGED httpVars
  <2>1. WsTypeOK' /\ Socketed'
    BY <1>1, StartKeeps
  <2>2. /\ HttpTypeOK' /\ Streamed'
        /\ ActiveStreams' = ActiveStreams /\ httpClose' = httpClose
    BY <1>1, HttpUnchanged DEF httpVars
  <2> QED
    BY <1>1, <2>1, <2>2 DEF Separate, Tended
<1>2. CASE kind = "websocket" /\ WsAbort /\ UNCHANGED httpVars
  <2>1. WsTypeOK' /\ Socketed'
    BY <1>2, AbortKeeps
  <2>2. /\ HttpTypeOK' /\ Streamed'
        /\ ActiveStreams' = ActiveStreams /\ httpClose' = httpClose
    BY <1>2, HttpUnchanged DEF httpVars
  <2> QED
    BY <1>2, <2>1, <2>2 DEF Separate, Tended
<1>3. CASE CloseTransport
  BY <1>3, CloseTransportKeeps DEF Tended
<1> QED
  BY <1>1, <1>2, <1>3

LEMMA ConnectKeeps ==
    ASSUME IInv, Connect
    PROVE  IInv'
<1> USE DEF IInv, TypeOK, Connect
<1>1. /\ HttpTypeOK' /\ Streamed'
      /\ ActiveStreams' = ActiveStreams /\ httpClose' = httpClose
  BY HttpUnchanged DEF httpVars
<1>2. WsTypeOK' /\ Socketed'
  BY StartKeeps, WsUnchanged
<1>3. CASE aborted
  BY <1>1, <1>2, <1>3 DEF Separate, Tended, Unused, CloseCalled, wsVars
<1>4. CASE ~aborted
  BY <1>1, <1>2, <1>4, StartKeeps DEF Separate, Tended, Unused, CloseCalled, wsVars
<1> QED
  BY <1>3, <1>4 DEF WsTypeOK

LEMMA ProgressKeeps ==
    ASSUME IInv, Progress
    PROVE  IInv'
<1>1. /\ WsTypeOK' /\ Socketed' /\ HttpTypeOK' /\ Streamed'
      /\ ActiveStreams' = ActiveStreams
  BY WsUnchanged, HttpUnchanged DEF IInv, TypeOK, Progress
<1> QED
  BY <1>1 DEF IInv, TypeOK, Progress, Separate, Tended, Unused, CloseCalled, wsVars, httpVars

LEMMA DiscoveryAbortKeeps ==
    ASSUME IInv, Abort
    PROVE  IInv'
<1> USE DEF IInv, TypeOK, Abort, OnClose, Separate, Tended, Unused, CloseCalled
<1>1. CASE kind = "websocket" /\ CloseSteps /\ UNCHANGED httpVars
  <2>1. WsTypeOK' /\ Socketed' /\ closePromise' # "none"
    BY <1>1, CloseKeeps
  <2>2. /\ HttpTypeOK' /\ Streamed'
        /\ ActiveStreams' = ActiveStreams /\ httpClose' = httpClose
    BY <1>1, HttpUnchanged DEF httpVars
  <2> QED
    BY <1>1, <2>1, <2>2
<1>2. CASE /\ kind = "http" /\ HttpClose
           /\ UNCHANGED <<startPromise, socket, held, heard, closePromise,
                          didClose, failed, abortHook, oncloses>>
  <2>1. /\ HttpTypeOK' /\ Streamed' /\ httpClose' # "none"
        /\ ActiveStreams' = ActiveStreams
    BY <1>2, HttpCloseKeeps
  <2>2. WsTypeOK' /\ Socketed'
    BY <1>2 DEF WsTypeOK, Socketed, WsClosed
  <2> QED
    BY <1>2, <2>1, <2>2
<1>3. CASE UNCHANGED <<startPromise, socket, held, heard, closePromise, didClose,
                       failed, abortHook, oncloses, httpVars>>
  <2>1. WsTypeOK' /\ Socketed'
    BY <1>3 DEF WsTypeOK, Socketed, WsClosed
  <2>2. /\ HttpTypeOK' /\ Streamed'
        /\ ActiveStreams' = ActiveStreams /\ httpClose' = httpClose
    BY <1>3, HttpUnchanged DEF httpVars
  <2> QED
    BY <1>3, <2>1, <2>2
<1> QED
  BY <1>1, <1>2, <1>3

LEMMA ClientCloseKeeps ==
    ASSUME IInv, ClientClose
    PROVE  IInv'
<1> USE DEF IInv, TypeOK, ClientClose, OnClose
<1>1. CASE attached
  BY <1>1, CloseTransportKeeps DEF Tended
<1>2. CASE ~attached
  <2>1. /\ WsTypeOK' /\ Socketed' /\ HttpTypeOK' /\ Streamed'
        /\ ActiveStreams' = ActiveStreams
    BY <1>2, WsUnchanged, HttpUnchanged
  <2> QED
    BY <1>2, <2>1 DEF Separate, Tended, Unused, CloseCalled, wsVars, httpVars
<1> QED
  BY <1>1, <1>2

LEMMA ClientClosedKeeps ==
    ASSUME IInv, ClientClosed
    PROVE  IInv'
<1>1. /\ WsTypeOK' /\ Socketed' /\ HttpTypeOK' /\ Streamed'
      /\ ActiveStreams' = ActiveStreams
  BY WsUnchanged, HttpUnchanged DEF IInv, TypeOK, ClientClosed
<1> QED
  BY <1>1 DEF IInv, TypeOK, ClientClosed, Separate, Tended, Unused, CloseCalled, wsVars, httpVars

(* The invariant holds for any number of fetches. *)
THEOREM Invariant == Spec => []IInv
<1>1. Init => IInv
  <2> SUFFICES ASSUME Init PROVE IInv
    OBVIOUS
  <2>1. WsTypeOK /\ HttpTypeOK
    BY DEF Init, WsInit, HttpInit, WsTypeOK, HttpTypeOK
  <2>2. Socketed
    BY DEF Init, WsInit, Socketed
  <2> QED
    BY <2>1, <2>2 DEF Init, WsInit, HttpInit, IInv, TypeOK, Streamed, Separate, Tended,
                      Unused, ActiveStreams
<1>2. IInv /\ [Next]_vars => IInv'
  <2> SUFFICES ASSUME IInv, [Next]_vars PROVE IInv'
    OBVIOUS
  <2>1. CASE Next
    BY <2>1, TransportKeeps, CallerKeeps, ConnectKeeps, ProgressKeeps, DiscoveryAbortKeeps,
       ClientCloseKeeps, ClientClosedKeeps DEF Next
  <2>2. CASE UNCHANGED vars
    <3>1. /\ WsTypeOK' /\ Socketed' /\ HttpTypeOK' /\ Streamed'
          /\ ActiveStreams' = ActiveStreams
      BY <2>2, WsUnchanged, HttpUnchanged DEF IInv, TypeOK, vars
    <3> QED
      BY <2>2, <3>1 DEF vars, IInv, TypeOK, Separate, Tended, Unused, CloseCalled,
                        wsVars, httpVars
  <2> QED
    BY <2>1, <2>2
<1> QED
  BY <1>1, <1>2, PTL DEF Spec

(* close() resolves when nothing is left, and a discovery that has ended has *)
(* left no transport open that nobody closes.                                *)
THEOREM Gone == Spec => []ClosedMeansGone
<1>1. IInv => ClosedMeansGone
  BY DEF IInv, TypeOK, HttpTypeOK, Socketed, Streamed, Tended, Unused, ClosedMeansGone, HttpClosed
<1> QED
  BY <1>1, Invariant, PTL

-----------------------------------------------------------------------------
(* The gateway. *)

(* Where the bridge of a request may be while its handler is where it is.  *)
Handled(r) ==
    /\ phase[r] \in {"idle", "reading"} => bridge[r] = "none" /\ r \notin hasId
    /\ phase[r] = "starting" <=> bridge[r] \in {"starting", "aborted"}
    /\ phase[r] = "starting" => r \notin hasId
    /\ phase[r] # "idle" => route[r] \in Routes
    /\ KindOf[r] = "session" => /\ bridge[r] = "none"
                                /\ phase[r] \notin {"starting", "finally"}
                                /\ phase[r] # "idle" => target[r] \in Requests
    /\ bridge[r] = "open" => phase[r] \in {"handling", "finally"} \/ r \in hasId
    /\ bridge[r] = "open" /\ r \in hasId => r \in sessions
    /\ bridge[r] = "closed" /\ r \in sessions => r \in late
    /\ r \in active <=> bridge[r] \in {"open", "closing"}

(* How far the close has got, and what it has left by then. *)
Shutdown ==
    /\ gateway # "open" => \A r \in Requests : bridge[r] \notin {"starting", "open"}
    /\ gateway = "routes" =>
         \A r \in active : snapshot[route[r]] # None /\ r \in snapshot[route[r]]
    /\ gateway \in {"requests", "listener", "done"} =>
         active = {} /\ ActiveRequests \subseteq settling
    /\ gateway \in {"listener", "done"} => ActiveRequests = {}

GatewayInv == GatewayTypeOK /\ (\A r \in Requests : Handled(r)) /\ Shutdown

-----------------------------------------------------------------------------
(* What closing bridges does to each of them. *)
LEMMA CloseStep ==
    ASSUME GatewayTypeOK, NEW S, CloseBridges(S)
    PROVE  /\ bridge' \in [Requests -> BridgeStates]
           /\ \A r \in Requests :
                \/ r \notin S /\ bridge'[r] = bridge[r]
                \/ r \in S /\ bridge[r] = "starting" /\ bridge'[r] = "aborted"
                \/ r \in S /\ bridge[r] = "open" /\ bridge'[r] = "closing"
                \/ /\ r \in S /\ bridge[r] \notin {"starting", "open"}
                   /\ bridge'[r] = bridge[r]
  BY DEF GatewayTypeOK, CloseBridges, Closed, BridgeStates

LEMMA GotoStep ==
    ASSUME GatewayTypeOK, NEW r \in Requests, NEW p \in Phases, Goto(r, p)
    PROVE  /\ phase' \in [Requests -> Phases]
           /\ phase'[r] = p
           /\ \A x \in Requests : x # r => phase'[x] = phase[x]
  BY DEF GatewayTypeOK, Goto

-----------------------------------------------------------------------------
(* Each step keeps the invariant. *)
LEMMA ArriveKeeps ==
    ASSUME GatewayInv, NEW r \in Requests, Arrive(r)
    PROVE  GatewayInv'
<1> USE RequestAssumption, GotoStep DEF GatewayInv, Arrive, closingVars, sessionVars
<1>1. GatewayTypeOK'
  BY DEF GatewayTypeOK, Phases, BridgeStates
<1>2. ASSUME NEW x \in Requests PROVE Handled(x)'
  BY DEF GatewayTypeOK, Handled, Phases, BridgeStates
<1>3. Shutdown'
  BY DEF GatewayTypeOK, Shutdown, ActiveRequests, Handled, Phases, BridgeStates
<1> QED
  BY <1>1, <1>2, <1>3

LEMMA ReadBodyKeeps ==
    ASSUME GatewayInv, NEW r \in Requests, ReadBody(r)
    PROVE  GatewayInv'
<1> USE RequestAssumption, GotoStep DEF GatewayInv, ReadBody, closingVars, sessionVars
<1>1. GatewayTypeOK'
  BY DEF GatewayTypeOK, Phases, BridgeStates
<1>2. ASSUME NEW x \in Requests PROVE Handled(x)'
  BY DEF GatewayTypeOK, Handled, Phases, BridgeStates
<1>3. Shutdown'
  BY DEF GatewayTypeOK, Shutdown, ActiveRequests, Handled, Phases, BridgeStates
<1> QED
  BY <1>1, <1>2, <1>3

LEMMA BridgeStartedKeeps ==
    ASSUME GatewayInv, NEW r \in Requests, BridgeStarted(r)
    PROVE  GatewayInv'
<1> USE RequestAssumption, GotoStep DEF GatewayInv, BridgeStarted, closingVars
<1>1. GatewayTypeOK'
  BY DEF GatewayTypeOK, Phases, BridgeStates
<1>2. ASSUME NEW x \in Requests PROVE Handled(x)'
  BY DEF GatewayTypeOK, Handled, Phases, BridgeStates
<1>3. Shutdown'
  BY DEF GatewayTypeOK, Shutdown, ActiveRequests, Handled, Phases, BridgeStates
<1> QED
  BY <1>1, <1>2, <1>3

LEMMA StartFailsKeeps ==
    ASSUME GatewayInv, NEW r \in Requests, StartFails(r)
    PROVE  GatewayInv'
<1> USE RequestAssumption, CloseStep DEF GatewayInv, StartFails, closingVars, sessionVars
<1>1. GatewayTypeOK'
  BY DEF GatewayTypeOK, Phases, BridgeStates
<1>2. ASSUME NEW x \in Requests PROVE Handled(x)'
  BY DEF GatewayTypeOK, Handled, Phases, BridgeStates
<1>3. Shutdown'
  BY DEF GatewayTypeOK, Shutdown, ActiveRequests, Handled, Phases, BridgeStates
<1> QED
  BY <1>1, <1>2, <1>3

LEMMA StartThrowsKeeps ==
    ASSUME GatewayInv, NEW r \in Requests, StartThrows(r)
    PROVE  GatewayInv'
<1> USE RequestAssumption, GotoStep DEF GatewayInv, StartThrows, closingVars, sessionVars
<1>1. GatewayTypeOK'
  BY DEF GatewayTypeOK, Phases, BridgeStates
<1>2. ASSUME NEW x \in Requests PROVE Handled(x)'
  BY DEF GatewayTypeOK, Handled, Phases, BridgeStates
<1>3. Shutdown'
  BY DEF GatewayTypeOK, Shutdown, ActiveRequests, Handled, Phases, BridgeStates
<1> QED
  BY <1>1, <1>2, <1>3

LEMMA SessionInitializedKeeps ==
    ASSUME GatewayInv, NEW r \in Requests, SessionInitialized(r)
    PROVE  GatewayInv'
<1> USE RequestAssumption DEF GatewayInv, SessionInitialized, closingVars
<1>1. GatewayTypeOK'
  BY DEF GatewayTypeOK, Phases, BridgeStates
<1>2. ASSUME NEW x \in Requests PROVE Handled(x)'
  BY DEF GatewayTypeOK, Handled, Phases, BridgeStates
<1>3. Shutdown'
  BY DEF GatewayTypeOK, Shutdown, ActiveRequests, Handled, Phases, BridgeStates
<1> QED
  BY <1>1, <1>2, <1>3

LEMMA SessionClosedKeeps ==
    ASSUME GatewayInv, NEW r \in Requests, SessionClosed(r)
    PROVE  GatewayInv'
<1> USE RequestAssumption, CloseStep, GotoStep DEF GatewayInv, SessionClosed, closingVars
<1>1. GatewayTypeOK'
  BY DEF GatewayTypeOK, Phases, BridgeStates
<1>2. ASSUME NEW x \in Requests PROVE Handled(x)'
  BY DEF GatewayTypeOK, Handled, Phases, BridgeStates
<1>3. Shutdown'
  BY DEF GatewayTypeOK, Shutdown, ActiveRequests, Handled, Phases, BridgeStates
<1> QED
  BY <1>1, <1>2, <1>3

LEMMA HandleReturnsKeeps ==
    ASSUME GatewayInv, NEW r \in Requests, HandleReturns(r)
    PROVE  GatewayInv'
<1> USE RequestAssumption, GotoStep DEF GatewayInv, HandleReturns, closingVars, sessionVars
<1>1. GatewayTypeOK'
  BY DEF GatewayTypeOK, Phases, BridgeStates
<1>2. ASSUME NEW x \in Requests PROVE Handled(x)'
  BY DEF GatewayTypeOK, Handled, Phases, BridgeStates
<1>3. Shutdown'
  BY DEF GatewayTypeOK, Shutdown, ActiveRequests, Handled, Phases, BridgeStates
<1> QED
  BY <1>1, <1>2, <1>3

LEMMA FinallyKeeps ==
    ASSUME GatewayInv, NEW r \in Requests, Finally(r)
    PROVE  GatewayInv'
<1> USE RequestAssumption, CloseStep, GotoStep DEF GatewayInv, Finally, closingVars, sessionVars
<1>1. GatewayTypeOK'
  BY DEF GatewayTypeOK, Phases, BridgeStates
<1>2. ASSUME NEW x \in Requests PROVE Handled(x)'
  BY DEF GatewayTypeOK, Handled, Phases, BridgeStates
<1>3. Shutdown'
  BY DEF GatewayTypeOK, Shutdown, ActiveRequests, Handled, Phases, BridgeStates
<1> QED
  BY <1>1, <1>2, <1>3

LEMMA HandlerDoneKeeps ==
    ASSUME GatewayInv, NEW r \in Requests, HandlerDone(r)
    PROVE  GatewayInv'
<1> USE RequestAssumption, GotoStep DEF GatewayInv, HandlerDone, closingVars, sessionVars
<1>1. GatewayTypeOK'
  BY DEF GatewayTypeOK, Phases, BridgeStates
<1>2. ASSUME NEW x \in Requests PROVE Handled(x)'
  BY DEF GatewayTypeOK, Handled, Phases, BridgeStates
<1>3. Shutdown'
  BY DEF GatewayTypeOK, Shutdown, ActiveRequests, Handled, Phases, BridgeStates
<1> QED
  BY <1>1, <1>2, <1>3

LEMMA DisconnectKeeps ==
    ASSUME GatewayInv, NEW r \in Requests, Disconnect(r)
    PROVE  GatewayInv'
<1> USE RequestAssumption, CloseStep DEF GatewayInv, Disconnect, closingVars, sessionVars
<1>1. GatewayTypeOK'
  BY DEF GatewayTypeOK, Phases, BridgeStates
<1>2. ASSUME NEW x \in Requests PROVE Handled(x)'
  BY DEF GatewayTypeOK, Handled, Phases, BridgeStates
<1>3. Shutdown'
  BY DEF GatewayTypeOK, Shutdown, ActiveRequests, Handled, Phases, BridgeStates
<1> QED
  BY <1>1, <1>2, <1>3

LEMMA BridgeFailsKeeps ==
    ASSUME GatewayInv, NEW r \in Requests, BridgeFails(r)
    PROVE  GatewayInv'
<1> USE RequestAssumption, CloseStep DEF GatewayInv, BridgeFails, closingVars, sessionVars
<1>1. GatewayTypeOK'
  BY DEF GatewayTypeOK, Phases, BridgeStates
<1>2. ASSUME NEW x \in Requests PROVE Handled(x)'
  BY DEF GatewayTypeOK, Handled, Phases, BridgeStates
<1>3. Shutdown'
  BY DEF GatewayTypeOK, Shutdown, ActiveRequests, Handled, Phases, BridgeStates
<1> QED
  BY <1>1, <1>2, <1>3

LEMMA BridgeClosedKeeps ==
    ASSUME GatewayInv, NEW r \in Requests, BridgeClosed(r)
    PROVE  GatewayInv'
<1> USE RequestAssumption DEF GatewayInv, BridgeClosed, closingVars
<1>1. GatewayTypeOK'
  BY DEF GatewayTypeOK, Phases, BridgeStates
<1>2. ASSUME NEW x \in Requests PROVE Handled(x)'
  BY DEF GatewayTypeOK, Handled, Phases, BridgeStates
<1>3. Shutdown'
  BY DEF GatewayTypeOK, Shutdown, ActiveRequests, Handled, Phases, BridgeStates
<1> QED
  BY <1>1, <1>2, <1>3

LEMMA GatewayCloseKeeps ==
    ASSUME GatewayInv, Close
    PROVE  GatewayInv'
<1> USE RequestAssumption, CloseStep DEF GatewayInv, Close, sessionVars
<1>1. GatewayTypeOK'
  BY DEF GatewayTypeOK, Phases, BridgeStates
<1>2. ASSUME NEW x \in Requests PROVE Handled(x)'
  BY DEF GatewayTypeOK, Handled, Phases, BridgeStates
<1>3. Shutdown'
  BY DEF GatewayTypeOK, Shutdown, ActiveRequests, Handled, Phases, BridgeStates
<1> QED
  BY <1>1, <1>2, <1>3

LEMMA RouteLoopKeeps ==
    ASSUME GatewayInv, NEW p \in Routes, RouteLoop(p)
    PROVE  GatewayInv'
<1> USE RequestAssumption, CloseStep DEF GatewayInv, RouteLoop
<1>1. GatewayTypeOK'
  BY DEF GatewayTypeOK, Phases, BridgeStates
<1>2. ASSUME NEW x \in Requests PROVE Handled(x)'
  BY DEF GatewayTypeOK, Handled, Phases, BridgeStates
<1>3. Shutdown'
  BY DEF GatewayTypeOK, Shutdown, ActiveRequests, Handled, Phases, BridgeStates
<1> QED
  BY <1>1, <1>2, <1>3

LEMMA RoutesClosedKeeps ==
    ASSUME GatewayInv, RoutesClosed
    PROVE  GatewayInv'
<1> USE RequestAssumption DEF GatewayInv, RoutesClosed, sessionVars
<1>1. GatewayTypeOK'
  BY DEF GatewayTypeOK, ActiveRequests, Phases, BridgeStates
<1>2. ASSUME NEW x \in Requests PROVE Handled(x)'
  BY DEF GatewayTypeOK, Handled, Phases, BridgeStates
<1>3. Shutdown'
  BY DEF GatewayTypeOK, Shutdown, ActiveRequests, Handled, Phases, BridgeStates
<1> QED
  BY <1>1, <1>2, <1>3

LEMMA RequestsSettledKeeps ==
    ASSUME GatewayInv, RequestsSettled
    PROVE  GatewayInv'
<1> USE RequestAssumption DEF GatewayInv, RequestsSettled, sessionVars
<1>1. GatewayTypeOK'
  BY DEF GatewayTypeOK, Phases, BridgeStates
<1>2. ASSUME NEW x \in Requests PROVE Handled(x)'
  BY DEF GatewayTypeOK, Handled, Phases, BridgeStates
<1>3. Shutdown'
  BY DEF GatewayTypeOK, Shutdown, ActiveRequests, Handled, Phases, BridgeStates
<1> QED
  BY <1>1, <1>2, <1>3

LEMMA ListenerClosedKeeps ==
    ASSUME GatewayInv, ListenerClosed
    PROVE  GatewayInv'
<1> USE RequestAssumption DEF GatewayInv, ListenerClosed, sessionVars
<1>1. GatewayTypeOK'
  BY DEF GatewayTypeOK, Phases, BridgeStates
<1>2. ASSUME NEW x \in Requests PROVE Handled(x)'
  BY DEF GatewayTypeOK, Handled, Phases, BridgeStates
<1>3. Shutdown'
  BY DEF GatewayTypeOK, Shutdown, ActiveRequests, Handled, Phases, BridgeStates
<1> QED
  BY <1>1, <1>2, <1>3

-----------------------------------------------------------------------------
(* The invariant holds for any number of requests and routes. *)
THEOREM GatewayInvariant == GatewaySpec => []GatewayInv
<1>1. GatewayInit => GatewayInv
  BY RequestAssumption
     DEF GatewayInit, GatewayInv, GatewayTypeOK, Handled, Shutdown, ActiveRequests, Phases,
         BridgeStates
<1>2. GatewayInv /\ [GatewayNext]_gatewayVars => GatewayInv'
  <2> SUFFICES ASSUME GatewayInv, [GatewayNext]_gatewayVars PROVE GatewayInv'
    OBVIOUS
  <2>1. ASSUME NEW r \in Requests,
               \/ Arrive(r) \/ ReadBody(r) \/ BridgeStarted(r) \/ StartFails(r)
               \/ StartThrows(r) \/ SessionInitialized(r) \/ SessionClosed(r)
               \/ HandleReturns(r) \/ Finally(r) \/ HandlerDone(r)
               \/ Disconnect(r) \/ BridgeFails(r) \/ BridgeClosed(r)
        PROVE  GatewayInv'
    BY <2>1, ArriveKeeps, ReadBodyKeeps, BridgeStartedKeeps, StartFailsKeeps,
       StartThrowsKeeps, SessionInitializedKeeps, SessionClosedKeeps, HandleReturnsKeeps,
       FinallyKeeps, HandlerDoneKeeps, DisconnectKeeps, BridgeFailsKeeps,
       BridgeClosedKeeps
  <2>2. ASSUME NEW p \in Routes, RouteLoop(p) PROVE GatewayInv'
    BY <2>2, RouteLoopKeeps
  <2>3. CASE Close \/ RoutesClosed \/ RequestsSettled \/ ListenerClosed
    BY <2>3, GatewayCloseKeeps, RoutesClosedKeeps, RequestsSettledKeeps, ListenerClosedKeeps
  <2>4. CASE UNCHANGED gatewayVars
    BY <2>4 DEF gatewayVars, GatewayInv, GatewayTypeOK, Handled, Shutdown, ActiveRequests
  <2> QED
    BY <2>1, <2>2, <2>3, <2>4 DEF GatewayNext
<1> QED
  BY <1>1, <1>2, PTL DEF GatewaySpec

(* A bridge that is open has a handler that will close it, or is a session  *)
(* that clients can reach.                                                  *)
THEOREM NoOrphans == GatewaySpec => []NoOrphanBridge
<1>1. GatewayInv => NoOrphanBridge
  BY DEF GatewayInv, GatewayTypeOK, Handled, NoOrphanBridge, ActiveRequests
<1> QED
  BY <1>1, GatewayInvariant, PTL

(* A session whose bridge has closed is gone, unless its id came too late. *)
THEOREM SessionsEnd == GatewaySpec => []SessionsEndWithBridges
<1>1. GatewayInv => SessionsEndWithBridges
  BY DEF GatewayInv, GatewayTypeOK, Handled, SessionsEndWithBridges
<1> QED
  BY <1>1, GatewayInvariant, PTL

(* When the close of the gateway has ended no bridge is open and no handler *)
(* of a request runs.                                                       *)
THEOREM ClosesEverything == GatewaySpec => []CloseLeavesNothing
<1>1. GatewayInv => CloseLeavesNothing
  BY DEF GatewayInv, GatewayTypeOK, Handled, Shutdown, CloseLeavesNothing, ActiveRequests,
         BridgeStates
<1> QED
  BY <1>1, GatewayInvariant, PTL
=============================================================================
