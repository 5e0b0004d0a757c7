----------------------------- MODULE Upstream -----------------------------
(***************************************************************************)
(* createUpstreamTransport() and its users: a transport of one of the      *)
(* remote kinds, driven by a caller that may start and close it at any     *)
(* moment, or by discoverToolNames() (packages/transports/src/discovery.ts)*)
(* through the SDK's client, which is external.                            *)
(***************************************************************************)
EXTENDS WebSocketTransport, HttpTransport

VARIABLES
    kind,       \* of the transport: "websocket", or "http" for HTTP and SSE
    user,       \* who drives it: "caller" or "discovery"
    discovery,  \* "idle", "connecting", "listing", "closing",
                \* "awaiting" the transport's close(), "done"
    attached    \* the SDK's client still holds the transport

vars == <<wsVars, httpVars, kind, user, discovery, attached>>

TypeOK ==
    /\ WsTypeOK
    /\ HttpTypeOK
    /\ kind \in {"websocket", "http"}
    /\ user \in {"caller", "discovery"}
    /\ discovery \in {"idle", "connecting", "listing", "closing",
                      "awaiting", "done"}
    /\ attached \in BOOLEAN

Init ==
    /\ WsInit
    /\ HttpInit
    /\ kind \in {"websocket", "http"}
    /\ user \in {"caller", "discovery"}
    /\ discovery = "idle"
    /\ attached = FALSE

---------------------------------------------------------------------------
\* The client lets go of the transport on its onclose, which the SDK's HTTP
\* transports call as soon as they are closed.
OnClose == attached' = (attached /\ oncloses' = oncloses /\ httpClose' = "none")

TransportStep ==
    /\ \/ kind = "websocket" /\ WsEvents /\ UNCHANGED httpVars
       \/ kind = "http" /\ (HttpEvents \/ HttpSdkClosed \/ HttpCloseDone) /\ UNCHANGED wsVars
    /\ user = "caller" \/ attached \/ ~\E f \in Fetches : FetchStart(f)
    /\ OnClose
    /\ UNCHANGED <<kind, user, discovery>>

CloseCalled == closePromise # "none" \/ httpClose # "none"

\* transport.close(), which returns the promise of the first call.
CloseTransport ==
    \/ CloseCalled /\ UNCHANGED <<wsVars, httpVars>>
    \/ kind = "websocket" /\ WsClose /\ UNCHANGED httpVars
    \/ kind = "http" /\ HttpClose /\ UNCHANGED wsVars

\* A caller such as the bridge.
CallerStep ==
    /\ user = "caller"
    /\ \/ kind = "websocket" /\ (WsStart \/ WsAbort) /\ UNCHANGED httpVars
       \/ ~CloseCalled /\ CloseTransport
    /\ UNCHANGED <<kind, user, discovery, attached>>

---------------------------------------------------------------------------
\* discoverToolNames() connects the client, unless its signal is aborted.
Connect ==
    /\ user = "discovery"
    /\ discovery = "idle"
    /\ \/ /\ aborted
          /\ discovery' = "closing"
          /\ UNCHANGED <<wsVars, attached>>
       \/ /\ ~aborted
          /\ discovery' = "connecting"
          /\ attached' = TRUE
          /\ IF kind = "websocket" THEN WsStart ELSE UNCHANGED wsVars
    /\ UNCHANGED <<httpVars, kind, user>>

\* The client has connected, or has listed the tools, or the list holds a
\* name twice, or either request failed or was overtaken by the abort.
Progress ==
    /\ user = "discovery"
    /\ \/ /\ discovery = "connecting"
          /\ kind = "websocket" => startPromise = "resolved"
          /\ ~aborted
          /\ discovery' = "listing"
       \/ /\ discovery \in {"connecting", "listing"}
          /\ discovery' = "closing"
    /\ UNCHANGED <<wsVars, httpVars, kind, user, attached>>

\* The abort listener closes the transport, before the transport's own
\* listener, which was added later and is removed by close(), could run.
Abort ==
    /\ user = "discovery"
    /\ ~aborted
    /\ aborted' = TRUE
    /\ IF discovery \in {"connecting", "listing"} /\ ~CloseCalled
       THEN \/ kind = "websocket" /\ CloseSteps /\ UNCHANGED httpVars
            \/ /\ kind = "http"
               /\ HttpClose
               /\ UNCHANGED <<startPromise, socket, held, heard, closePromise,
                              didClose, failed, abortHook, oncloses>>
       ELSE UNCHANGED <<startPromise, socket, held, heard, closePromise, didClose,
                        failed, abortHook, oncloses, httpVars>>
    /\ OnClose
    /\ UNCHANGED <<kind, user, discovery>>

\* client.close() closes the transport it still holds, and waits for it.
ClientClose ==
    /\ discovery = "closing"
    /\ IF attached
       THEN CloseTransport /\ discovery' = "awaiting"
       ELSE UNCHANGED <<wsVars, httpVars>> /\ discovery' = "done"
    /\ OnClose
    /\ UNCHANGED <<kind, user>>

ClientClosed ==
    /\ discovery = "awaiting"
    /\ closePromise = "done" \/ httpClose = "done"
    /\ discovery' = "done"
    /\ UNCHANGED <<wsVars, httpVars, kind, user, attached>>

---------------------------------------------------------------------------
Next ==
    \/ TransportStep
    \/ CallerStep
    \/ Connect
    \/ Progress
    \/ Abort
    \/ ClientClose
    \/ ClientClosed

\* A fetch whose signal is aborted settles, and so does a pipe that is aborted
\* or whose body is.
UnwantedSettles(f) ==
    /\ Unwanted(f) \/ piped[f] = "aborted"
    /\ FetchResponds(f) \/ FetchThrows(f) \/ PipeSettles(f)

\* The socket library ends a closing handshake nobody answers with a timer of
\* its own; the event loop resumes what can go on.  A server need not answer.
Fairness ==
    /\ WF_vars(TransportStep /\ WsCloseEvent)
    /\ \A f \in Fetches : WF_vars(TransportStep /\ UnwantedSettles(f))
    /\ WF_vars(TransportStep /\ HttpSdkClosed)
    /\ WF_vars(TransportStep /\ HttpCloseDone)
    /\ WF_vars(ClientClose)
    /\ WF_vars(ClientClosed)

Spec == Init /\ [][Next]_vars /\ Fairness

---------------------------------------------------------------------------
\* When close() has resolved nothing of the transport is left: the socket is
\* gone, start() has settled and onclose was called once, whatever the order of
\* the peer's close, the abort, the violation and the call; and no fetch waits
\* and no stream is read (websocket.ts 112-128, upstream.ts 150-161).  A tool
\* discovery, however it ends, leaves no transport that nobody closes: if it
\* ever connected, close() was called or the socket is gone (discovery.ts 31-57).
ClosedMeansGone ==
    /\ closePromise = "done" => WsClosed
    /\ httpClose = "done" => HttpClosed
    /\ discovery = "done" => \/ CloseCalled
                             \/ socket = "closed"
                             \/ startPromise = "none" /\ ActiveStreams = {}

\* close() resolves: no socket, response or stream it waits for outlives the
\* call, also when the call comes in the middle of a start or a fetch.
CloseEnds ==
    /\ closePromise = "waiting" ~> closePromise = "done"
    /\ httpClose = "sdk" ~> httpClose = "done"
=============================================================================
