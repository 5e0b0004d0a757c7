------------------------ MODULE WebSocketTransport ------------------------
(***************************************************************************)
(* The WebSocket client transport, packages/transports/src/websocket.ts.   *)
(* The fields of the class are the variables; the socket of the `ws`       *)
(* library is external and is known by its readyState and the events it    *)
(* emits.  An event handler runs to completion, and so does a method up to *)
(* its first await, so each is one action.                                 *)
(***************************************************************************)
EXTENDS Naturals

VARIABLES
    startPromise,  \* #startPromise: "none", "pending", "resolved", "rejected"
    socket,        \* readyState of the socket; "none" before there is one
    held,          \* #socket still refers to the socket
    heard,         \* the handlers of start() are on the socket
    closePromise,  \* #closePromise: "none", "waiting", "done"
    didClose,      \* #didClose
    failed,        \* #failed
    abortHook,     \* #abort is set
    aborted,       \* the caller's signal is aborted
    oncloses       \* how often onclose was called

wsVars == <<startPromise, socket, held, heard, closePromise, didClose, failed,
            abortHook, aborted, oncloses>>

WsTypeOK ==
    /\ startPromise \in {"none", "pending", "resolved", "rejected"}
    /\ socket \in {"none", "connecting", "open", "closing", "closed"}
    /\ closePromise \in {"none", "waiting", "done"}
    /\ {held, heard, didClose, failed, abortHook, aborted} \subseteq BOOLEAN
    /\ oncloses \in Nat

WsInit ==
    /\ startPromise = "none"
    /\ socket = "none"
    /\ held = FALSE
    /\ heard = FALSE
    /\ closePromise = "none"
    /\ didClose = FALSE
    /\ failed = FALSE
    /\ abortHook = FALSE
    /\ aborted = FALSE
    /\ oncloses = 0

---------------------------------------------------------------------------
\* The pieces the handlers share.

\* rejectStart(): settles the promise of start() unless it is settled.
Rejected == IF startPromise = "pending" THEN "rejected" ELSE startPromise

\* Bug: calls onclose on every path that ends the socket.
FinishCloseAgain ==
    /\ abortHook' = FALSE
    /\ held' = FALSE
    /\ didClose' = TRUE
    /\ oncloses' = oncloses + 1

\* #finishClose(): forgets the socket and calls onclose once.
FinishClose ==
    /\ abortHook' = FALSE
    /\ held' = FALSE
    /\ didClose' = TRUE
    /\ oncloses' = oncloses + (IF didClose THEN 0 ELSE 1)

\* terminate() and close() of the socket, whose close event follows.
Closing(state) == IF state \in {"connecting", "open"} THEN "closing" ELSE state

\* #fail(): the first protocol violation closes the socket with 1002.
Fail ==
    /\ failed' = TRUE
    /\ startPromise' = Rejected
    /\ socket' = IF held THEN Closing(socket) ELSE socket

---------------------------------------------------------------------------
\* start(): a signal that is aborted, or a constructor that throws, rejects
\* at once and leaves the transport without a socket.
WsStart ==
    /\ startPromise = "none"
    /\ ~didClose
    /\ abortHook' = TRUE
    /\ \/ /\ startPromise' = "rejected"
          /\ UNCHANGED <<socket, held, heard>>
       \/ /\ ~aborted
          /\ startPromise' = "pending"
          /\ socket' = "connecting"
          /\ held' = TRUE
          /\ heard' = TRUE
    /\ UNCHANGED <<closePromise, didClose, failed, aborted, oncloses>>

\* The open event.  A server that did not negotiate mcp is a violation.
WsOpen ==
    /\ socket = "connecting"
    /\ heard
    /\ \/ /\ socket' = "open"
          /\ startPromise' = IF startPromise = "pending" THEN "resolved"
                                                         ELSE startPromise
          /\ UNCHANGED failed
       \/ Fail
    /\ UNCHANGED <<held, heard, closePromise, didClose, abortHook, aborted,
                   oncloses>>

\* The error event of a failed handshake or a broken connection; the socket
\* emits its close event next.
WsError ==
    /\ socket \in {"connecting", "open"}
    /\ socket' = "closing"
    /\ startPromise' = IF heard THEN Rejected ELSE startPromise
    /\ UNCHANGED <<held, heard, closePromise, didClose, failed, abortHook,
                   aborted, oncloses>>

\* The peer starts the closing handshake.
WsPeerClose ==
    /\ socket = "open"
    /\ socket' = "closing"
    /\ UNCHANGED <<startPromise, held, heard, closePromise, didClose, failed,
                   abortHook, aborted, oncloses>>

\* #receive(): a frame that is binary, malformed or too large, also one that
\* arrives while the socket closes, fails the transport; frames after it are
\* dropped, and good ones are handed on without touching this state.
WsViolation ==
    /\ socket \in {"open", "closing"}
    /\ heard
    /\ ~failed
    /\ Fail
    /\ UNCHANGED <<held, heard, closePromise, didClose, abortHook, aborted, oncloses>>

\* The close event: its listener is the one of start() or the one of #close(),
\* whose continuation follows at once.
WsCloseEvent ==
    /\ socket = "closing"
    /\ socket' = "closed"
    /\ startPromise' = IF heard THEN Rejected ELSE startPromise
    /\ closePromise' = IF closePromise = "waiting" THEN "done" ELSE closePromise
    /\ FinishClose
    /\ UNCHANGED <<heard, failed, aborted>>

\* The caller's signal aborts.
WsAbort ==
    /\ ~aborted
    /\ aborted' = TRUE
    /\ IF abortHook
       THEN /\ startPromise' = Rejected
            /\ socket' = IF held THEN Closing(socket) ELSE socket
       ELSE UNCHANGED <<startPromise, socket>>
    /\ UNCHANGED <<held, heard, closePromise, didClose, failed, abortHook,
                   oncloses>>

\* close(): rejects a pending start, takes its own listeners, and waits for
\* the close event when there is a socket that has yet to emit it.
CloseSteps ==
    /\ closePromise = "none"
    /\ startPromise' = Rejected
    /\ IF held /\ socket # "closed"
       THEN /\ heard' = FALSE
            /\ abortHook' = FALSE
            /\ socket' = Closing(socket)
            /\ closePromise' = "waiting"
            /\ UNCHANGED <<held, didClose, oncloses>>
       ELSE /\ FinishClose
            /\ closePromise' = "done"
            /\ UNCHANGED <<heard, socket>>
    /\ UNCHANGED failed

WsClose == CloseSteps /\ UNCHANGED aborted

WsEvents == WsOpen \/ WsError \/ WsPeerClose \/ WsViolation \/ WsCloseEvent

---------------------------------------------------------------------------
\* What close() promises when it resolves: the socket is gone, start() is
\* settled, and onclose was called exactly once.
WsClosed ==
    /\ socket \in {"none", "closed"}
    /\ startPromise # "pending"
    /\ ~abortHook
    /\ oncloses = 1
=============================================================================
