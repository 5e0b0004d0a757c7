--------------------------- MODULE HttpTransport ---------------------------
(***************************************************************************)
(* The HTTP and SSE client transports, packages/transports/src/upstream.ts *)
(* lines 77-163: the SDK's transport, external, with every fetch it makes  *)
(* wrapped by trackedFetch(), and a close() that waits for what they left. *)
(***************************************************************************)
EXTENDS FiniteSets

CONSTANT Fetches  \* the fetches the SDK makes, one identity each

VARIABLES
    fetch,      \* of each fetch: "unused", "waiting" for the response,
                \* "cancelling" a body nobody wants, "piping", "finished"
    piped,      \* of each fetch: "no", "yes", or "aborted"; its active.pipe
    dropped,    \* fetches whose own request signal is aborted
    lifetime,   \* the transport's lifetime signal is aborted
    httpClose,  \* closing: "none", "sdk" while the SDK closes, "streams"
                \* while the snapshot settles, "done"
    awaited     \* the snapshot of activeStreams that close() waits for

httpVars == <<fetch, piped, dropped, lifetime, httpClose, awaited>>

HttpTypeOK ==
    /\ fetch \in [Fetches -> {"unused", "waiting", "cancelling", "piping", "finished"}]
    /\ piped \in [Fetches -> {"no", "yes", "aborted"}]
    /\ dropped \subseteq Fetches
    /\ lifetime \in BOOLEAN
    /\ httpClose \in {"none", "sdk", "streams", "done"}
    /\ awaited \subseteq Fetches

HttpInit ==
    /\ fetch = [f \in Fetches |-> "unused"]
    /\ piped = [f \in Fetches |-> "no"]
    /\ dropped = {}
    /\ lifetime = FALSE
    /\ httpClose = "none"
    /\ awaited = {}

\* activeStreams.
ActiveStreams == {f \in Fetches : fetch[f] \in {"waiting", "cancelling", "piping"}}

\* combinedSignal.aborted.
Unwanted(f) == lifetime \/ f \in dropped

---------------------------------------------------------------------------
\* trackedFetch() up to its await: nothing starts once the lifetime is over.
FetchStart(f) ==
    /\ fetch[f] = "unused"
    /\ ~lifetime
    /\ fetch' = [fetch EXCEPT ![f] = "waiting"]
    /\ UNCHANGED <<piped, dropped, lifetime, httpClose, awaited>>

\* The response arrives.  One that nobody wants any more is cancelled, an
\* event stream is piped on under a controller of its own, and any other
\* body is the caller's.
FetchResponds(f) ==
    /\ fetch[f] = "waiting"
    /\ \/ /\ Unwanted(f)
          /\ fetch' = [fetch EXCEPT ![f] = "cancelling"]
          /\ UNCHANGED piped
       \/ /\ ~Unwanted(f)
          /\ fetch' = [fetch EXCEPT ![f] = "piping"]
          /\ piped' = [piped EXCEPT ![f] = "yes"]
       \/ /\ ~Unwanted(f)
          /\ fetch' = [fetch EXCEPT ![f] = "finished"]
          /\ UNCHANGED piped
    /\ UNCHANGED <<dropped, lifetime, httpClose, awaited>>

\* The fetch fails, or its signal aborts it, or the cancelled body is gone:
\* finish() and throw.
FetchThrows(f) ==
    /\ fetch[f] \in {"waiting", "cancelling"}
    /\ fetch' = [fetch EXCEPT ![f] = "finished"]
    /\ UNCHANGED <<piped, dropped, lifetime, httpClose, awaited>>

\* pipeTo() settles: the server ended the stream or broke it, or close()
\* aborted the pipe.
PipeSettles(f) ==
    /\ fetch[f] = "piping"
    /\ fetch' = [fetch EXCEPT ![f] = "finished"]
    /\ UNCHANGED <<piped, dropped, lifetime, httpClose, awaited>>

\* The SDK aborts one request.
DropRequest(f) ==
    /\ fetch[f] = "waiting"
    /\ f \notin dropped
    /\ dropped' = dropped \cup {f}
    /\ UNCHANGED <<fetch, piped, lifetime, httpClose, awaited>>

---------------------------------------------------------------------------
\* Bug: leaves it to the SDK to cancel what it still waits for.
HttpCloseTrusting ==
    /\ httpClose = "none"
    /\ httpClose' = "sdk"
    /\ UNCHANGED <<fetch, piped, dropped, lifetime, awaited>>

\* close(): every pipe there is, then the lifetime, then the SDK's close().
HttpClose ==
    /\ httpClose = "none"
    /\ piped' = [f \in Fetches |->
                    IF f \in ActiveStreams /\ piped[f] = "yes" THEN "aborted"
                                                               ELSE piped[f]]
    /\ lifetime' = TRUE
    /\ httpClose' = "sdk"
    /\ UNCHANGED <<fetch, dropped, awaited>>

\* The SDK's close() settles, either way, and the snapshot is taken.
HttpSdkClosed ==
    /\ httpClose = "sdk"
    /\ httpClose' = "streams"
    /\ awaited' = ActiveStreams
    /\ UNCHANGED <<fetch, piped, dropped, lifetime>>

HttpCloseDone ==
    /\ httpClose = "streams"
    /\ awaited \cap ActiveStreams = {}
    /\ httpClose' = "done"
    /\ UNCHANGED <<fetch, piped, dropped, lifetime, awaited>>

HttpEvents ==
    \E f \in Fetches : \/ FetchStart(f)
                       \/ FetchResponds(f)
                       \/ FetchThrows(f)
                       \/ PipeSettles(f)
                       \/ DropRequest(f)

---------------------------------------------------------------------------
\* What close() promises when it resolves: no response is on its way and no
\* stream is read any more.
HttpClosed == lifetime /\ ActiveStreams = {}
=============================================================================
