----------------------------- MODULE StdioProxy -----------------------------
(***************************************************************************)
(* runStdioProxy (packages/transports/src/stdio.ts): one bridge between    *)
(* this process's standard input and output and the upstream.  The end of  *)
(* the input is held back from the downstream transport until the bridge   *)
(* has drained; then the bridge is closed and the proxy returns.           *)
(***************************************************************************)
EXTENDS Bridge

CONSTANT Patient   \* the client reuses an id only after it was answered

ASSUME PatientAssumption == Patient \in BOOLEAN

VARIABLES
    input,     \* the client's side of the pipe: open, ended (EOF) or broken
    outcome    \* the result of the race of bridge.closed and failure

vars == <<bridgeVars, input, outcome>>

ProxyTypeOK ==
    /\ TypeOK
    /\ input \in {"open", "ended", "broken"}
    /\ outcome \in {"running", "exited", "failed", "crashed"}

ProxyInit == Init /\ input = "open" /\ outcome = "running"

(* Promise.race([bridge.closed, failure]): the first to settle decides.    *)
(* onerror rejects `failure` at once, while `closed` takes the close of    *)
(* both transports.  Before the bridge has started nothing listens to      *)
(* `failure`, and its rejection ends the process.                          *)
Settles ==
    outcome' = IF outcome # "running" THEN outcome
               ELSE IF failure' /\ phase # "started" THEN "crashed"
               ELSE IF failure' \/ (phase' = "failed" /\ closing' = "done") THEN "failed"
               ELSE IF closing' = "done" THEN "exited"
               ELSE "running"

MayUse(id) ==
    \/ id = NoId
    \/ \A m \in Messages : request[m] # None /\ request[m].id = id => m \in reply

(* The client writes while its input is open.  The proxy pipes it to the   *)
(* transport once the bridge has started.                                  *)
ClientWrites ==
    /\ phase = "started"
    /\ input = "open"
    /\ outcome = "running"
    /\ \E m \in Messages, r \in Requests : ClientMessage(m, r) /\ (Patient => MayUse(r.id))
    /\ Settles
    /\ UNCHANGED input

(* EOF, and everything written before it was delivered to the transport. *)
InputEnds ==
    /\ phase = "started"
    /\ input = "open"
    /\ outcome = "running"
    /\ Drain
    /\ input' = "ended"
    /\ Settles

(* drain() returned: close the bridge.  If it threw, `failure` rejected.   *)
DrainSettles ==
    /\ drain.state = "drained"
    /\ Close
    /\ Settles
    /\ UNCHANGED input

(* The input fails or closes without EOF: downstreamInput is destroyed,    *)
(* and its transport reports the error or the close.                       *)
InputBreaks ==
    /\ phase = "started"
    /\ input = "open"
    /\ outcome = "running"
    /\ input' = "broken"
    /\ TransportError \/ PeerCloses("down")
    /\ Settles

(* The signal aborts. *)
Abort ==
    /\ Close
    /\ Settles
    /\ UNCHANGED input

BridgeStep ==
    /\ Running
    /\ Settles
    /\ UNCHANGED input

(* The process ends when the rejection goes unhandled, or once the proxy   *)
(* has a result and its last close() is done; pending jobs go with it.     *)
Alive == outcome # "crashed" /\ (outcome = "running" \/ closing # "done")

ProxyNext ==
    /\ Alive
    /\ \/ ClientWrites
       \/ InputEnds
       \/ InputBreaks
       \/ DrainSettles
       \/ Abort
       \/ BridgeStep

Step(A) == Alive /\ A /\ Settles /\ UNCHANGED input

(* A started job runs: its sends settle one way or the other, transports   *)
(* finish closing, and the server answers what it was asked or goes away.  *)
Fairness ==
    /\ WF_vars(Step(Starting))
    /\ WF_vars(Step(BothClosed))
    /\ \A e \in Ends : WF_vars(Step(EndCloses(e)))
    /\ WF_vars(Step(Draining))
    /\ WF_vars(Alive /\ DrainSettles)
    /\ \A m \in Messages :
          /\ WF_vars(Step(ClientJob(m)))
          /\ WF_vars(Step(ServerAnswers(m)))
          /\ WF_vars(Step(AnswerJob(m)))
    /\ \A n \in Notices : WF_vars(Step(NoticeJob(n)))

ProxySpec == ProxyInit /\ [][ProxyNext]_vars /\ Fairness

-----------------------------------------------------------------------------
(* No id is used by two requests (MCP asks this of a client within a       *)
(* session; the filter only refuses ids that are still outstanding).       *)
FreshIds ==
    \A m, n \in Messages :
        /\ request[m] # None
        /\ request[n] # None
        /\ request[m].id = request[n].id
        => m = n \/ request[m].id = NoId

Asked(m) == request[m] # None /\ request[m].id # NoId

(* EOF does not cost a response: when the bridge reports that it drained,  *)
(* every request the client had written has been answered to it.           *)
DrainedMeansAnswered ==
    drain.state = "drained" /\ closing = "no" =>
        \A m \in Messages : Asked(m) => m \in reply

FreshDrainedMeansAnswered == FreshIds => DrainedMeansAnswered

(* A client that uses each id once and closes its input is not kept        *)
(* waiting: the proxy ends.                                                *)
EofEventuallyExits == (input = "ended" /\ FreshIds) ~> (outcome # "running")

Relates(n) == notice[n] = "filtered" /\ notice'[n] = "relaying" /\ related'[n] # None

(* While the bridge is up, a server message is related to a request whose  *)
(* response job has not ended: no deferred outlives the answer to its      *)
(* request, even if the client reuses ids.                                 *)
RelatedRequestIsLive ==
    [][\A n \in Notices :
          Relates(n) /\ closing = "no" => answer[related'[n]] # "done"]_vars

=============================================================================
