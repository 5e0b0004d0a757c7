------------------------------- MODULE Bridge -------------------------------
(***************************************************************************)
(* bridgeTransports (packages/transports/src/bridge.ts) with the message   *)
(* filter it owns (packages/core/src/index.ts): one proxy connection       *)
(* between a client, on the "down" transport, and an MCP server, on the    *)
(* "up" transport.                                                         *)
(*                                                                         *)
(* The program is one event loop.  Every message starts a job that runs    *)
(* without interruption up to its next await, so an action is the code     *)
(* between two awaits and the jobs interleave at them: in authorize(), in  *)
(* the return of an async filter call, in send().                          *)
(***************************************************************************)
CONSTANTS
    Messages,      \* what the client sends, one element per message
    Notices,       \* requests and notifications the server starts itself
    Ids,           \* JSON-RPC ids, a number and its decimal string being two
    Tools,         \* tools the server offers
    Discoverable,  \* those for which the authorizer's discover() is true
    Calls,         \* well-formed <tool, arguments> of a tools/call
    Authorized,    \* those for which authorize() says allowed
    Malformed,     \* tools/call params that toolCall() refuses
    NoId, None

Method == {"initialize", "tools/list", "tools/call", "other"}

(* What the client may put in a message.  A notification, or the client's  *)
(* own response to a server request, has no request id.                    *)
Request ==
    { r \in [id : Ids \union {NoId}, method : Method, call : Calls \union {None, Malformed}] :
        r.method = "tools/call" <=> r.call # None }

CONSTANT Requests  \* the requests the client sends

ASSUME BridgeAssumption ==
    /\ Requests \subseteq Request
    /\ Discoverable \subseteq Tools
    /\ Authorized \subseteq Calls
    /\ NoId \notin Ids
    /\ None \notin Messages \union Calls \union Method \union Request \union {Malformed}
    /\ Malformed \notin Calls

Ends == {"down", "up"}

VARIABLES
    phase,              \* how far bridgeTransports() got starting the transports
    ends,               \* each transport: open, closing or closed
    closing,            \* close(): not called, called, or its promise resolved
    failure,            \* fail() recorded an error
    pendingRequests,    \* MessageFilter: id -> method of the outstanding request
    pendingResponses,   \* bridge: id -> the request whose deferred it holds
    initializeRequests, \* ids of initialize requests not answered yet
    resolved,           \* requests whose deferred was resolved
    version,            \* ends that adopted the server's protocol version
    request,            \* what each client message says
    job,                \* the job of each client message
    verdict,            \* the response the filter gave instead of forwarding
    audited,            \* calls whose decision was emitted as an audit event
    forwarded,          \* messages handed to upstream.send
    answer,             \* the job of the server's response to each message
    content,            \* what the filter read of the server's answer
    tools,              \* the tools in the response given to downstream.send
    reply,              \* messages answered through downstream.send
    notice,             \* the job of each server-initiated message
    related,            \* the request its relatedRequestId named
    drain               \* drain(): where it is and what it waits for

filterVars == <<pendingRequests>>
closeVars  == <<ends, closing, failure>>
clientVars == <<request, job, verdict, audited, forwarded>>
answerVars == <<answer, content, tools, reply>>
noticeVars == <<notice, related>>
trackVars  == <<pendingResponses, initializeRequests, resolved>>

bridgeVars == <<phase, closeVars, filterVars, trackVars, version,
                clientVars, answerVars, noticeVars, drain>>

-----------------------------------------------------------------------------
Job    == [end : Ends \union {"notice"}, of : Messages \union Notices]

TypeOK ==
    /\ phase \in {"upstream", "downstream", "started", "failed"}
    /\ ends \in [Ends -> {"open", "closing", "closed"}]
    /\ closing \in {"no", "yes", "done"}
    /\ failure \in BOOLEAN
    /\ pendingRequests \in [Ids -> Method \union {None}]
    /\ pendingResponses \in [Ids -> Messages \union {None}]
    /\ initializeRequests \subseteq Ids
    /\ resolved \subseteq Messages
    /\ version \subseteq Ends
    /\ request \in [Messages -> Requests \union {None}]
    /\ job \in [Messages ->
          {"unsent", "authorizing", "forward", "sending", "reply", "replying", "done"}]
    /\ verdict \in [Messages -> {"none", "duplicate", "invalid", "denied"}]
    /\ audited \subseteq Messages
    /\ forwarded \subseteq Messages
    /\ answer \in [Messages -> {"none", "filtered", "delivering", "done"}]
    /\ content \in [Messages -> {"none", "result", "invalid", "error"}]
    /\ tools \in [Messages -> SUBSET Tools]
    /\ reply \subseteq Messages
    /\ notice \in [Notices -> {"none", "filtered", "relaying", "done"}]
    /\ related \in [Notices -> Messages \union {None}]
    /\ drain \in [state : {"idle", "check", "waiting", "drained", "failed"},
                  jobs : SUBSET Job, responses : SUBSET Messages]

Idle == [state |-> "idle", jobs |-> {}, responses |-> {}]

Init ==
    /\ phase = "upstream"
    /\ ends = [e \in Ends |-> "open"]
    /\ closing = "no"
    /\ failure = FALSE
    /\ pendingRequests = [k \in Ids |-> None]
    /\ pendingResponses = [k \in Ids |-> None]
    /\ initializeRequests = {}
    /\ resolved = {}
    /\ version = {}
    /\ request = [m \in Messages |-> None]
    /\ job = [m \in Messages |-> "unsent"]
    /\ verdict = [m \in Messages |-> "none"]
    /\ audited = {}
    /\ forwarded = {}
    /\ answer = [m \in Messages |-> "none"]
    /\ content = [m \in Messages |-> "none"]
    /\ tools = [m \in Messages |-> {}]
    /\ reply = {}
    /\ notice = [n \in Notices |-> "none"]
    /\ related = [n \in Notices |-> None]
    /\ drain = Idle

-----------------------------------------------------------------------------
(* Closing and failing.                                                    *)

(* close(): the first call closes both transports, a later one does nothing. *)
Closed ==
    /\ closing' = IF closing = "no" THEN "yes" ELSE closing
    /\ ends' = IF closing = "no" THEN [e \in Ends |-> "closing"] ELSE ends

(* fail(): the error is recorded, and the bridge closes. *)
Fail ==
    /\ failure' = TRUE
    /\ Closed

(* The host, or its abort signal, closes the bridge. *)
Close ==
    /\ closing = "no"
    /\ Closed
    /\ UNCHANGED <<phase, failure, filterVars, trackVars, version,
                   clientVars, answerVars, noticeVars, drain>>

(* A transport reports that its peer is gone: onclose calls close(). *)
PeerCloses(e) ==
    /\ ends[e] = "open"
    /\ closing' = "yes"
    /\ ends' = [f \in Ends |-> IF f = e THEN "closed" ELSE "closing"]
    /\ UNCHANGED <<phase, failure, filterVars, trackVars, version,
                   clientVars, answerVars, noticeVars, drain>>

(* A transport reports an error: onerror fails the bridge. *)
TransportError ==
    /\ \E e \in Ends : ends[e] # "closed"
    /\ Fail
    /\ UNCHANGED <<phase, filterVars, trackVars, version,
                   clientVars, answerVars, noticeVars, drain>>

(* One transport.close() settles. *)
EndCloses(e) ==
    /\ ends[e] = "closing"
    /\ ends' = [ends EXCEPT ![e] = "closed"]
    /\ UNCHANGED <<phase, closing, failure, filterVars, trackVars, version,
                   clientVars, answerVars, noticeVars, drain>>

(* Promise.allSettled of the two closes resolves `closed`. *)
BothClosed ==
    /\ closing = "yes"
    /\ \A e \in Ends : ends[e] = "closed"
    /\ closing' = "done"
    /\ UNCHANGED <<phase, ends, failure, filterVars, trackVars, version,
                   clientVars, answerVars, noticeVars, drain>>

-----------------------------------------------------------------------------
(* Starting.  The handlers are installed before either start() is called.  *)

StartUpstream ==
    /\ phase = "upstream"
    /\ phase' = "downstream"
    /\ UNCHANGED <<closeVars, filterVars, trackVars, version,
                   clientVars, answerVars, noticeVars, drain>>

StartDownstream ==
    /\ phase = "downstream"
    /\ phase' = "started"
    /\ UNCHANGED <<closeVars, filterVars, trackVars, version,
                   clientVars, answerVars, noticeVars, drain>>

(* start() rejects, or the signal aborts while it is pending: both ends are *)
(* closed and bridgeTransports() throws.                                    *)
StartFails ==
    /\ phase \in {"upstream", "downstream"}
    /\ phase' = "failed"
    /\ Closed
    /\ UNCHANGED <<failure, filterVars, trackVars, version,
                   clientVars, answerVars, noticeVars, drain>>

-----------------------------------------------------------------------------
(* A message from the client: downstream.onmessage and handleClientLine up *)
(* to the first await, for each of the ways it may go.                     *)

Receives(m, r) ==
    /\ phase \in {"downstream", "started"}
    /\ ends["down"] # "closed"
    /\ job[m] = "unsent"
    /\ request' = [request EXCEPT ![m] = r]
    /\ UNCHANGED <<phase, closeVars, trackVars, version, audited, forwarded,
                   answerVars, noticeVars, drain>>

(* Mutations: duplicates pass, or are recognised by their method. *)
IsDuplicateNever(r) == FALSE

IsDuplicateMethod(r) == r.id # NoId /\ pendingRequests[r.id] = r.method

IsDuplicate(r) == r.id # NoId /\ pendingRequests[r.id] # None

Remember(r) ==
    pendingRequests' = IF r.id = NoId THEN pendingRequests
                       ELSE [pendingRequests EXCEPT ![r.id] = r.method]

Forget(r) ==
    pendingRequests' = IF r.id = NoId THEN pendingRequests
                       ELSE [pendingRequests EXCEPT ![r.id] = None]

(* A response of the filter's own, unless the message was a notification. *)
Refuse(m, r, why) ==
    /\ verdict' = [verdict EXCEPT ![m] = why]
    /\ job' = [job EXCEPT ![m] = IF r.id = NoId THEN "done" ELSE "reply"]

RejectDuplicate(m, r) ==
    /\ Receives(m, r)
    /\ IsDuplicate(r)
    /\ Refuse(m, r, "duplicate")
    /\ UNCHANGED pendingRequests

RejectMalformed(m, r) ==
    /\ Receives(m, r)
    /\ ~ IsDuplicate(r)
    /\ r.call = Malformed
    /\ Forget(r)
    /\ Refuse(m, r, "invalid")

(* Mutation: a call is remembered only once it was decided. *)
AskAuthorizerFirst(m, r) ==
    /\ Receives(m, r)
    /\ ~ IsDuplicate(r)
    /\ r.call \in Calls
    /\ job' = [job EXCEPT ![m] = "authorizing"]
    /\ UNCHANGED <<verdict, pendingRequests>>

AskAuthorizer(m, r) ==
    /\ Receives(m, r)
    /\ ~ IsDuplicate(r)
    /\ r.call \in Calls
    /\ Remember(r)
    /\ job' = [job EXCEPT ![m] = "authorizing"]
    /\ UNCHANGED verdict

(* Mutation: a call without an id passes as a notification. *)
PassThroughNotification(m, r) ==
    /\ Receives(m, r)
    /\ ~ IsDuplicate(r)
    /\ r.call = None \/ r.id = NoId
    /\ Remember(r)
    /\ job' = [job EXCEPT ![m] = "forward"]
    /\ UNCHANGED verdict

PassThrough(m, r) ==
    /\ Receives(m, r)
    /\ ~ IsDuplicate(r)
    /\ r.call = None
    /\ Remember(r)
    /\ job' = [job EXCEPT ![m] = "forward"]
    /\ UNCHANGED verdict

ClientMessage(m, r) ==
    \/ RejectDuplicate(m, r)
    \/ RejectMalformed(m, r)
    \/ AskAuthorizer(m, r)
    \/ PassThrough(m, r)

(* authorize() settles. *)
Allow(m) ==
    /\ job[m] = "authorizing"
    /\ request[m].call \in Authorized
    /\ audited' = audited \union {m}
    /\ job' = [job EXCEPT ![m] = "forward"]
    /\ UNCHANGED <<phase, closeVars, filterVars, trackVars, version, request, verdict,
                   forwarded, answerVars, noticeVars, drain>>

(* Mutation: the id of a denied call stays taken. *)
DenyKeeps(m) ==
    /\ job[m] = "authorizing"
    /\ request[m].call \notin Authorized
    /\ Refuse(m, request[m], "denied")
    /\ audited' = audited \union {m}
    /\ UNCHANGED <<phase, closeVars, filterVars, trackVars, version, request, forwarded,
                   answerVars, noticeVars, drain>>

Deny(m) ==
    /\ job[m] = "authorizing"
    /\ request[m].call \notin Authorized
    /\ Forget(request[m])
    /\ Refuse(m, request[m], "denied")
    /\ audited' = audited \union {m}
    /\ UNCHANGED <<phase, closeVars, trackVars, version, request, forwarded,
                   answerVars, noticeVars, drain>>

AuthorizerThrows(m) ==
    /\ job[m] = "authorizing"
    /\ Forget(request[m])
    /\ job' = [job EXCEPT ![m] = "done"]
    /\ Fail
    /\ UNCHANGED <<phase, trackVars, version, request, verdict, audited,
                   forwarded, answerVars, noticeVars, drain>>

(* The filter said forward: track the request, then call upstream.send. *)
Forward(m) ==
    /\ job[m] = "forward"
    /\ LET r == request[m] IN
        IF r.id = NoId THEN UNCHANGED trackVars
        ELSE /\ pendingResponses' = [pendingResponses EXCEPT ![r.id] = m]
             /\ initializeRequests' = IF r.method = "initialize"
                                      THEN initializeRequests \union {r.id}
                                      ELSE initializeRequests
             /\ UNCHANGED resolved
    /\ forwarded' = forwarded \union {m}
    /\ job' = [job EXCEPT ![m] = "sending"]
    /\ UNCHANGED <<phase, closeVars, filterVars, version, request, verdict, audited,
                   answerVars, noticeVars, drain>>

Sent(m) ==
    /\ job[m] = "sending"
    /\ job' = [job EXCEPT ![m] = "done"]
    /\ UNCHANGED <<phase, closeVars, filterVars, trackVars, version, request, verdict,
                   audited, forwarded, answerVars, noticeVars, drain>>

SendFails(m) ==
    /\ job[m] = "sending"
    /\ job' = [job EXCEPT ![m] = "done"]
    /\ Fail
    /\ UNCHANGED <<phase, filterVars, trackVars, version, request, verdict, audited,
                   forwarded, answerVars, noticeVars, drain>>

(* The filter said respond: downstream.send with the client's own id. *)
Respond(m) ==
    /\ job[m] = "reply"
    /\ job' = [job EXCEPT ![m] = "replying"]
    /\ reply' = reply \union {m}
    /\ UNCHANGED <<phase, closeVars, filterVars, trackVars, version, request, verdict,
                   audited, forwarded, answer, content, tools, noticeVars, drain>>

Responded(m) ==
    /\ job[m] = "replying"
    /\ job' = [job EXCEPT ![m] = "done"]
    /\ UNCHANGED <<phase, closeVars, filterVars, trackVars, version, request, verdict,
                   audited, forwarded, answerVars, noticeVars, drain>>

ResponseFails(m) ==
    /\ job[m] \in {"reply", "replying"}
    /\ job' = [job EXCEPT ![m] = "done"]
    /\ Fail
    /\ UNCHANGED <<phase, filterVars, trackVars, version, request, verdict, audited,
                   forwarded, answerVars, noticeVars, drain>>

-----------------------------------------------------------------------------
(* A response from the server: upstream.onmessage.  The server answers a   *)
(* request it was sent, once, and a response may overtake the send that    *)
(* carried its request (Streamable HTTP reads it from the same exchange).  *)

Answers(m) ==
    /\ ends["up"] # "closed"
    /\ m \in forwarded
    /\ request[m].id # NoId
    /\ answer[m] = "none"

(* Mutation: the id is looked up after it was removed. *)
NegotiatesAfterDelete(m, c) ==
    request[m].id \in initializeRequests \ {request[m].id} /\ c = "result"

NegotiatesVersion(m, c) ==
    request[m].id \in initializeRequests /\ c = "result"

(* The downstream transport refuses the protocol version: the job returns  *)
(* before the filter sees the response.                                    *)
VersionRefused(m, c) ==
    /\ Answers(m)
    /\ NegotiatesVersion(m, c)
    /\ initializeRequests' = initializeRequests \ {request[m].id}
    /\ version' = version \union {"up"}
    /\ answer' = [answer EXCEPT ![m] = "done"]
    /\ Fail
    /\ UNCHANGED <<phase, filterVars, pendingResponses, resolved, clientVars, content,
                   tools, reply, noticeVars, drain>>

(* handleUpstreamLine looks the method up by id.  Only what it takes for a *)
(* tools/list response is read, and what cannot be read throws.            *)
FilterThrows(m, c) == pendingRequests[request[m].id] = "tools/list" /\ c = "invalid"

ListedTools(m, c) ==
    IF request[m].method # "tools/list" \/ c # "result" THEN {}
    ELSE IF pendingRequests[request[m].id] = "tools/list" THEN Tools \intersect Discoverable
    ELSE Tools

Answer(m, c) ==
    /\ Answers(m)
    /\ initializeRequests' = initializeRequests \ {request[m].id}
    /\ version' = IF NegotiatesVersion(m, c) THEN Ends ELSE version
    /\ Forget(request[m])
    /\ content' = [content EXCEPT ![m] = c]
    /\ \/ /\ ~ FilterThrows(m, c)
          /\ answer' = [answer EXCEPT ![m] = "filtered"]
          /\ tools' = [tools EXCEPT ![m] = ListedTools(m, c)]
          /\ UNCHANGED closeVars
       \/ /\ FilterThrows(m, c)
          /\ answer' = [answer EXCEPT ![m] = "done"]
          /\ Fail
          /\ UNCHANGED tools
    /\ UNCHANGED <<phase, pendingResponses, resolved, clientVars, reply, noticeVars, drain>>

(* The filter call returned: downstream.send.  *)
Deliver(m) ==
    /\ answer[m] = "filtered"
    /\ answer' = [answer EXCEPT ![m] = "delivering"]
    /\ reply' = reply \union {m}
    /\ UNCHANGED <<phase, closeVars, filterVars, trackVars, version, clientVars, content,
                   tools, noticeVars, drain>>

(* Mutations: the deferred is dropped unresolved, or resolved and kept. *)
DeliveredUnresolved(m) ==
    /\ answer[m] = "delivering"
    /\ answer' = [answer EXCEPT ![m] = "done"]
    /\ pendingResponses' = [pendingResponses EXCEPT ![request[m].id] = None]
    /\ UNCHANGED <<phase, closeVars, filterVars, initializeRequests, resolved, version,
                   clientVars, content, tools, reply, noticeVars, drain>>

DeliveredKept(m) ==
    /\ answer[m] = "delivering"
    /\ answer' = [answer EXCEPT ![m] = "done"]
    /\ resolved' = resolved \union ({pendingResponses[request[m].id]} \ {None})
    /\ UNCHANGED <<phase, closeVars, filterVars, pendingResponses, initializeRequests,
                   version, clientVars, content, tools, reply, noticeVars, drain>>

(* downstream.send resolved: settle the deferred now stored under the id.  *)
Delivered(m) ==
    /\ answer[m] = "delivering"
    /\ answer' = [answer EXCEPT ![m] = "done"]
    /\ LET id == request[m].id IN
        /\ pendingResponses' = [pendingResponses EXCEPT ![id] = None]
        /\ resolved' = resolved \union ({pendingResponses[id]} \ {None})
    /\ UNCHANGED <<phase, closeVars, filterVars, initializeRequests, version, clientVars,
                   content, tools, reply, noticeVars, drain>>

DeliveryFails(m) ==
    /\ answer[m] = "delivering"
    /\ answer' = [answer EXCEPT ![m] = "done"]
    /\ Fail
    /\ UNCHANGED <<phase, filterVars, trackVars, version, clientVars, content, tools,
                   reply, noticeVars, drain>>

-----------------------------------------------------------------------------
(* A request or notification of the server's own passes the filter as it   *)
(* is, whatever id it carries, and is related to the only tracked request. *)

ServerMessage(n) ==
    /\ ends["up"] # "closed"
    /\ notice[n] = "none"
    /\ notice' = [notice EXCEPT ![n] = "filtered"]
    /\ UNCHANGED <<phase, closeVars, filterVars, trackVars, version, clientVars,
                   answerVars, related, drain>>

SolePendingRequest ==
    LET pending == {k \in Ids : pendingResponses[k] # None}
    IN  IF \E k \in Ids : pending = {k}
        THEN pendingResponses[CHOOSE k \in pending : TRUE] ELSE None

Relay(n) ==
    /\ notice[n] = "filtered"
    /\ notice' = [notice EXCEPT ![n] = "relaying"]
    /\ related' = [related EXCEPT ![n] = SolePendingRequest]
    /\ UNCHANGED <<phase, closeVars, filterVars, trackVars, version, clientVars,
                   answerVars, drain>>

Relayed(n) ==
    /\ notice[n] = "relaying"
    /\ notice' = [notice EXCEPT ![n] = "done"]
    /\ UNCHANGED <<phase, closeVars, filterVars, trackVars, version, clientVars,
                   answerVars, related, drain>>

RelayFails(n) ==
    /\ notice[n] = "relaying"
    /\ notice' = [notice EXCEPT ![n] = "done"]
    /\ Fail
    /\ UNCHANGED <<phase, filterVars, trackVars, version, clientVars, answerVars,
                   related, drain>>

-----------------------------------------------------------------------------
(* drain().                                                                *)

ActiveJobs ==
    [end : {"down"}, of : {m \in Messages : job[m] \notin {"unsent", "done"}}]
    \union [end : {"up"}, of : {m \in Messages : answer[m] \notin {"none", "done"}}]
    \union [end : {"notice"}, of : {n \in Notices : notice[n] \notin {"none", "done"}}]

Tracked == {pendingResponses[k] : k \in Ids} \ {None}

Drain ==
    /\ phase = "started"
    /\ drain = Idle
    /\ drain' = [drain EXCEPT !.state = "check"]
    /\ UNCHANGED <<phase, closeVars, filterVars, trackVars, version, clientVars,
                   answerVars, noticeVars>>

(* Mutation: only running jobs are waited for. *)
DrainChecksJobs ==
    /\ drain.state = "check"
    /\ \/ /\ closing # "no" \/ ActiveJobs = {}
          /\ drain' = [Idle EXCEPT !.state = IF failure THEN "failed" ELSE "drained"]
       \/ /\ closing = "no"
          /\ ActiveJobs # {}
          /\ drain' = [state |-> "waiting", jobs |-> ActiveJobs, responses |-> {}]
    /\ UNCHANGED <<phase, closeVars, filterVars, trackVars, version, clientVars,
                   answerVars, noticeVars>>

(* The loop condition: stop, or wait for a snapshot of jobs and deferreds. *)
DrainChecks ==
    /\ drain.state = "check"
    /\ \/ /\ closing # "no" \/ (ActiveJobs = {} /\ Tracked = {})
          /\ drain' = [Idle EXCEPT !.state = IF failure THEN "failed" ELSE "drained"]
       \/ /\ closing = "no"
          /\ ActiveJobs # {} \/ Tracked # {}
          /\ drain' = [state |-> "waiting", jobs |-> ActiveJobs, responses |-> Tracked]
    /\ UNCHANGED <<phase, closeVars, filterVars, trackVars, version, clientVars,
                   answerVars, noticeVars>>

DrainWakes ==
    /\ drain.state = "waiting"
    /\ \/ closing = "done"
       \/ /\ drain.jobs \intersect ActiveJobs = {}
          /\ drain.responses \subseteq resolved
    /\ drain' = [Idle EXCEPT !.state = "check"]
    /\ UNCHANGED <<phase, closeVars, filterVars, trackVars, version, clientVars,
                   answerVars, noticeVars>>

-----------------------------------------------------------------------------
ClientJob(m) ==
    \/ Allow(m) \/ Deny(m) \/ AuthorizerThrows(m)
    \/ Forward(m) \/ Sent(m) \/ SendFails(m)
    \/ Respond(m) \/ Responded(m) \/ ResponseFails(m)

AnswerJob(m) == Deliver(m) \/ Delivered(m) \/ DeliveryFails(m)

NoticeJob(n) == Relay(n) \/ Relayed(n) \/ RelayFails(n)

(* A result, an error, or a tools/list result without a tools array; what  *)
(* a result says is of no consequence for the other methods.               *)
Replies(m) == CASE request[m].method = "tools/list" -> {"result", "invalid", "error"}
                [] request[m].method = "initialize" -> {"result", "error"}
                [] OTHER -> {"result"}

ServerAnswers(m) ==
    m \in forwarded /\ \E c \in Replies(m) : VersionRefused(m, c) \/ Answer(m, c)

Closing == BothClosed \/ \E e \in Ends : EndCloses(e)

Starting == StartUpstream \/ StartDownstream \/ StartFails

Draining == DrainChecks \/ DrainWakes

Running ==
    \/ Starting
    \/ Closing
    \/ Draining
    \/ TransportError
    \/ \E e \in Ends : PeerCloses(e)
    \/ \E m \in Messages : ClientJob(m) \/ ServerAnswers(m) \/ AnswerJob(m)
    \/ \E n \in Notices : ServerMessage(n) \/ NoticeJob(n)

(* The client sends, and whoever owns the bridge closes or drains it, at   *)
(* any time.                                                               *)
Next ==
    \/ Running
    \/ Close
    \/ Drain
    \/ \E m \in Messages, r \in Requests : ClientMessage(m, r)

Spec == Init /\ [][Next]_bridgeVars

-----------------------------------------------------------------------------
(* Properties.                                                             *)

(* How far a message got tells what was done for it: only what the filter  *)
(* let through was forwarded, and only forwarded requests are answered.    *)
Provenance ==
    \A m \in Messages :
        /\ job[m] = "unsent" <=> request[m] = None
        /\ job[m] = "authorizing" => request[m].call \in Calls
        /\ job[m] = "forward" \/ m \in forwarded =>
              \/ request[m].call = None
              \/ request[m].call \in Authorized /\ m \in audited
        /\ m \in forwarded => job[m] \in {"sending", "done"}
        /\ answer[m] # "none" => m \in forwarded /\ request[m].id # NoId
        /\ content[m] # "none" => answer[m] # "none"

(* The server executes a tools/call only if the authorizer allowed that    *)
(* call, whatever was interleaved with the decision, and only after the    *)
(* decision was emitted for the audit log.                                 *)
OnlyAuthorizedCallsReachServer ==
    \A m \in forwarded :
        request[m].method = "tools/call" => request[m].call \in Authorized /\ m \in audited

(* A client is only ever shown discoverable tools: the filter recognises a *)
(* tools/list response by its id alone, so the method stored under the id  *)
(* must still be the one the request had.                                  *)
ListsAreFiltered ==
    \A m \in reply : tools[m] \subseteq Discoverable

(* A request the filter still has to answer for: it is being decided or on *)
(* its way, or the server has it and has not answered.                     *)
Outstanding(m) ==
    /\ request[m] # None
    /\ request[m].id # NoId
    /\ \/ job[m] \in {"authorizing", "forward"}
       \/ m \in forwarded /\ content[m] = "none"

(* Two outstanding requests never share an id, so the server never sees an *)
(* id it has yet to answer a second time.                                  *)
OutstandingIdsAreDistinct ==
    \A m, n \in Messages :
        Outstanding(m) /\ Outstanding(n) /\ request[m].id = request[n].id => m = n

(* The filter knows the method of every outstanding request. *)
OutstandingAreRemembered ==
    \A m \in Messages :
        Outstanding(m) => pendingRequests[request[m].id] = request[m].method

(* The client sees the result of an initialize only after both transports  *)
(* speak the version it names.                                             *)
VersionBeforeInitialized ==
    \A m \in reply :
        request[m].method = "initialize" /\ content[m] = "result" => version = Ends

-----------------------------------------------------------------------------
(* The bridge implements what the proxy promises of each message.          *)

Stage(m) ==
    IF job[m] = "unsent" THEN "unsent"
    ELSE IF verdict[m] # "none" THEN "refused"
    ELSE IF content[m] # "none" THEN "answered"
    ELSE IF m \in forwarded THEN "served"
    ELSE IF job[m] = "done" THEN "dropped"
    ELSE "accepted"

Promise == INSTANCE Restrictor
           WITH stage <- [m \in Messages |-> Stage(m)], shown <- tools

ImplementsRestrictor == Promise!Spec
=============================================================================
