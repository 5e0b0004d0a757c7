---------------------------- MODULE BridgeProofs ----------------------------
(***************************************************************************)
(* The bridge, alone and inside the stdio proxy, for any number of         *)
(* messages, ids, tools and calls.                                         *)
(*                                                                         *)
(* The filter recognises a response by its id alone.  That is sound because *)
(* an outstanding request's method stays in pendingRequests under its id    *)
(* and no other outstanding request has that id; each of the two facts is   *)
(* needed to keep the other (Tracking).  Together with the converse, that  *)
(* only outstanding requests keep an id taken (TakenIdsAreOwned), and with *)
(* what became of each message (Fates), they make every step of the bridge *)
(* one that Restrictor allows.  The proxy loses no response at the end of  *)
(* its input because a request that was passed on holds its deferred until *)
(* it is answered (Held).                                                  *)
(*                                                                         *)
(* At the end, the policy behind authorize() and discover().               *)
(***************************************************************************)
EXTENDS StdioProxy, PolicySession, TLAPS

USE DEF filterVars, closeVars, clientVars, answerVars, noticeVars, trackVars

-----------------------------------------------------------------------------
(* Types, and what a message's progress says about it.                     *)

Base == TypeOK /\ Provenance

(* What the client sent is one of its requests. *)
LEMMA RequestType ==
    ASSUME Base, NEW m \in Messages, request[m] # None
    PROVE  /\ request[m] \in Requests
           /\ request[m].id \in Ids \union {NoId}
           /\ request[m].method \in Method
           /\ request[m].method = "tools/call" <=> request[m].call # None
  BY BridgeAssumption DEF Base, TypeOK, Request

LEMMA BaseInit == Init => Base
<1> SUFFICES ASSUME Init PROVE Base
  OBVIOUS
<1>1. failure \in BOOLEAN
  BY Zenon DEF Init
<1>2. drain \in [state : {"idle", "check", "waiting", "drained", "failed"},
                 jobs : SUBSET Job, responses : SUBSET Messages]
  BY DEF Init, Idle
<1>3. TypeOK
  BY <1>1, <1>2 DEF Init, TypeOK
<1>4. Provenance
  BY DEF Init, Provenance
<1> QED
  BY <1>3, <1>4 DEF Base

(* What Fail leaves alone, and the types of what it changes. *)
LEMMA FailTypes ==
    ASSUME Base, Fail
    PROVE  /\ ends' \in [Ends -> {"open", "closing", "closed"}]
           /\ closing' \in {"no", "yes", "done"}
           /\ failure' \in BOOLEAN
  BY DEF Fail, Closed, Base, TypeOK

LEMMA BaseClosing ==
    ASSUME Base, Starting \/ Closing \/ TransportError \/ Close \/ \E e \in Ends : PeerCloses(e)
    PROVE  Base'
<1>1. UNCHANGED <<filterVars, trackVars, version, clientVars, answerVars, noticeVars, drain>>
  BY DEF Starting, StartUpstream, StartDownstream, StartFails, Closing, BothClosed, EndCloses,
         TransportError, Close, PeerCloses
<1>2. /\ phase' \in {"upstream", "downstream", "started", "failed"}
      /\ ends' \in [Ends -> {"open", "closing", "closed"}]
      /\ closing' \in {"no", "yes", "done"}
      /\ failure' \in BOOLEAN
  <2>1. CASE TransportError
    BY <2>1, FailTypes DEF TransportError, Base, TypeOK
  <2>2. CASE ~ TransportError
    <3>1. failure' = failure
      BY <2>2 DEF Starting, StartUpstream, StartDownstream, StartFails, Closing, BothClosed,
             EndCloses, Close, PeerCloses
    <3> QED
      BY <2>2, <3>1 DEF Starting, StartUpstream, StartDownstream, StartFails, Closing, BothClosed,
             EndCloses, Close, PeerCloses, Closed, Base, TypeOK
  <2> QED
    BY <2>1, <2>2
<1> QED
  BY <1>1, <1>2 DEF Base, TypeOK, Provenance

LEMMA BaseClientMessage ==
    ASSUME Base, NEW m \in Messages, NEW r \in Requests, ClientMessage(m, r)
    PROVE  Base'
<1> USE BridgeAssumption DEF Receives, Refuse, Remember, Forget, Request, Base
<1>1. CASE RejectDuplicate(m, r)
  <2>1. TypeOK'
    BY <1>1 DEF RejectDuplicate, TypeOK
  <2>2. Provenance'
    BY <1>1 DEF RejectDuplicate, TypeOK, Provenance
  <2> QED
    BY <2>1, <2>2
<1>2. CASE RejectMalformed(m, r)
  <2>1. TypeOK'
    BY <1>2 DEF RejectMalformed, TypeOK
  <2>2. Provenance'
    BY <1>2 DEF RejectMalformed, TypeOK, Provenance
  <2> QED
    BY <2>1, <2>2
<1>3. CASE AskAuthorizer(m, r)
  <2>1. TypeOK'
    BY <1>3 DEF AskAuthorizer, TypeOK
  <2>2. Provenance'
    BY <1>3 DEF AskAuthorizer, TypeOK, Provenance
  <2> QED
    BY <2>1, <2>2
<1>4. CASE PassThrough(m, r)
  <2>1. TypeOK'
    BY <1>4 DEF PassThrough, TypeOK
  <2>2. Provenance'
    BY <1>4 DEF PassThrough, TypeOK, Provenance
  <2> QED
    BY <2>1, <2>2
<1> QED
  BY <1>1, <1>2, <1>3, <1>4 DEF ClientMessage

LEMMA BaseClientJob ==
    ASSUME Base, NEW m \in Messages, ClientJob(m)
    PROVE  Base'
<1> USE BridgeAssumption DEF Refuse, Forget, Base
<1>1. CASE Allow(m)
  <2>1. TypeOK'
    BY <1>1 DEF Allow, TypeOK
  <2>2. Provenance'
    BY <1>1 DEF Allow, TypeOK, Provenance
  <2> QED
    BY <2>1, <2>2
<1>2. CASE Deny(m)
  <2>1. TypeOK'
    BY <1>2 DEF Deny, TypeOK
  <2>2. Provenance'
    BY <1>2 DEF Deny, TypeOK, Provenance
  <2> QED
    BY <2>1, <2>2
<1>3. CASE AuthorizerThrows(m)
  <2>1. TypeOK'
    BY <1>3, FailTypes DEF AuthorizerThrows, TypeOK
  <2>2. Provenance'
    BY <1>3 DEF AuthorizerThrows, TypeOK, Provenance
  <2> QED
    BY <2>1, <2>2
<1>4. CASE Forward(m)
  <2>0. request[m].id \in Ids \union {NoId}
    BY <1>4, RequestType DEF Forward, Provenance, TypeOK
  <2>1. TypeOK'
    <3>1. CASE request[m].id = NoId
      BY <1>4, <3>1 DEF Forward, TypeOK
    <3>2. CASE request[m].id \in Ids
      <4>1. /\ pendingResponses' \in [Ids -> Messages \union {None}]
            /\ initializeRequests' \subseteq Ids
            /\ resolved' = resolved
        BY <1>4, <3>2 DEF Forward, TypeOK
      <4> QED
        BY <1>4, <4>1 DEF Forward, TypeOK
    <3> QED
      BY <2>0, <3>1, <3>2
  <2>2. Provenance'
    BY <1>4 DEF Forward, TypeOK, Provenance
  <2> QED
    BY <2>1, <2>2
<1>5. CASE Sent(m)
  <2>1. TypeOK'
    BY <1>5 DEF Sent, TypeOK
  <2>2. Provenance'
    BY <1>5 DEF Sent, TypeOK, Provenance
  <2> QED
    BY <2>1, <2>2
<1>6. CASE SendFails(m)
  <2>1. TypeOK'
    BY <1>6, FailTypes DEF SendFails, TypeOK
  <2>2. Provenance'
    BY <1>6 DEF SendFails, TypeOK, Provenance
  <2> QED
    BY <2>1, <2>2
<1>7. CASE Respond(m)
  <2>1. TypeOK'
    BY <1>7 DEF Respond, TypeOK
  <2>2. Provenance'
    BY <1>7 DEF Respond, TypeOK, Provenance
  <2> QED
    BY <2>1, <2>2
<1>8. CASE Responded(m)
  <2>1. TypeOK'
    BY <1>8 DEF Responded, TypeOK
  <2>2. Provenance'
    BY <1>8 DEF Responded, TypeOK, Provenance
  <2> QED
    BY <2>1, <2>2
<1>9. CASE ResponseFails(m)
  <2>1. TypeOK'
    BY <1>9, FailTypes DEF ResponseFails, TypeOK
  <2>2. Provenance'
    BY <1>9 DEF ResponseFails, TypeOK, Provenance
  <2> QED
    BY <2>1, <2>2
<1> QED
  BY <1>1, <1>2, <1>3, <1>4, <1>5, <1>6, <1>7, <1>8, <1>9 DEF ClientJob

LEMMA BaseServerAnswers ==
    ASSUME Base, NEW m \in Messages, ServerAnswers(m)
    PROVE  Base'
<1> USE BridgeAssumption DEF Answers, Forget, Base
<1>1. PICK c \in Replies(m) : VersionRefused(m, c) \/ Answer(m, c)
  BY DEF ServerAnswers
<1>2. c \in {"result", "invalid", "error"}
  BY DEF Replies
<1>3. CASE VersionRefused(m, c)
  <2>1. TypeOK'
    BY <1>3, FailTypes DEF VersionRefused, Ends, TypeOK
  <2>2. Provenance'
    BY <1>3 DEF VersionRefused, TypeOK, Provenance
  <2> QED
    BY <2>1, <2>2
<1>4. CASE Answer(m, c)
  <2>1. ListedTools(m, c) \subseteq Tools
    BY DEF ListedTools
  <2>2. TypeOK'
    <3>1. pendingRequests' \in [Ids -> Method \union {None}] /\ version' \subseteq Ends
      BY <1>4 DEF Answer, TypeOK
    <3>2. CASE FilterThrows(m, c)
      BY <1>2, <1>4, <3>1, <3>2, FailTypes DEF Answer, TypeOK
    <3>3. CASE ~ FilterThrows(m, c)
      BY <1>2, <1>4, <2>1, <3>1, <3>3 DEF Answer, TypeOK
    <3> QED
      BY <3>2, <3>3
  <2>3. Provenance'
    BY <1>2, <1>4 DEF Answer, TypeOK, Provenance
  <2> QED
    BY <2>2, <2>3
<1> QED
  BY <1>1, <1>3, <1>4

LEMMA BaseAnswerJob ==
    ASSUME Base, NEW m \in Messages, AnswerJob(m)
    PROVE  Base'
<1> USE DEF Base
<1>1. CASE Deliver(m)
  <2>1. TypeOK'
    BY <1>1 DEF Deliver, TypeOK
  <2>2. Provenance'
    BY <1>1 DEF Deliver, TypeOK, Provenance
  <2> QED
    BY <2>1, <2>2
<1>2. CASE Delivered(m)
  <2>0. request[m].id \in Ids
    BY <1>2, RequestType DEF Delivered, Provenance
  <2>1. TypeOK'
    BY <1>2, <2>0 DEF Delivered, TypeOK
  <2>2. Provenance'
    BY <1>2 DEF Delivered, TypeOK, Provenance
  <2> QED
    BY <2>1, <2>2
<1>3. CASE DeliveryFails(m)
  <2>1. TypeOK'
    BY <1>3, FailTypes DEF DeliveryFails, TypeOK
  <2>2. Provenance'
    BY <1>3 DEF DeliveryFails, TypeOK, Provenance
  <2> QED
    BY <2>1, <2>2
<1> QED
  BY <1>1, <1>2, <1>3 DEF AnswerJob

LEMMA BaseNotice ==
    ASSUME Base, NEW n \in Notices, ServerMessage(n) \/ NoticeJob(n)
    PROVE  Base'
<1> USE DEF Base
<1>1. CASE ServerMessage(n)
  <2>1. TypeOK'
    BY <1>1 DEF ServerMessage, TypeOK
  <2>2. Provenance'
    BY <1>1 DEF ServerMessage, TypeOK, Provenance
  <2> QED
    BY <2>1, <2>2
<1>2. CASE Relay(n)
  <2>0. SolePendingRequest \in Messages \union {None}
    BY DEF SolePendingRequest, TypeOK
  <2>1. TypeOK'
    BY <1>2, <2>0 DEF Relay, TypeOK
  <2>2. Provenance'
    BY <1>2 DEF Relay, TypeOK, Provenance
  <2> QED
    BY <2>1, <2>2
<1>3. CASE Relayed(n)
  <2>1. TypeOK'
    BY <1>3 DEF Relayed, TypeOK
  <2>2. Provenance'
    BY <1>3 DEF Relayed, TypeOK, Provenance
  <2> QED
    BY <2>1, <2>2
<1>4. CASE RelayFails(n)
  <2>1. TypeOK'
    BY <1>4, FailTypes DEF RelayFails, TypeOK
  <2>2. Provenance'
    BY <1>4 DEF RelayFails, TypeOK, Provenance
  <2> QED
    BY <2>1, <2>2
<1> QED
  BY <1>1, <1>2, <1>3, <1>4 DEF NoticeJob

LEMMA BaseDrain ==
    ASSUME Base, Drain \/ Draining
    PROVE  Base'
<1>1. drain' \in [state : {"idle", "check", "waiting", "drained", "failed"},
                  jobs : SUBSET Job, responses : SUBSET Messages]
  <2>1. ActiveJobs \subseteq Job
    BY DEF ActiveJobs, Job, Ends
  <2>2. Tracked \subseteq Messages
    BY DEF Tracked, Base, TypeOK
  <2>3. CASE Drain
    BY <2>3 DEF Drain, Idle
  <2>4. CASE DrainChecks
    BY <2>1, <2>2, <2>4 DEF DrainChecks, Idle
  <2>5. CASE DrainWakes
    BY <2>5 DEF DrainWakes, Idle
  <2> QED
    BY <2>3, <2>4, <2>5 DEF Draining
<1>2. UNCHANGED <<phase, closeVars, filterVars, trackVars, version, clientVars,
                  answerVars, noticeVars>>
  BY DEF Drain, Draining, DrainChecks, DrainWakes
<1> QED
  BY <1>1, <1>2 DEF Base, TypeOK, Provenance

(* Every step is one of these. *)
LEMMA StepCases ==
    ASSUME Next
    PROVE  \/ Starting \/ Closing \/ TransportError \/ Close \/ \E e \in Ends : PeerCloses(e)
           \/ \E m \in Messages, r \in Requests : ClientMessage(m, r)
           \/ \E m \in Messages : ClientJob(m)
           \/ \E m \in Messages : ServerAnswers(m)
           \/ \E m \in Messages : AnswerJob(m)
           \/ \E n \in Notices : ServerMessage(n) \/ NoticeJob(n)
           \/ Drain \/ Draining
  BY DEF Next, Running

LEMMA BaseStep == Base /\ [Next]_bridgeVars => Base'
<1> SUFFICES ASSUME Base, [Next]_bridgeVars PROVE Base'
  OBVIOUS
<1>1. CASE Next
  BY <1>1, StepCases, BaseClosing, BaseClientMessage, BaseClientJob, BaseServerAnswers,
     BaseAnswerJob, BaseNotice, BaseDrain
<1>2. CASE UNCHANGED bridgeVars
  BY <1>2 DEF Base, TypeOK, Provenance, bridgeVars
<1> QED
  BY <1>1, <1>2

(* Every variable of the bridge stays within its type. *)
THEOREM Typing == Spec => []TypeOK
<1>1. Base => TypeOK
  BY DEF Base
<1> QED
  BY <1>1, BaseInit, BaseStep, PTL DEF Spec

(* The server is only given calls that were authorized and audited. *)
THEOREM AuthorizedCalls == Spec => []OnlyAuthorizedCallsReachServer
<1>1. Base => OnlyAuthorizedCallsReachServer
  <2> SUFFICES ASSUME Base, NEW m \in forwarded, request[m].method = "tools/call"
               PROVE  request[m].call \in Authorized /\ m \in audited
    BY DEF OnlyAuthorizedCallsReachServer
  <2>1. m \in Messages /\ request[m] # None
    BY DEF Base, TypeOK, Provenance
  <2>2. request[m].call # None
    BY <2>1, RequestType
  <2> QED
    BY <2>1, <2>2 DEF Base, Provenance
<1> QED
  BY <1>1, BaseInit, BaseStep, PTL DEF Spec

-----------------------------------------------------------------------------
(* The filter's book-keeping.                                              *)

FilteredTools == \A m \in Messages : tools[m] \subseteq Discoverable

Tracking ==
    /\ OutstandingIdsAreDistinct
    /\ OutstandingAreRemembered
    /\ FilteredTools

USE DEF Tracking, OutstandingIdsAreDistinct, OutstandingAreRemembered, FilteredTools

LEMMA TrackingInit == Init => Tracking
  BY DEF Init, Outstanding

(* A step keeps Tracking if it makes no request outstanding and forgets no *)
(* id that is still used.                                                  *)
LEMMA TrackingKept ==
    ASSUME Tracking,
           UNCHANGED <<request, tools>>,
           \A n \in Messages : Outstanding(n)' => Outstanding(n),
           \A n \in Messages :
              Outstanding(n)' => pendingRequests'[request[n].id] = pendingRequests[request[n].id]
    PROVE  Tracking'
<1>1. \A n \in Messages : Outstanding(n)' => Outstanding(n) /\ request'[n] = request[n]
  OBVIOUS
<1>2. OutstandingIdsAreDistinct'
  BY <1>1
<1>3. OutstandingAreRemembered'
  BY <1>1
<1> QED
  BY <1>2, <1>3

(* Forgetting the id of a request that stops being outstanding is such a   *)
(* step: no other outstanding request has the id.                          *)
LEMMA TrackingForgets ==
    ASSUME Base, Tracking, NEW m \in Messages,
           Outstanding(m) \/ request[m].id = NoId,
           Forget(request[m]),
           UNCHANGED <<request, tools>>,
           ~ Outstanding(m)',
           \A n \in Messages \ {m} : Outstanding(n)' => Outstanding(n)
    PROVE  Tracking'
<1>1. ASSUME NEW n \in Messages, Outstanding(n)'
      PROVE  Outstanding(n) /\ pendingRequests'[request[n].id] = pendingRequests[request[n].id]
  <2>1. n # m /\ Outstanding(n)
    BY <1>1
  <2>2. CASE request[m].id = NoId
    BY <2>1, <2>2 DEF Forget
  <2>3. CASE Outstanding(m)
    <3>1. request[n].id # request[m].id
      BY <2>1, <2>3
    <3> QED
      BY <2>1, <3>1 DEF Forget, Base, TypeOK
  <2> QED
    BY <2>2, <2>3
<1> QED
  BY <1>1, TrackingKept

LEMMA TrackingClientMessage ==
    ASSUME Base, Tracking, NEW m \in Messages, NEW r \in Requests, ClientMessage(m, r)
    PROVE  Tracking'
<1> USE DEF Receives, Refuse, IsDuplicate
<1>1. /\ job[m] = "unsent" /\ request[m] = None /\ m \notin forwarded
      /\ request' = [request EXCEPT ![m] = r]
      /\ forwarded' = forwarded /\ content' = content /\ tools' = tools
  BY DEF ClientMessage, RejectDuplicate, RejectMalformed, AskAuthorizer, PassThrough,
         Base, Provenance
<1>2. \A n \in Messages \ {m} : request'[n] = request[n] /\ job'[n] = job[n]
  BY DEF ClientMessage, RejectDuplicate, RejectMalformed, AskAuthorizer, PassThrough,
         Base, TypeOK
<1>3. \A n \in Messages \ {m} : Outstanding(n)' <=> Outstanding(n)
  BY <1>1, <1>2 DEF Outstanding
<1>4. CASE RejectDuplicate(m, r) \/ RejectMalformed(m, r)
  <2>1. ~ Outstanding(m)'
    BY <1>1, <1>4 DEF Outstanding, RejectDuplicate, RejectMalformed, Base, TypeOK
  <2>2. \A n \in Messages : Outstanding(n) =>
            pendingRequests'[request[n].id] = pendingRequests[request[n].id]
    <3>1. CASE RejectDuplicate(m, r)
      BY <3>1 DEF RejectDuplicate
    <3>2. CASE RejectMalformed(m, r)
      <4>1. ASSUME NEW n \in Messages, Outstanding(n)
            PROVE  r.id = NoId \/ request[n].id # r.id
        <5>1. request[n].method # None
          BY <4>1, RequestType, BridgeAssumption DEF Outstanding
        <5> QED
          BY <3>2, <4>1, <5>1 DEF RejectMalformed
      <4> QED
        BY <3>2, <4>1 DEF RejectMalformed, Forget, Base, TypeOK
    <3> QED
      BY <1>4, <3>1, <3>2
  <2>3. OutstandingIdsAreDistinct'
    BY <1>2, <1>3, <2>1
  <2>4. OutstandingAreRemembered'
    BY <1>2, <1>3, <2>1, <2>2
  <2> QED
    BY <1>1, <2>3, <2>4
<1>5. CASE AskAuthorizer(m, r) \/ PassThrough(m, r)
  <2>1. ~ IsDuplicate(r) /\ Remember(r)
    BY <1>5 DEF AskAuthorizer, PassThrough
  <2>2. r.id \in Ids \union {NoId}
    BY BridgeAssumption DEF Request
  <2>3. request'[m] = r
    BY <1>1 DEF Base, TypeOK
  <2>4. ASSUME NEW n \in Messages \ {m}, Outstanding(n)
        PROVE  /\ r.id = NoId \/ request[n].id # r.id
               /\ pendingRequests'[request[n].id] = request[n].method
    <3>1. request[n].method # None /\ request[n].id \in Ids
      BY <2>4, RequestType, BridgeAssumption DEF Outstanding
    <3>2. r.id = NoId \/ request[n].id # r.id
      BY <2>1, <2>4, <3>1
    <3> QED
      BY <2>1, <2>4, <3>1, <3>2 DEF Remember, Base, TypeOK
  <2>5. Outstanding(m)' => r.id # NoId /\ pendingRequests'[r.id] = r.method
    BY <2>1, <2>2, <2>3 DEF Outstanding, Remember, Base, TypeOK
  <2>6. OutstandingIdsAreDistinct'
    BY <1>2, <1>3, <2>3, <2>4, <2>5
  <2>7. OutstandingAreRemembered'
    BY <1>2, <1>3, <2>3, <2>4, <2>5
  <2> QED
    BY <1>1, <2>6, <2>7
<1> QED
  BY <1>4, <1>5 DEF ClientMessage

LEMMA TrackingClientJob ==
    ASSUME Base, Tracking, NEW m \in Messages, ClientJob(m)
    PROVE  Tracking'
<1>1. UNCHANGED <<request, content, tools>>
  BY DEF ClientJob, Allow, Deny, AuthorizerThrows, Forward, Sent, SendFails, Respond, Responded,
         ResponseFails
<1>2. \A n \in Messages \ {m} : job'[n] = job[n] /\ (n \in forwarded' <=> n \in forwarded)
  BY DEF ClientJob, Allow, Deny, AuthorizerThrows, Forward, Sent, SendFails, Respond, Responded,
         ResponseFails, Refuse, Base, TypeOK
<1>3. \A n \in Messages \ {m} : Outstanding(n)' => Outstanding(n)
  BY <1>1, <1>2 DEF Outstanding
<1>4. CASE Deny(m) \/ AuthorizerThrows(m)
  <2>1. /\ job[m] = "authorizing" /\ Forget(request[m]) /\ forwarded' = forwarded
        /\ job'[m] \in {"reply", "done"}
    BY <1>4 DEF Deny, AuthorizerThrows, Refuse, Base, TypeOK
  <2>2. m \notin forwarded /\ request[m] # None
    BY <2>1 DEF Base, Provenance
  <2>3. ~ Outstanding(m)'
    BY <2>1, <2>2 DEF Outstanding
  <2>4. Outstanding(m) \/ request[m].id = NoId
    BY <2>1, <2>2 DEF Outstanding
  <2> QED
    BY <1>1, <1>3, <2>1, <2>3, <2>4, TrackingForgets
<1>5. CASE ~ (Deny(m) \/ AuthorizerThrows(m))
  <2>1. pendingRequests' = pendingRequests
    BY <1>5 DEF ClientJob, Allow, Forward, Sent, SendFails, Respond, Responded, ResponseFails
  <2>2. Outstanding(m)' => Outstanding(m)
    BY <1>1, <1>5 DEF ClientJob, Allow, Forward, Sent, SendFails, Respond, Responded,
       ResponseFails, Outstanding, Base, TypeOK, Provenance
  <2> QED
    BY <1>1, <1>3, <2>1, <2>2, TrackingKept
<1> QED
  BY <1>4, <1>5

LEMMA TrackingServerAnswers ==
    ASSUME Base, Tracking, NEW m \in Messages, ServerAnswers(m)
    PROVE  Tracking'
<1>1. PICK c \in Replies(m) : VersionRefused(m, c) \/ Answer(m, c)
  BY DEF ServerAnswers
<1>2. c # "none"
  BY DEF Replies
<1>3. Answers(m)
  BY <1>1 DEF VersionRefused, Answer
<1>4. /\ content[m] = "none" /\ request[m] # None
      /\ job[m] \in {"sending", "done"}
  BY <1>3 DEF Answers, Base, Provenance
<1>5. Outstanding(m)
  BY <1>3, <1>4 DEF Answers, Outstanding
<1>6. CASE VersionRefused(m, c)
  BY <1>6, TrackingKept DEF VersionRefused, Outstanding
<1>7. CASE Answer(m, c)
  <2>1. UNCHANGED <<request, job, forwarded>> /\ Forget(request[m])
    BY <1>7 DEF Answer
  <2>2. content' = [content EXCEPT ![m] = c]
    BY <1>7 DEF Answer
  <2>3. ~ Outstanding(m)'
    BY <1>2, <1>4, <2>1, <2>2 DEF Outstanding, Base, TypeOK
  <2>4. \A n \in Messages \ {m} : Outstanding(n)' => Outstanding(n)
    BY <2>1, <2>2 DEF Outstanding, Base, TypeOK
  <2>5. ListedTools(m, c) \subseteq Discoverable
    BY <1>5 DEF ListedTools
  <2>6. FilteredTools'
    BY <1>7, <2>5 DEF Answer, Base, TypeOK
  <2>7. OutstandingIdsAreDistinct'
    BY <2>1, <2>3, <2>4
  <2>8. OutstandingAreRemembered'
    <3>1. ASSUME NEW n \in Messages, Outstanding(n)'
          PROVE  pendingRequests'[request[n].id] = request[n].method
      <4>1. n # m /\ Outstanding(n)
        BY <2>3, <2>4, <3>1
      <4>2. request[n].id # request[m].id
        BY <1>5, <4>1
      <4> QED
        BY <2>1, <4>1, <4>2 DEF Forget, Base, TypeOK
    <3> QED
      BY <2>1, <3>1
  <2> QED
    BY <2>6, <2>7, <2>8
<1> QED
  BY <1>1, <1>6, <1>7

LEMMA TrackingStep == Base /\ Tracking /\ [Next]_bridgeVars => Tracking'
<1> SUFFICES ASSUME Base, Tracking, [Next]_bridgeVars PROVE Tracking'
  OBVIOUS
<1>1. ASSUME UNCHANGED <<pendingRequests, request, job, forwarded, content, tools>>
      PROVE  Tracking'
  BY <1>1, TrackingKept DEF Outstanding
<1>2. CASE Next
  <2>1. CASE \E m \in Messages, r \in Requests : ClientMessage(m, r)
    BY <2>1, TrackingClientMessage
  <2>2. CASE \E m \in Messages : ClientJob(m)
    BY <2>2, TrackingClientJob
  <2>3. CASE \E m \in Messages : ServerAnswers(m)
    BY <2>3, TrackingServerAnswers
  <2>4. CASE Starting \/ Closing \/ TransportError \/ Close \/ \E e \in Ends : PeerCloses(e)
    BY <1>1, <2>4 DEF Starting, StartUpstream, StartDownstream, StartFails, Closing, BothClosed,
       EndCloses, TransportError, Close, PeerCloses
  <2>5. CASE \E m \in Messages : AnswerJob(m)
    BY <1>1, <2>5 DEF AnswerJob, Deliver, Delivered, DeliveryFails
  <2>6. CASE \E n \in Notices : ServerMessage(n) \/ NoticeJob(n)
    BY <1>1, <2>6 DEF ServerMessage, NoticeJob, Relay, Relayed, RelayFails
  <2>7. CASE Drain \/ Draining
    BY <1>1, <2>7 DEF Drain, Draining, DrainChecks, DrainWakes
  <2> QED
    BY <1>2, <2>1, <2>2, <2>3, <2>4, <2>5, <2>6, <2>7, StepCases
<1>3. CASE UNCHANGED bridgeVars
  BY <1>1, <1>3 DEF bridgeVars
<1> QED
  BY <1>2, <1>3

(* No two outstanding requests share an id, whatever the client sends. *)
THEOREM DistinctIds == Spec => []OutstandingIdsAreDistinct
<1>1. Tracking => OutstandingIdsAreDistinct
  OBVIOUS
<1> QED
  BY <1>1, BaseInit, BaseStep, TrackingInit, TrackingStep, PTL DEF Spec

(* The method of an outstanding request stays known under its id. *)
THEOREM Remembered == Spec => []OutstandingAreRemembered
<1>1. Tracking => OutstandingAreRemembered
  OBVIOUS
<1> QED
  BY <1>1, BaseInit, BaseStep, TrackingInit, TrackingStep, PTL DEF Spec

(* So no tools/list response reaches the client unfiltered. *)
THEOREM FilteredLists == Spec => []ListsAreFiltered
<1>1. Base /\ Tracking => ListsAreFiltered
  BY DEF ListsAreFiltered, Base, TypeOK
<1> QED
  BY <1>1, BaseInit, BaseStep, TrackingInit, TrackingStep, PTL DEF Spec

-----------------------------------------------------------------------------
(* What the refinement needs beyond that.                                  *)

(* A message is forwarded or refused, never both, and a tools/call that    *)
(* cannot be read is refused.                                              *)
Fates ==
    \A m \in Messages :
        /\ job[m] = "unsent" => verdict[m] = "none"
        /\ job[m] \in {"reply", "replying"} => verdict[m] # "none"
        /\ verdict[m] # "none" => job[m] \in {"reply", "replying", "done"} /\ m \notin forwarded
        /\ job[m] = "sending" => m \in forwarded
        /\ content[m] = "none" => tools[m] = {}

(* Only an outstanding request keeps an id taken. *)
TakenIdsAreOwned ==
    \A k \in Ids :
        pendingRequests[k] # None => \E m \in Messages : Outstanding(m) /\ request[m].id = k

(* The id of an initialize request the server has not answered is known.   *)
Negotiates ==
    \A m \in Messages :
        request[m] # None /\ request[m].method = "initialize" /\ request[m].id # NoId =>
            /\ m \in forwarded /\ answer[m] = "none" => request[m].id \in initializeRequests
            /\ content[m] = "result" => version = Ends

(* The steps of transports, notices and drain() leave the messages alone.  *)
LEMMA ElsewhereUnchanged ==
    ASSUME \/ Starting \/ Closing \/ TransportError \/ Close \/ \E e \in Ends : PeerCloses(e)
           \/ \E n \in Notices : ServerMessage(n) \/ NoticeJob(n)
           \/ Drain \/ Draining
           \/ UNCHANGED bridgeVars
    PROVE  UNCHANGED <<filterVars, trackVars, version, clientVars, answerVars>>
  BY DEF Starting, StartUpstream, StartDownstream, StartFails, Closing, BothClosed, EndCloses,
     TransportError, Close, PeerCloses, ServerMessage, NoticeJob, Relay, Relayed, RelayFails,
     Drain, Draining, DrainChecks, DrainWakes, bridgeVars

(* Every step is one of those, or of one message. *)
LEMMA MessageSteps ==
    ASSUME [Next]_bridgeVars
    PROVE  \/ UNCHANGED <<filterVars, trackVars, version, clientVars, answerVars>>
           \/ \E m \in Messages, r \in Requests : ClientMessage(m, r)
           \/ \E m \in Messages : ClientJob(m) \/ ServerAnswers(m) \/ AnswerJob(m)
  BY StepCases, ElsewhereUnchanged

LEMMA FatesInit == Init => Fates
  BY DEF Init, Fates

LEMMA FatesStep == Base /\ Fates /\ [Next]_bridgeVars => Fates'
<1> SUFFICES ASSUME Base, Fates, [Next]_bridgeVars PROVE Fates'
  OBVIOUS
<1> USE DEF Base, TypeOK, Provenance, Fates
<1>1. CASE UNCHANGED <<filterVars, trackVars, version, clientVars, answerVars>>
  BY <1>1
<1>2. ASSUME NEW m \in Messages, NEW r \in Requests, ClientMessage(m, r)
      PROVE  Fates'
  BY <1>2 DEF ClientMessage, RejectDuplicate, RejectMalformed, AskAuthorizer, PassThrough,
     Receives, Refuse
<1>3. ASSUME NEW m \in Messages, ClientJob(m)
      PROVE  Fates'
  <2>1. CASE Allow(m) \/ Deny(m) \/ AuthorizerThrows(m)
    BY <2>1 DEF Allow, Deny, AuthorizerThrows, Refuse
  <2>2. CASE Forward(m)
    BY <2>2 DEF Forward
  <2>3. CASE Sent(m) \/ SendFails(m) \/ Respond(m) \/ Responded(m) \/ ResponseFails(m)
    BY <2>3 DEF Sent, SendFails, Respond, Responded, ResponseFails
  <2> QED
    BY <1>3, <2>1, <2>2, <2>3 DEF ClientJob
<1>4. ASSUME NEW m \in Messages, ServerAnswers(m)
      PROVE  Fates'
  <2>1. PICK c \in Replies(m) : VersionRefused(m, c) \/ Answer(m, c)
    BY <1>4 DEF ServerAnswers
  <2>2. c # "none"
    BY DEF Replies
  <2> QED
    BY <2>1, <2>2 DEF VersionRefused, Answer
<1>5. ASSUME NEW m \in Messages, AnswerJob(m)
      PROVE  Fates'
  BY <1>5 DEF AnswerJob, Deliver, Delivered, DeliveryFails
<1> QED
  BY <1>1, <1>2, <1>3, <1>4, <1>5, MessageSteps

LEMMA OwnedInit == Init => TakenIdsAreOwned
  BY DEF Init, TakenIdsAreOwned

(* A step keeps it if what stops being outstanding gives its id back. *)
LEMMA OwnedKept ==
    ASSUME TakenIdsAreOwned,
           \A k \in Ids : pendingRequests'[k] # None => pendingRequests[k] # None,
           \A n \in Messages :
              Outstanding(n) /\ pendingRequests'[request[n].id] # None =>
                  Outstanding(n)' /\ request'[n].id = request[n].id
    PROVE  TakenIdsAreOwned'
  BY DEF TakenIdsAreOwned

LEMMA OwnedStep ==
    Base /\ Tracking /\ TakenIdsAreOwned /\ [Next]_bridgeVars => TakenIdsAreOwned'
<1> SUFFICES ASSUME Base, Tracking, TakenIdsAreOwned, [Next]_bridgeVars
             PROVE  TakenIdsAreOwned'
  OBVIOUS
<1>1. CASE UNCHANGED <<filterVars, trackVars, version, clientVars, answerVars>>
  BY <1>1, OwnedKept DEF Outstanding
<1>2. ASSUME NEW m \in Messages, NEW r \in Requests, ClientMessage(m, r)
      PROVE  TakenIdsAreOwned'
  <2>1. /\ job[m] = "unsent" /\ request[m] = None
        /\ request' = [request EXCEPT ![m] = r]
        /\ forwarded' = forwarded /\ content' = content
    BY <1>2 DEF ClientMessage, RejectDuplicate, RejectMalformed, AskAuthorizer, PassThrough,
       Receives, Base, Provenance
  <2>2. \A n \in Messages \ {m} : request'[n] = request[n] /\ job'[n] = job[n]
    BY <1>2 DEF ClientMessage, RejectDuplicate, RejectMalformed, AskAuthorizer, PassThrough,
       Receives, Refuse, Base, TypeOK
  <2>3. ASSUME NEW n \in Messages, Outstanding(n)
        PROVE  Outstanding(n)' /\ request'[n].id = request[n].id
    BY <2>1, <2>2, <2>3 DEF Outstanding
  <2>4. CASE RejectDuplicate(m, r)
    BY <2>3, <2>4, OwnedKept DEF RejectDuplicate
  <2>5. CASE RejectMalformed(m, r)
    BY <2>3, <2>5, OwnedKept DEF RejectMalformed, Forget, Base, TypeOK
  <2>6. CASE AskAuthorizer(m, r) \/ PassThrough(m, r)
    <3>1. Remember(r) /\ job'[m] \in {"authorizing", "forward"} /\ request'[m] = r
      BY <2>1, <2>6 DEF AskAuthorizer, PassThrough, Base, TypeOK
    <3>2. r \in Request
      BY BridgeAssumption
    <3>3. r # None /\ r.id \in Ids \union {NoId}
      BY <3>2, BridgeAssumption DEF Request
    <3>4. r.id # NoId => Outstanding(m)'
      BY <3>1, <3>3 DEF Outstanding
    <3> QED
      BY <2>3, <3>1, <3>3, <3>4 DEF TakenIdsAreOwned, Remember, Base, TypeOK
  <2> QED
    BY <1>2, <2>4, <2>5, <2>6 DEF ClientMessage
<1>3. ASSUME NEW m \in Messages, ClientJob(m)
      PROVE  TakenIdsAreOwned'
  <2>1. request' = request /\ content' = content
    BY <1>3 DEF ClientJob, Allow, Deny, AuthorizerThrows, Forward, Sent, SendFails, Respond,
       Responded, ResponseFails
  <2>2. \A n \in Messages \ {m} : job'[n] = job[n] /\ (n \in forwarded' <=> n \in forwarded)
    BY <1>3 DEF ClientJob, Allow, Deny, AuthorizerThrows, Forward, Sent, SendFails, Respond,
       Responded, ResponseFails, Refuse, Base, TypeOK
  <2>3. \A n \in Messages \ {m} : Outstanding(n) => Outstanding(n)'
    BY <2>1, <2>2 DEF Outstanding
  <2>4. CASE Deny(m) \/ AuthorizerThrows(m)
    <3>1. Forget(request[m])
      BY <2>4 DEF Deny, AuthorizerThrows
    <3>2. Outstanding(m) => request[m].id \in Ids
      BY RequestType DEF Outstanding
    <3>3. Outstanding(m) => pendingRequests'[request[m].id] = None
      BY <3>1, <3>2 DEF Forget, Outstanding, Base, TypeOK
    <3>4. \A k \in Ids : pendingRequests'[k] # None => pendingRequests[k] # None
      BY <3>1 DEF Forget, Base, TypeOK
    <3> QED
      BY <2>1, <2>3, <3>3, <3>4, OwnedKept
  <2>5. CASE ~ (Deny(m) \/ AuthorizerThrows(m))
    <3>1. pendingRequests' = pendingRequests
      BY <1>3, <2>5 DEF ClientJob, Allow, Forward, Sent, SendFails, Respond, Responded,
         ResponseFails
    <3>2. Outstanding(m) => Outstanding(m)'
      BY <1>3, <2>1, <2>5 DEF ClientJob, Allow, Forward, Sent, SendFails, Respond, Responded,
         ResponseFails, Outstanding, Base, TypeOK, Provenance
    <3> QED
      BY <2>1, <2>3, <3>1, <3>2, OwnedKept
  <2> QED
    BY <2>4, <2>5
<1>4. ASSUME NEW m \in Messages, ServerAnswers(m)
      PROVE  TakenIdsAreOwned'
  <2>1. PICK c \in Replies(m) : VersionRefused(m, c) \/ Answer(m, c)
    BY <1>4 DEF ServerAnswers
  <2>2. CASE VersionRefused(m, c)
    BY <2>2, OwnedKept DEF VersionRefused, Outstanding
  <2>3. CASE Answer(m, c)
    <3>1. /\ Forget(request[m]) /\ request[m].id # NoId
          /\ content' = [content EXCEPT ![m] = c]
          /\ UNCHANGED <<request, job, forwarded>>
      BY <2>3 DEF Answer, Answers
    <3>2. \A n \in Messages \ {m} : Outstanding(n) => Outstanding(n)'
      BY <3>1 DEF Outstanding, Base, TypeOK
    <3>3. Outstanding(m) => request[m].id \in Ids
      BY RequestType DEF Outstanding
    <3>4. Outstanding(m) => pendingRequests'[request[m].id] = None
      BY <3>1, <3>3 DEF Forget, Base, TypeOK
    <3>5. \A k \in Ids : pendingRequests'[k] # None => pendingRequests[k] # None
      BY <3>1 DEF Forget, Base, TypeOK
    <3> QED
      BY <3>1, <3>2, <3>4, <3>5, OwnedKept
  <2> QED
    BY <2>1, <2>2, <2>3
<1>5. ASSUME NEW m \in Messages, AnswerJob(m)
      PROVE  TakenIdsAreOwned'
  BY <1>5, OwnedKept DEF AnswerJob, Deliver, Delivered, DeliveryFails, Outstanding
<1> QED
  BY <1>1, <1>2, <1>3, <1>4, <1>5, MessageSteps

LEMMA NegotiatesInit == Init => Negotiates
  BY DEF Init, Negotiates

LEMMA NegotiatesStep ==
    Base /\ Tracking /\ Negotiates /\ [Next]_bridgeVars => Negotiates'
<1> SUFFICES ASSUME Base, Tracking, Negotiates, [Next]_bridgeVars
             PROVE  Negotiates'
  OBVIOUS
<1>1. CASE UNCHANGED <<filterVars, trackVars, version, clientVars, answerVars>>
  BY <1>1 DEF Negotiates
<1>2. ASSUME NEW m \in Messages, NEW r \in Requests, ClientMessage(m, r)
      PROVE  Negotiates'
  <2>1. /\ request[m] = None /\ m \notin forwarded /\ content[m] = "none"
        /\ request' = [request EXCEPT ![m] = r]
        /\ UNCHANGED <<forwarded, content, answer, version, initializeRequests>>
    BY <1>2 DEF ClientMessage, RejectDuplicate, RejectMalformed, AskAuthorizer, PassThrough,
       Receives, Base, TypeOK, Provenance
  <2> QED
    BY <2>1 DEF Negotiates, Base, TypeOK
<1>3. ASSUME NEW m \in Messages, ClientJob(m)
      PROVE  Negotiates'
  <2>1. UNCHANGED <<request, content, answer, version>>
    BY <1>3 DEF ClientJob, Allow, Deny, AuthorizerThrows, Forward, Sent, SendFails, Respond,
       Responded, ResponseFails
  <2>2. CASE Forward(m)
    <3>1. forwarded' = forwarded \union {m} /\ initializeRequests \subseteq initializeRequests'
      BY <2>2 DEF Forward
    <3>2. request[m].id # NoId /\ request[m].method = "initialize" =>
            request[m].id \in initializeRequests'
      BY <2>2 DEF Forward
    <3> QED
      BY <2>1, <3>1, <3>2 DEF Negotiates
  <2>3. CASE ~ Forward(m)
    <3>1. UNCHANGED <<forwarded, initializeRequests>>
      BY <1>3, <2>3 DEF ClientJob, Allow, Deny, AuthorizerThrows, Sent, SendFails, Respond,
         Responded, ResponseFails
    <3> QED
      BY <2>1, <3>1 DEF Negotiates
  <2> QED
    BY <2>2, <2>3
<1>4. ASSUME NEW m \in Messages, ServerAnswers(m)
      PROVE  Negotiates'
  <2>1. PICK c \in Replies(m) : VersionRefused(m, c) \/ Answer(m, c)
    BY <1>4 DEF ServerAnswers
  <2>2. Answers(m) /\ initializeRequests' = initializeRequests \ {request[m].id}
    BY <2>1 DEF VersionRefused, Answer
  <2>3. Outstanding(m)
    BY <2>2 DEF Answers, Outstanding, Base, Provenance
  <2>4. UNCHANGED <<request, forwarded>> /\ version \subseteq version'
    BY <2>1 DEF VersionRefused, Answer, Base, TypeOK
  <2>5. version' \subseteq Ends
    BY <2>1 DEF VersionRefused, Answer, Base, TypeOK, Ends
  <2>6. answer'[m] # "none" /\ \A n \in Messages \ {m} :
            answer'[n] = answer[n] /\ content'[n] = content[n]
    BY <2>1 DEF VersionRefused, Answer, Base, TypeOK
  <2>7. ASSUME NEW n \in Messages, n # m, request[n] # None, request[n].id # NoId,
               n \in forwarded, answer[n] = "none"
        PROVE  request[n].id # request[m].id
    <3>1. Outstanding(n)
      BY <2>7 DEF Outstanding, Base, TypeOK, Provenance
    <3> QED
      BY <2>3, <2>7, <3>1
  <2>8. request[m].method = "initialize" /\ content'[m] = "result" => version' = Ends
    <3>1. CASE VersionRefused(m, c)
      BY <2>2, <3>1 DEF VersionRefused, Answers, Base, Provenance
    <3>2. CASE Answer(m, c)
      <4>1. content'[m] = c
        BY <3>2 DEF Answer, Base, TypeOK
      <4>2. request[m].method = "initialize" => request[m].id \in initializeRequests
        BY <2>2, <2>3 DEF Negotiates, Answers, Outstanding
      <4> QED
        BY <3>2, <4>1, <4>2 DEF Answer, NegotiatesVersion
    <3> QED
      BY <2>1, <3>1, <3>2
  <2> QED
    BY <2>2, <2>4, <2>5, <2>6, <2>7, <2>8 DEF Negotiates
<1>5. ASSUME NEW m \in Messages, AnswerJob(m)
      PROVE  Negotiates'
  <2>1. UNCHANGED <<request, forwarded, content, version, initializeRequests>>
    BY <1>5 DEF AnswerJob, Deliver, Delivered, DeliveryFails
  <2>2. \A n \in Messages : answer'[n] = "none" => answer[n] = "none"
    BY <1>5 DEF AnswerJob, Deliver, Delivered, DeliveryFails, Base, TypeOK
  <2> QED
    BY <2>1, <2>2 DEF Negotiates
<1> QED
  BY <1>1, <1>2, <1>3, <1>4, <1>5, MessageSteps

(* The client learns that it is initialized only when both transports      *)
(* speak the version the server chose.                                     *)
THEOREM VersionFirst == Spec => []VersionBeforeInitialized
<1>1. Base /\ Negotiates => VersionBeforeInitialized
  <2> SUFFICES ASSUME Base, Negotiates, NEW m \in reply,
                      request[m].method = "initialize", content[m] = "result"
               PROVE  version = Ends
    BY DEF VersionBeforeInitialized
  <2>1. m \in Messages /\ answer[m] # "none"
    BY DEF Base, TypeOK, Provenance
  <2>2. m \in forwarded /\ request[m].id # NoId
    BY <2>1 DEF Base, Provenance
  <2>3. request[m] # None
    BY <2>1, <2>2 DEF Base, Provenance
  <2> QED
    BY <2>1, <2>2, <2>3 DEF Negotiates
<1> QED
  BY <1>1, BaseInit, BaseStep, TrackingInit, TrackingStep, NegotiatesInit, NegotiatesStep, PTL
     DEF Spec

-----------------------------------------------------------------------------
(* The refinement.                                                         *)

(* The abstract ids in use are those of the outstanding requests. *)
LEMMA LiveIsOutstanding ==
    ASSUME Base, Fates, NEW m \in Messages, NEW k \in Ids
    PROVE  Stage(m) \in {"accepted", "served"} /\ request[m].id = k
             <=> Outstanding(m) /\ request[m].id = k
<1>1. Outstanding(m) => Stage(m) \in {"accepted", "served"}
  BY DEF Outstanding, Stage, Base, TypeOK, Provenance, Fates
<1>2. Stage(m) \in {"accepted", "served"} /\ request[m].id = k => Outstanding(m)
  BY BridgeAssumption DEF Outstanding, Stage, Base, TypeOK, Provenance, Fates
<1> QED
  BY <1>1, <1>2

(* So the filter refuses an id exactly when it is in use. *)
LEMMA DuplicatesAgree ==
    ASSUME Base, Tracking, Fates, TakenIdsAreOwned, NEW r \in Requests
    PROVE  Promise!Duplicate(r) <=> IsDuplicate(r)
<1>1. r.id \in Ids \union {NoId}
  BY BridgeAssumption DEF Request
<1>2. CASE r.id = NoId
  BY <1>2 DEF Promise!Duplicate, IsDuplicate
<1>3. CASE r.id \in Ids
  <2>1. Promise!Duplicate(r) <=> \E m \in Messages : Outstanding(m) /\ request[m].id = r.id
    BY <1>3, LiveIsOutstanding, BridgeAssumption DEF Promise!Duplicate, Promise!Live
  <2>2. \A m \in Messages : Outstanding(m) => request[m].method # None
    BY RequestType, BridgeAssumption DEF Outstanding
  <2> QED
    BY <1>3, <2>1, <2>2, BridgeAssumption DEF IsDuplicate, TakenIdsAreOwned
<1> QED
  BY <1>1, <1>2, <1>3

(* A step of one message changes the stage of that message only. *)
LEMMA OneStageChanges ==
    ASSUME NEW m \in Messages, NEW s,
           \A n \in Messages \ {m} : Stage(n)' = Stage(n),
           Stage(m)' = s
    PROVE  [n \in Messages |-> Stage(n)]' = [[n \in Messages |-> Stage(n)] EXCEPT ![m] = s]
  OBVIOUS

LEMMA RefinesInit == Init => Promise!Init
  BY DEF Init, Promise!Init, Stage

LEMMA RefinesClientMessage ==
    ASSUME Base, Tracking, Fates, TakenIdsAreOwned,
           NEW m \in Messages, NEW r \in Requests, ClientMessage(m, r)
    PROVE  Promise!Receive(m, r)
<1>1. /\ job[m] = "unsent" /\ request' = [request EXCEPT ![m] = r] /\ tools' = tools
      /\ content' = content /\ forwarded' = forwarded
  BY DEF ClientMessage, RejectDuplicate, RejectMalformed, AskAuthorizer, PassThrough, Receives
<1>2. \A n \in Messages \ {m} : job'[n] = job[n] /\ verdict'[n] = verdict[n]
  BY DEF ClientMessage, RejectDuplicate, RejectMalformed, AskAuthorizer, PassThrough,
     Receives, Refuse, Base, TypeOK
<1>3. \A n \in Messages \ {m} : Stage(n)' = Stage(n)
  BY <1>1, <1>2 DEF Stage
<1>4. content[m] = "none" /\ m \notin forwarded /\ verdict[m] = "none"
  BY <1>1 DEF Base, TypeOK, Provenance, Fates
<1>5. Stage(m)' = IF IsDuplicate(r) \/ r.call = Malformed THEN "refused" ELSE "accepted"
  <2>1. CASE RejectDuplicate(m, r) \/ RejectMalformed(m, r)
    BY <2>1 DEF RejectDuplicate, RejectMalformed, Refuse, Receives, Stage, Base, TypeOK
  <2>2. CASE AskAuthorizer(m, r) \/ PassThrough(m, r)
    <3>1. ~ IsDuplicate(r) /\ r.call # Malformed
      BY <2>2, BridgeAssumption DEF AskAuthorizer, PassThrough
    <3>2. job'[m] \in {"authorizing", "forward"} /\ verdict' = verdict
      BY <2>2 DEF AskAuthorizer, PassThrough, Base, TypeOK
    <3> QED
      BY <1>1, <1>4, <3>1, <3>2 DEF Stage
  <2> QED
    BY <2>1, <2>2 DEF ClientMessage
<1>6. Stage(m) = "unsent"
  BY <1>1 DEF Stage
<1> QED
  BY <1>1, <1>3, <1>5, <1>6, DuplicatesAgree, OneStageChanges DEF Promise!Receive

LEMMA RefinesClientJob ==
    ASSUME Base, Fates, NEW m \in Messages, ClientJob(m)
    PROVE  \/ Promise!Serve(m) \/ Promise!Refuse(m) \/ Promise!Drop(m)
           \/ UNCHANGED Promise!vars
<1>1. UNCHANGED <<request, content, tools>>
  BY DEF ClientJob, Allow, Deny, AuthorizerThrows, Forward, Sent, SendFails, Respond,
     Responded, ResponseFails
<1>2. \A n \in Messages \ {m} :
          job'[n] = job[n] /\ verdict'[n] = verdict[n] /\ (n \in forwarded' <=> n \in forwarded)
  BY DEF ClientJob, Allow, Deny, AuthorizerThrows, Forward, Sent, SendFails, Respond,
     Responded, ResponseFails, Refuse, Base, TypeOK
<1>3. \A n \in Messages \ {m} : Stage(n)' = Stage(n)
  BY <1>1, <1>2 DEF Stage
<1>4. job[m] \in {"authorizing", "forward"} => Stage(m) = "accepted"
  BY DEF Stage, Base, TypeOK, Provenance, Fates
<1>5. CASE Forward(m)
  <2>1. Stage(m)' = "served"
    BY <1>1, <1>5 DEF Forward, Stage, Base, TypeOK, Provenance, Fates
  <2>2. request[m].call \in Authorized \union {None}
    BY <1>5 DEF Forward, Base, Provenance
  <2> QED
    BY <1>1, <1>3, <1>4, <1>5, <2>1, <2>2, OneStageChanges DEF Forward, Promise!Serve
<1>6. CASE Deny(m)
  <2>1. Stage(m)' = "refused"
    BY <1>6 DEF Deny, Refuse, Stage, Base, TypeOK
  <2>2. request[m].call \in Calls \ Authorized
    BY <1>6 DEF Deny, Base, Provenance
  <2> QED
    BY <1>1, <1>3, <1>4, <1>6, <2>1, <2>2, OneStageChanges DEF Deny, Promise!Refuse
<1>7. CASE AuthorizerThrows(m)
  <2>1. Stage(m)' = "dropped"
    BY <1>1, <1>7 DEF AuthorizerThrows, Stage, Base, TypeOK, Provenance, Fates
  <2>2. request[m].call \in Calls
    BY <1>7 DEF AuthorizerThrows, Base, Provenance
  <2> QED
    BY <1>1, <1>3, <1>4, <1>7, <2>1, <2>2, OneStageChanges DEF AuthorizerThrows, Promise!Drop
<1>8. CASE Allow(m) \/ Sent(m) \/ SendFails(m) \/ Respond(m) \/ Responded(m) \/ ResponseFails(m)
  <2>1. Stage(m)' = Stage(m)
    BY <1>1, <1>8 DEF Allow, Sent, SendFails, Respond, Responded, ResponseFails, Stage, Base,
       TypeOK, Provenance, Fates
  <2> QED
    BY <1>1, <1>3, <2>1 DEF Promise!vars
<1> QED
  BY <1>5, <1>6, <1>7, <1>8 DEF ClientJob

LEMMA RefinesServerAnswers ==
    ASSUME Base, Tracking, Fates, NEW m \in Messages, ServerAnswers(m)
    PROVE  Promise!Answer(m) \/ UNCHANGED Promise!vars
<1>1. PICK c \in Replies(m) : VersionRefused(m, c) \/ Answer(m, c)
  BY DEF ServerAnswers
<1>2. c # "none"
  BY DEF Replies
<1>3. Answers(m) /\ UNCHANGED <<request, job, verdict, forwarded>>
  BY <1>1 DEF VersionRefused, Answer
<1>4. content[m] = "none" /\ job[m] # "unsent" /\ verdict[m] = "none" /\ tools[m] = {}
  BY <1>3 DEF Answers, Base, TypeOK, Provenance, Fates
<1>5. CASE VersionRefused(m, c)
  <2>1. UNCHANGED <<content, tools>>
    BY <1>5 DEF VersionRefused
  <2> QED
    BY <1>3, <2>1 DEF Stage, Promise!vars
<1>6. CASE Answer(m, c)
  <2>1. content' = [content EXCEPT ![m] = c]
    BY <1>6 DEF Answer
  <2>2. \A n \in Messages \ {m} : Stage(n)' = Stage(n)
    BY <1>3, <2>1 DEF Stage, Base, TypeOK
  <2>3. Stage(m) = "served" /\ Stage(m)' = "answered"
    BY <1>2, <1>3, <1>4, <2>1 DEF Answers, Stage, Base, TypeOK
  <2>4. Outstanding(m)
    BY <1>3, <1>4 DEF Answers, Outstanding, Base, Provenance
  <2>5. \E kept \in SUBSET (Tools \intersect Discoverable) :
            /\ request[m].method # "tools/list" => kept = {}
            /\ tools' = [tools EXCEPT ![m] = kept]
    <3>1. CASE FilterThrows(m, c)
      <4>1. tools' = tools
        BY <1>6, <3>1 DEF Answer
      <4>2. tools' = [tools EXCEPT ![m] = {}]
        BY <1>4, <4>1 DEF Base, TypeOK
      <4> QED
        BY <4>2
    <3>2. CASE ~ FilterThrows(m, c)
      <4>1. tools' = [tools EXCEPT ![m] = ListedTools(m, c)]
        BY <1>6, <3>2 DEF Answer
      <4>2. ListedTools(m, c) \in SUBSET (Tools \intersect Discoverable)
        BY <2>4 DEF ListedTools
      <4>3. request[m].method # "tools/list" => ListedTools(m, c) = {}
        BY DEF ListedTools
      <4> QED
        BY <4>1, <4>2, <4>3
    <3> QED
      BY <3>1, <3>2
  <2> QED
    BY <1>3, <2>2, <2>3, <2>5, OneStageChanges DEF Answers, Promise!Answer
<1> QED
  BY <1>1, <1>5, <1>6

LEMMA RefinesStep ==
    Base /\ Tracking /\ Fates /\ TakenIdsAreOwned /\ [Next]_bridgeVars
        => [Promise!Next]_Promise!vars
<1> SUFFICES ASSUME Base, Tracking, Fates, TakenIdsAreOwned, [Next]_bridgeVars
             PROVE  [Promise!Next]_Promise!vars
  OBVIOUS
<1>1. CASE UNCHANGED <<filterVars, trackVars, version, clientVars, answerVars>>
  BY <1>1 DEF Stage, Promise!vars
<1>2. ASSUME NEW m \in Messages, NEW r \in Requests, ClientMessage(m, r)
      PROVE  Promise!Next
  BY <1>2, RefinesClientMessage DEF Promise!Next
<1>3. ASSUME NEW m \in Messages, ClientJob(m)
      PROVE  [Promise!Next]_Promise!vars
  BY <1>3, RefinesClientJob DEF Promise!Next
<1>4. ASSUME NEW m \in Messages, ServerAnswers(m)
      PROVE  [Promise!Next]_Promise!vars
  BY <1>4, RefinesServerAnswers DEF Promise!Next
<1>5. ASSUME NEW m \in Messages, AnswerJob(m)
      PROVE  UNCHANGED Promise!vars
  <2>1. UNCHANGED <<request, job, verdict, content, forwarded, tools>>
    BY <1>5 DEF AnswerJob, Deliver, Delivered, DeliveryFails
  <2> QED
    BY <2>1 DEF Stage, Promise!vars
<1> QED
  BY <1>1, <1>2, <1>3, <1>4, <1>5, MessageSteps

(* The bridge keeps the promise of the proxy: whatever is interleaved,     *)
(* each message meets the one fate that Restrictor allows.                 *)
THEOREM KeepsPromise == Spec => ImplementsRestrictor
<1> QED
  BY RefinesInit, RefinesStep, BaseInit, BaseStep, TrackingInit, TrackingStep, FatesInit,
     FatesStep, OwnedInit, OwnedStep, PTL DEF Spec, ImplementsRestrictor, Promise!Spec

-----------------------------------------------------------------------------
(* The stdio proxy: what drain() waits for.                                *)

(* A deferred belongs to a request with its id whose answer is not done.   *)
Paired ==
    \A k \in Ids :
        pendingResponses[k] # None =>
            /\ pendingResponses[k] \in forwarded
            /\ request[pendingResponses[k]].id = k
            /\ closing = "no" => answer[pendingResponses[k]] # "done"

(* A job that is done has answered its request or passed it on. *)
Settled ==
    closing = "no" =>
        \A m \in Messages : Asked(m) =>
            /\ job[m] = "replying" \/ answer[m] \in {"delivering", "done"} => m \in reply
            /\ job[m] = "done" => (verdict[m] # "none" /\ m \in reply) \/ m \in forwarded

(* A request that was passed on is answered or holds its deferred. *)
Held ==
    closing = "no" /\ FreshIds =>
        \A m \in Messages : Asked(m) /\ m \in forwarded =>
            m \in reply \/ pendingResponses[request[m].id] = m

(* drain() is called at the end of the input only. *)
DrainsAtEof == drain.state # "idle" => input # "open"

LEMMA FailCloses == Base /\ Fail => closing' # "no"
  BY DEF Fail, Closed, Base, TypeOK

(* Nothing reopens a bridge that is closing. *)
LEMMA ClosingStays ==
    ASSUME Base, [Next]_bridgeVars, closing' = "no"
    PROVE  closing = "no"
<1>1. CASE Starting \/ Closing \/ TransportError \/ Close \/ \E e \in Ends : PeerCloses(e)
  BY <1>1 DEF Starting, StartUpstream, StartDownstream, StartFails, Closing, BothClosed,
     EndCloses, TransportError, Fail, Closed, Close, PeerCloses
<1>2. CASE \E m \in Messages, r \in Requests : ClientMessage(m, r)
  BY <1>2 DEF ClientMessage, RejectDuplicate, RejectMalformed, AskAuthorizer, PassThrough, Receives
<1>3. CASE \E m \in Messages : ClientJob(m)
  BY <1>3 DEF ClientJob, Allow, Deny, AuthorizerThrows, Forward, Sent, SendFails, Respond,
     Responded, ResponseFails, Fail, Closed
<1>4. CASE \E m \in Messages : ServerAnswers(m)
  BY <1>4 DEF ServerAnswers, VersionRefused, Answer, Fail, Closed
<1>5. CASE \E m \in Messages : AnswerJob(m)
  BY <1>5 DEF AnswerJob, Deliver, Delivered, DeliveryFails, Fail, Closed
<1>6. CASE \E n \in Notices : ServerMessage(n) \/ NoticeJob(n)
  BY <1>6 DEF ServerMessage, NoticeJob, Relay, Relayed, RelayFails, Fail, Closed
<1>7. CASE Drain \/ Draining
  BY <1>7 DEF Drain, Draining, DrainChecks, DrainWakes
<1>8. CASE UNCHANGED bridgeVars
  BY <1>8 DEF bridgeVars
<1> QED
  BY <1>1, <1>2, <1>3, <1>4, <1>5, <1>6, <1>7, <1>8, StepCases

(* A message keeps what it says, so ids that are fresh were fresh before. *)
LEMMA RequestsStay ==
    ASSUME Base, [Next]_bridgeVars, NEW n \in Messages, request[n] # None
    PROVE  request'[n] = request[n]
<1>1. ASSUME NEW m \in Messages, NEW r \in Requests, ClientMessage(m, r)
      PROVE  request'[n] = request[n]
  <2>1. request' = [request EXCEPT ![m] = r] /\ request[m] = None
    BY <1>1 DEF ClientMessage, RejectDuplicate, RejectMalformed, AskAuthorizer, PassThrough,
       Receives, Base, Provenance
  <2> QED
    BY <2>1
<1>2. ASSUME NEW m \in Messages, ClientJob(m) \/ ServerAnswers(m) \/ AnswerJob(m)
      PROVE  request' = request
  BY <1>2 DEF ClientJob, Allow, Deny, AuthorizerThrows, Forward, Sent, SendFails, Respond,
     Responded, ResponseFails, ServerAnswers, VersionRefused, Answer, AnswerJob, Deliver,
     Delivered, DeliveryFails
<1> QED
  BY <1>1, <1>2, MessageSteps

LEMMA FreshBefore ==
    ASSUME Base, [Next]_bridgeVars, FreshIds'
    PROVE  FreshIds
  BY RequestsStay DEF FreshIds

LEMMA PairedInit == Init => Paired
  BY DEF Init, Paired

LEMMA PairedStep == Base /\ Paired /\ [Next]_bridgeVars => Paired'
<1> SUFFICES ASSUME Base, Paired, [Next]_bridgeVars PROVE Paired'
  OBVIOUS
<1>1. closing' = "no" => closing = "no"
  BY ClosingStays
<1>2. CASE UNCHANGED <<filterVars, trackVars, version, clientVars, answerVars>>
  BY <1>1, <1>2 DEF Paired
<1>3. ASSUME NEW m \in Messages, NEW r \in Requests, ClientMessage(m, r)
      PROVE  Paired'
  <2>1. /\ m \notin forwarded /\ request' = [request EXCEPT ![m] = r]
        /\ UNCHANGED <<pendingResponses, forwarded, answer>>
    BY <1>3 DEF ClientMessage, RejectDuplicate, RejectMalformed, AskAuthorizer, PassThrough,
       Receives, Base, Provenance
  <2> QED
    BY <1>1, <2>1 DEF Paired
<1>4. ASSUME NEW m \in Messages, ClientJob(m)
      PROVE  Paired'
  <2>1. UNCHANGED <<request, answer>>
    BY <1>4 DEF ClientJob, Allow, Deny, AuthorizerThrows, Forward, Sent, SendFails, Respond,
       Responded, ResponseFails
  <2>2. CASE Forward(m)
    <3>1. forwarded' = forwarded \union {m} /\ answer[m] # "done"
      BY <2>2 DEF Forward, Base, Provenance
    <3>2. \A k \in Ids : pendingResponses'[k] # pendingResponses[k] =>
              pendingResponses'[k] = m /\ request[m].id = k
      BY <2>2 DEF Forward, Base, TypeOK
    <3> QED
      BY <1>1, <2>1, <3>1, <3>2 DEF Paired
  <2>3. CASE ~ Forward(m)
    <3>1. UNCHANGED <<pendingResponses, forwarded>>
      BY <1>4, <2>3 DEF ClientJob, Allow, Deny, AuthorizerThrows, Sent, SendFails, Respond,
         Responded, ResponseFails
    <3> QED
      BY <1>1, <2>1, <3>1 DEF Paired
  <2> QED
    BY <2>2, <2>3
<1>5. ASSUME NEW m \in Messages, ServerAnswers(m)
      PROVE  Paired'
  <2>1. PICK c \in Replies(m) : VersionRefused(m, c) \/ Answer(m, c)
    BY <1>5 DEF ServerAnswers
  <2>2. UNCHANGED <<request, forwarded, pendingResponses>>
    BY <2>1 DEF VersionRefused, Answer
  <2>3. closing' = "no" => answer' = [answer EXCEPT ![m] = "filtered"]
    BY <2>1, FailCloses DEF VersionRefused, Answer
  <2> QED
    BY <1>1, <2>2, <2>3 DEF Paired, Base, TypeOK
<1>6. ASSUME NEW m \in Messages, AnswerJob(m)
      PROVE  Paired'
  <2>1. UNCHANGED <<request, forwarded>>
    BY <1>6 DEF AnswerJob, Deliver, Delivered, DeliveryFails
  <2>2. CASE Deliver(m) \/ DeliveryFails(m)
    <3>1. pendingResponses' = pendingResponses
      BY <2>2 DEF Deliver, DeliveryFails
    <3>2. closing' = "no" => answer' = [answer EXCEPT ![m] = "delivering"]
      BY <2>2, FailCloses DEF Deliver, DeliveryFails
    <3> QED
      BY <1>1, <2>1, <3>1, <3>2 DEF Paired, Base, TypeOK
  <2>3. CASE Delivered(m)
    <3>1. pendingResponses' = [pendingResponses EXCEPT ![request[m].id] = None]
      BY <2>3 DEF Delivered
    <3>2. answer' = [answer EXCEPT ![m] = "done"]
      BY <2>3 DEF Delivered
    <3>3. ASSUME NEW k \in Ids, pendingResponses'[k] # None
          PROVE  k # request[m].id /\ pendingResponses'[k] = pendingResponses[k]
      BY <3>1, <3>3 DEF Base, TypeOK
    <3> QED
      BY <1>1, <2>1, <3>2, <3>3 DEF Paired, Base, TypeOK
  <2> QED
    BY <1>6, <2>2, <2>3 DEF AnswerJob
<1> QED
  BY <1>2, <1>3, <1>4, <1>5, <1>6, MessageSteps

LEMMA SettledInit == Init => Settled
  BY DEF Init, Settled, Asked

LEMMA SettledStep == Base /\ Fates /\ Settled /\ [Next]_bridgeVars => Settled'
<1> SUFFICES ASSUME Base, Fates, Settled, [Next]_bridgeVars, closing' = "no",
                    NEW n \in Messages, Asked(n)'
             PROVE  /\ job'[n] = "replying" \/ answer'[n] \in {"delivering", "done"} => n \in reply'
                    /\ job'[n] = "done" =>
                         (verdict'[n] # "none" /\ n \in reply') \/ n \in forwarded'
  BY DEF Settled
<1> USE DEF Asked
<1>1. /\ closing = "no"
      /\ Asked(n) =>
           /\ job[n] = "replying" \/ answer[n] \in {"delivering", "done"} => n \in reply
           /\ job[n] = "done" => (verdict[n] # "none" /\ n \in reply) \/ n \in forwarded
  BY ClosingStays DEF Settled
<1>2. CASE UNCHANGED <<filterVars, trackVars, version, clientVars, answerVars>>
  BY <1>1, <1>2
<1>3. ASSUME NEW m \in Messages, NEW r \in Requests, ClientMessage(m, r)
      PROVE  /\ job'[n] = "replying" \/ answer'[n] \in {"delivering", "done"} => n \in reply'
             /\ job'[n] = "done" =>
                  (verdict'[n] # "none" /\ n \in reply') \/ n \in forwarded'
  <2>1. /\ job[m] = "unsent" /\ request' = [request EXCEPT ![m] = r]
        /\ UNCHANGED <<answer, reply, forwarded>>
    BY <1>3 DEF ClientMessage, RejectDuplicate, RejectMalformed, AskAuthorizer, PassThrough,
       Receives
  <2>2. CASE n = m
    <3>1. request'[m] = r
      BY <2>1 DEF Base, TypeOK
    <3>2. job'[m] \in {"reply", "authorizing", "forward"}
      BY <1>3, <2>2, <3>1 DEF ClientMessage, RejectDuplicate, RejectMalformed, AskAuthorizer,
         PassThrough, Refuse, Base, TypeOK
    <3>3. answer[m] = "none"
      BY <2>1 DEF Base, TypeOK, Provenance
    <3> QED
      BY <2>1, <2>2, <3>2, <3>3
  <2>3. CASE n # m
    <3>1. request'[n] = request[n] /\ job'[n] = job[n] /\ verdict'[n] = verdict[n]
      BY <1>3, <2>3 DEF ClientMessage, RejectDuplicate, RejectMalformed, AskAuthorizer,
         PassThrough, Receives, Refuse, Base, TypeOK
    <3> QED
      BY <1>1, <2>1, <3>1
  <2> QED
    BY <2>2, <2>3
<1>4. ASSUME NEW m \in Messages, ClientJob(m)
      PROVE  /\ job'[n] = "replying" \/ answer'[n] \in {"delivering", "done"} => n \in reply'
             /\ job'[n] = "done" =>
                  (verdict'[n] # "none" /\ n \in reply') \/ n \in forwarded'
  <2>1. UNCHANGED <<request, answer>> /\ Asked(n)
    BY <1>4 DEF ClientJob, Allow, Deny, AuthorizerThrows, Forward, Sent, SendFails, Respond,
       Responded, ResponseFails
  <2>2. ~ (AuthorizerThrows(m) \/ SendFails(m) \/ ResponseFails(m))
    BY FailCloses DEF AuthorizerThrows, SendFails, ResponseFails
  <2>3. CASE Allow(m) \/ Forward(m) \/ Sent(m) \/ Deny(m)
    <3>1. reply' = reply /\ forwarded \subseteq forwarded'
      BY <2>3 DEF Allow, Forward, Sent, Deny
    <3> QED
      BY <1>1, <2>1, <2>3, <3>1 DEF Allow, Forward, Sent, Deny, Refuse, Base, TypeOK, Provenance,
         Fates
  <2>4. CASE Respond(m) \/ Responded(m)
    BY <1>1, <2>1, <2>4 DEF Respond, Responded, Base, TypeOK, Fates
  <2> QED
    BY <1>4, <2>2, <2>3, <2>4 DEF ClientJob
<1>5. ASSUME NEW m \in Messages, ServerAnswers(m)
      PROVE  /\ job'[n] = "replying" \/ answer'[n] \in {"delivering", "done"} => n \in reply'
             /\ job'[n] = "done" =>
                  (verdict'[n] # "none" /\ n \in reply') \/ n \in forwarded'
  <2>1. PICK c \in Replies(m) : VersionRefused(m, c) \/ Answer(m, c)
    BY <1>5 DEF ServerAnswers
  <2>2. UNCHANGED <<request, job, verdict, forwarded, reply>>
    BY <2>1 DEF VersionRefused, Answer
  <2>3. answer' = [answer EXCEPT ![m] = "filtered"]
    BY <2>1, FailCloses DEF VersionRefused, Answer
  <2> QED
    BY <1>1, <2>2, <2>3 DEF Base, TypeOK
<1>6. ASSUME NEW m \in Messages, AnswerJob(m)
      PROVE  /\ job'[n] = "replying" \/ answer'[n] \in {"delivering", "done"} => n \in reply'
             /\ job'[n] = "done" =>
                  (verdict'[n] # "none" /\ n \in reply') \/ n \in forwarded'
  <2>1. Deliver(m) \/ Delivered(m)
    BY <1>6, FailCloses DEF AnswerJob, DeliveryFails
  <2> QED
    BY <1>1, <2>1 DEF Deliver, Delivered, Base, TypeOK
<1> QED
  BY <1>2, <1>3, <1>4, <1>5, <1>6, MessageSteps

LEMMA HeldInit == Init => Held
  BY DEF Init, Held

LEMMA HeldStep == Base /\ Settled /\ Held /\ [Next]_bridgeVars => Held'
<1> SUFFICES ASSUME Base, Settled, Held, [Next]_bridgeVars, closing' = "no", FreshIds',
                    NEW n \in Messages, Asked(n)', n \in forwarded'
             PROVE  n \in reply' \/ pendingResponses'[request'[n].id] = n
  BY DEF Held
<1>1. closing = "no" /\ FreshIds
  BY ClosingStays, FreshBefore
<1>2. Asked(n) /\ n \in forwarded => n \in reply \/ pendingResponses[request[n].id] = n
  BY <1>1 DEF Held
<1>3. CASE UNCHANGED <<filterVars, trackVars, version, clientVars, answerVars>>
  BY <1>2, <1>3 DEF Asked
<1>4. ASSUME NEW m \in Messages, NEW r \in Requests, ClientMessage(m, r)
      PROVE  n \in reply' \/ pendingResponses'[request'[n].id] = n
  <2>1. /\ m \notin forwarded /\ request' = [request EXCEPT ![m] = r]
        /\ UNCHANGED <<reply, forwarded, pendingResponses>>
    BY <1>4 DEF ClientMessage, RejectDuplicate, RejectMalformed, AskAuthorizer, PassThrough,
       Receives, Base, Provenance
  <2> QED
    BY <1>2, <2>1 DEF Asked
<1>5. ASSUME NEW m \in Messages, ClientJob(m)
      PROVE  n \in reply' \/ pendingResponses'[request'[n].id] = n
  <2>1. request' = request /\ reply \subseteq reply' /\ Asked(n)
    BY <1>5 DEF ClientJob, Allow, Deny, AuthorizerThrows, Forward, Sent, SendFails, Respond,
       Responded, ResponseFails, Asked
  <2>2. CASE Forward(m)
    <3>1. request[n].id \in Ids
      BY <2>1, RequestType DEF Asked
    <3>2. CASE n = m
      BY <2>1, <2>2, <3>1, <3>2 DEF Forward, Asked, Base, TypeOK
    <3>3. CASE n # m
      <4>1. n \in forwarded
        BY <2>2, <3>3 DEF Forward
      <4>2. request[m].id # request[n].id
        BY <1>1, <2>1, <2>2, <3>3 DEF FreshIds, Asked, Forward, Base, Provenance
      <4>3. pendingResponses'[request[n].id] = pendingResponses[request[n].id]
        BY <2>2, <3>1, <4>2 DEF Forward, Base, TypeOK
      <4> QED
        BY <1>2, <2>1, <4>1, <4>3
    <3> QED
      BY <3>2, <3>3
  <2>3. CASE ~ Forward(m)
    <3>1. UNCHANGED <<pendingResponses, forwarded>>
      BY <1>5, <2>3 DEF ClientJob, Allow, Deny, AuthorizerThrows, Sent, SendFails, Respond,
         Responded, ResponseFails
    <3> QED
      BY <1>2, <2>1, <3>1
  <2> QED
    BY <2>2, <2>3
<1>6. ASSUME NEW m \in Messages, ServerAnswers(m)
      PROVE  n \in reply' \/ pendingResponses'[request'[n].id] = n
  <2>1. UNCHANGED <<request, forwarded, pendingResponses, reply>>
    BY <1>6 DEF ServerAnswers, VersionRefused, Answer
  <2> QED
    BY <1>2, <2>1 DEF Asked
<1>7. ASSUME NEW m \in Messages, AnswerJob(m)
      PROVE  n \in reply' \/ pendingResponses'[request'[n].id] = n
  <2>1. UNCHANGED <<request, forwarded>> /\ reply \subseteq reply' /\ Asked(n)
    BY <1>7 DEF AnswerJob, Deliver, Delivered, DeliveryFails, Asked
  <2>2. CASE Delivered(m)
    <3>1. request[m] # None /\ request[m].id # NoId /\ m \in reply
      BY <1>1, <2>2 DEF Delivered, Base, Provenance, Settled, Asked
    <3>2. request[m].id = request[n].id => m = n
      BY <1>1, <2>1, <3>1 DEF FreshIds, Asked
    <3>3. request[m].id # request[n].id =>
              pendingResponses'[request[n].id] = pendingResponses[request[n].id]
      BY <2>1, <2>2, RequestType DEF Delivered, Asked, Base, TypeOK
    <3> QED
      BY <1>2, <2>1, <3>1, <3>2, <3>3
  <2>3. CASE ~ Delivered(m)
    <3>1. pendingResponses' = pendingResponses
      BY <1>7, <2>3 DEF AnswerJob, Deliver, DeliveryFails
    <3> QED
      BY <1>2, <2>1, <3>1
  <2> QED
    BY <2>2, <2>3
<1> QED
  BY <1>3, <1>4, <1>5, <1>6, <1>7, MessageSteps

(* Every step of the proxy is a step of its bridge. *)
LEMMA ProxyStep == [ProxyNext]_vars => [Next]_bridgeVars
<1>1. CASE ClientWrites
  BY <1>1 DEF ClientWrites, Next
<1>2. CASE InputEnds \/ DrainSettles \/ Abort
  BY <1>2 DEF InputEnds, DrainSettles, Abort, Next
<1>3. CASE InputBreaks
  <2>1. TransportError \/ \E e \in Ends : PeerCloses(e)
    BY <1>3 DEF InputBreaks, Ends
  <2> QED
    BY <2>1 DEF Next, Running
<1>4. CASE BridgeStep
  BY <1>4 DEF BridgeStep, Next
<1>5. CASE UNCHANGED vars
  BY <1>5 DEF vars
<1> QED
  BY <1>1, <1>2, <1>3, <1>4, <1>5 DEF ProxyNext

LEMMA EofInit == ProxyInit => DrainsAtEof
  BY DEF ProxyInit, Init, Idle, DrainsAtEof

LEMMA EofStep == Base /\ DrainsAtEof /\ [ProxyNext]_vars => DrainsAtEof'
<1> SUFFICES ASSUME Base, DrainsAtEof, [ProxyNext]_vars PROVE DrainsAtEof'
  OBVIOUS
<1>1. CASE InputEnds
  BY <1>1 DEF InputEnds, DrainsAtEof
<1>2. CASE ClientWrites \/ InputBreaks \/ DrainSettles \/ Abort
  <2>1. drain' = drain
    BY <1>2 DEF ClientWrites, InputBreaks, DrainSettles, Abort, Close, TransportError, PeerCloses,
       ClientMessage, RejectDuplicate, RejectMalformed, AskAuthorizer, PassThrough, Receives
  <2>2. input' = "open" => input = "open"
    BY <1>2 DEF ClientWrites, InputBreaks, DrainSettles, Abort
  <2> QED
    BY <2>1, <2>2 DEF DrainsAtEof
<1>3. CASE BridgeStep
  <2>1. input' = input
    BY <1>3 DEF BridgeStep
  <2>2. CASE Draining
    BY <2>1, <2>2 DEF Draining, DrainChecks, DrainWakes, DrainsAtEof
  <2>3. CASE ~ Draining
    <3>1. drain' = drain
      BY <1>3, <2>3 DEF BridgeStep, Running, Starting, StartUpstream, StartDownstream, StartFails,
         Closing, BothClosed, EndCloses, TransportError, PeerCloses, ClientJob, Allow, Deny,
         AuthorizerThrows, Forward, Sent, SendFails, Respond, Responded, ResponseFails,
         ServerAnswers, VersionRefused, Answer, AnswerJob, Deliver, Delivered, DeliveryFails,
         ServerMessage, NoticeJob, Relay, Relayed, RelayFails
    <3> QED
      BY <2>1, <3>1 DEF DrainsAtEof
  <2> QED
    BY <2>2, <2>3
<1>4. CASE UNCHANGED vars
  BY <1>4 DEF vars, bridgeVars, DrainsAtEof
<1> QED
  BY <1>1, <1>2, <1>3, <1>4 DEF ProxyNext

(* When drain() finds nothing to wait for, every request was answered.     *)
LEMMA NothingLeft ==
    ASSUME Base, Fates, Settled, Held, FreshIds, closing = "no",
           ActiveJobs = {}, Tracked = {}, NEW m \in Messages, Asked(m)
    PROVE  m \in reply
<1>1. job[m] = "done"
  <2>1. job[m] # "unsent"
    BY DEF Asked, Base, Provenance
  <2>2. CASE job[m] # "done"
    <3>1. [end |-> "down", of |-> m] \in ActiveJobs
      BY <2>1, <2>2 DEF ActiveJobs
    <3> QED
      BY <3>1
  <2> QED
    BY <2>2
<1>2. request[m].id \in Ids
  BY RequestType DEF Asked
<1>3. pendingResponses[request[m].id] # m
  BY <1>2, BridgeAssumption DEF Tracked
<1> QED
  BY <1>1, <1>3 DEF Settled, Held

LEMMA DrainedInit == ProxyInit => FreshDrainedMeansAnswered
  BY DEF ProxyInit, Init, Idle, FreshDrainedMeansAnswered, DrainedMeansAnswered

LEMMA DrainedStep ==
    Base /\ Fates /\ Settled /\ Held /\ DrainsAtEof /\ FreshDrainedMeansAnswered
        /\ [ProxyNext]_vars => FreshDrainedMeansAnswered'
<1> SUFFICES ASSUME Base, Fates, Settled, Held, DrainsAtEof, FreshDrainedMeansAnswered,
                    [ProxyNext]_vars, FreshIds', drain'.state = "drained", closing' = "no",
                    NEW m \in Messages, Asked(m)'
             PROVE  m \in reply'
  BY DEF FreshDrainedMeansAnswered, DrainedMeansAnswered
<1>1. [Next]_bridgeVars
  BY ProxyStep
<1>2. closing = "no" /\ FreshIds
  BY <1>1, ClosingStays, FreshBefore
<1>3. CASE Draining
  <2>1. DrainChecks
    BY <1>3 DEF Draining, DrainWakes, Idle
  <2>2. ActiveJobs = {} /\ Tracked = {} /\ UNCHANGED <<request, reply>>
    BY <1>2, <2>1 DEF DrainChecks
  <2> QED
    BY <1>2, <2>2, NothingLeft DEF Asked
<1>4. CASE ~ Draining
  <2>1. drain.state = "drained"
    <3>1. CASE InputEnds
      BY <3>1 DEF InputEnds, Drain, Idle
    <3>2. CASE ~ InputEnds
      <4>1. drain' = drain
        BY <1>4, <3>2 DEF ProxyNext, ClientWrites, InputBreaks, DrainSettles, Abort, Close,
           TransportError, PeerCloses, ClientMessage, RejectDuplicate, RejectMalformed,
           AskAuthorizer, PassThrough, Receives, BridgeStep, Running, Starting, StartUpstream,
           StartDownstream, StartFails, Closing, BothClosed, EndCloses, ClientJob, Allow, Deny,
           AuthorizerThrows, Forward, Sent, SendFails, Respond, Responded, ResponseFails,
           ServerAnswers, VersionRefused, Answer, AnswerJob, Deliver, Delivered, DeliveryFails,
           ServerMessage, NoticeJob, Relay, Relayed, RelayFails, vars, bridgeVars
      <4> QED
        BY <4>1
    <3> QED
      BY <3>1, <3>2
  <2>2. ~ ClientWrites
    BY <2>1 DEF DrainsAtEof, ClientWrites
  <2>3. request' = request /\ reply \subseteq reply'
    BY <2>2 DEF ProxyNext, InputEnds, Drain, InputBreaks, DrainSettles, Abort, Close,
       TransportError, PeerCloses, BridgeStep, Running, Starting, StartUpstream,
       StartDownstream, StartFails, Closing, BothClosed, EndCloses, ClientJob, Allow, Deny,
       AuthorizerThrows, Forward, Sent, SendFails, Respond, Responded, ResponseFails,
       ServerAnswers, VersionRefused, Answer, AnswerJob, Deliver, Delivered, DeliveryFails,
       ServerMessage, NoticeJob, Relay, Relayed, RelayFails, Draining, DrainChecks, DrainWakes,
       vars, bridgeVars
  <2> QED
    BY <1>2, <2>1, <2>3 DEF FreshDrainedMeansAnswered, DrainedMeansAnswered, Asked
<1> QED
  BY <1>3, <1>4

(* Only a step of a notice moves a notice. *)
LEMMA NoticesStay ==
    ASSUME [Next]_bridgeVars, ~ \E n \in Notices : ServerMessage(n) \/ NoticeJob(n)
    PROVE  UNCHANGED noticeVars
<1>1. CASE Starting \/ Closing \/ TransportError \/ Close \/ \E e \in Ends : PeerCloses(e)
  BY <1>1 DEF Starting, StartUpstream, StartDownstream, StartFails, Closing, BothClosed,
     EndCloses, TransportError, Close, PeerCloses
<1>2. CASE \E m \in Messages, r \in Requests : ClientMessage(m, r)
  BY <1>2 DEF ClientMessage, RejectDuplicate, RejectMalformed, AskAuthorizer, PassThrough, Receives
<1>3. CASE \E m \in Messages : ClientJob(m) \/ ServerAnswers(m) \/ AnswerJob(m)
  BY <1>3 DEF ClientJob, Allow, Deny, AuthorizerThrows, Forward, Sent, SendFails, Respond,
     Responded, ResponseFails, ServerAnswers, VersionRefused, Answer, AnswerJob, Deliver,
     Delivered, DeliveryFails
<1>4. CASE Drain \/ Draining
  BY <1>4 DEF Drain, Draining, DrainChecks, DrainWakes
<1>5. CASE UNCHANGED bridgeVars
  BY <1>5 DEF bridgeVars
<1> QED
  BY <1>1, <1>2, <1>3, <1>4, <1>5, StepCases

(* A client that uses each id once and closes its input loses no response. *)
THEOREM DrainedIsAnswered == ProxySpec => []FreshDrainedMeansAnswered
<1>1. ProxyInit => Init
  BY DEF ProxyInit
<1> QED
  BY <1>1, ProxyStep, BaseInit, BaseStep, FatesInit, FatesStep, SettledInit, SettledStep,
     HeldInit, HeldStep, EofInit, EofStep, DrainedInit, DrainedStep, PTL DEF ProxySpec

(* A message of the server's own is never related to a request whose       *)
(* response job has ended.                                                 *)
THEOREM RelatedIsLive == ProxySpec => RelatedRequestIsLive
<1>1. ProxyInit => Init
  BY DEF ProxyInit
<1>2. ASSUME Base, Paired, [ProxyNext]_vars
      PROVE  [\A n \in Notices :
                 Relates(n) /\ closing = "no" => answer[related'[n]] # "done"]_vars
  <2> SUFFICES ASSUME ProxyNext, NEW n \in Notices, Relates(n), closing = "no"
               PROVE  answer[related'[n]] # "done"
    BY <1>2
  <2>1. PICK x \in Notices : ServerMessage(x) \/ NoticeJob(x)
    BY ProxyStep, NoticesStay, <1>2 DEF Relates
  <2>2. Relay(n)
    BY <1>2, <2>1 DEF Relates, ServerMessage, NoticeJob, Relay, Relayed, RelayFails, Base, TypeOK
  <2>3. related'[n] = SolePendingRequest
    BY <1>2, <2>2 DEF Relay, Base, TypeOK
  <2>4. PICK k \in Ids : related'[n] = pendingResponses[k]
    BY <2>3 DEF Relates, SolePendingRequest
  <2> QED
    BY <1>2, <2>4 DEF Paired, Relates
<1> QED
  BY <1>1, <1>2, ProxyStep, BaseInit, BaseStep, PairedInit, PairedStep, PTL
     DEF ProxySpec, RelatedRequestIsLive

-----------------------------------------------------------------------------
(* The policy that answers authorize() and discover(): what holds of every *)
(* policy, every tool and every argument object.                           *)

(* Whatever authorize() allows, discover() shows. *)
LEMMA AuthorizedIsDiscoverable ==
    ASSUME NEW p \in ParsedPolicy, NEW name \in Names, NEW arguments \in CallArguments,
           Authorize(p, name, arguments)
    PROVE  Discover(p, name)
<1>1. ~ \E rule \in p.deny : rule.name = name /\ rule.conditions = {}
  <2>1. SUFFICES ASSUME NEW rule \in p.deny, rule.name = name, rule.conditions = {}
                 PROVE  FALSE
    OBVIOUS
  <2>2. RuleMatches(rule, name, arguments)
    BY <2>1 DEF RuleMatches
  <2> QED
    BY <2>2 DEF Authorize
<1>2. p.default = "allow" \/ \E rule \in p.allow : rule.name = name
  BY DEF Authorize, RuleMatches
<1> QED
  BY <1>1, <1>2 DEF Discover

(* What covers a rule matches whatever the rule matches. *)
LEMMA CoveringMatches ==
    ASSUME NEW rule \in ToolRule, NEW other \in ToolRule, Covers(rule, other),
           NEW name \in Names, NEW arguments \in CallArguments,
           RuleMatches(other, name, arguments)
    PROVE  RuleMatches(rule, name, arguments)
  BY DEF Covers, RuleMatches

(* The rules of a parsed policy are rules. *)
LEMMA RulesOfPolicy ==
    ASSUME NEW p \in ParsedPolicy
    PROVE  p.allow \subseteq ToolRule /\ p.deny \subseteq ToolRule
  BY DEF ParsedPolicy

(* A tighter policy authorizes no more. *)
LEMMA TighterAuthorizesLess ==
    ASSUME NEW from \in ParsedPolicy, NEW to \in ParsedPolicy, Tightens(from, to),
           NEW name \in Names, NEW arguments \in CallArguments,
           Authorize(to, name, arguments)
    PROVE  Authorize(from, name, arguments)
<1>1. ASSUME NEW rule \in from.deny, RuleMatches(rule, name, arguments)
      PROVE  FALSE
  <2>1. PICK new \in to.deny : Covers(new, rule)
    BY DEF Tightens
  <2>2. RuleMatches(new, name, arguments)
    BY <1>1, <2>1, CoveringMatches, RulesOfPolicy
  <2> QED
    BY <2>2 DEF Authorize
<1>2. CASE from.default = "allow"
  BY <1>1, <1>2 DEF Authorize
<1>3. CASE from.default # "allow"
  <2>1. PICK new \in to.allow : RuleMatches(new, name, arguments)
    BY <1>3 DEF Authorize, Tightens
  <2>2. PICK rule \in from.allow : Covers(rule, new)
    BY <1>3 DEF Tightens
  <2>3. RuleMatches(rule, name, arguments)
    BY <2>1, <2>2, CoveringMatches, RulesOfPolicy
  <2> QED
    BY <1>1, <2>3 DEF Authorize
<1> QED
  BY <1>2, <1>3

(* A tighter policy shows no more. *)
LEMMA TighterShowsLess ==
    ASSUME NEW from \in ParsedPolicy, NEW to \in ParsedPolicy, Tightens(from, to),
           NEW name \in Names, Discover(to, name)
    PROVE  Discover(from, name)
<1>1. ASSUME NEW rule \in from.deny, rule.name = name, rule.conditions = {}
      PROVE  FALSE
  <2>1. PICK new \in to.deny : Covers(new, rule)
    BY DEF Tightens
  <2>2. new.name = name /\ new.conditions = {}
    BY <1>1, <2>1 DEF Covers
  <2> QED
    BY <2>2 DEF Discover
<1>2. from.default = "allow" \/ \E rule \in from.allow : rule.name = name
  BY DEF Discover, Tightens, Covers
<1> QED
  BY <1>1, <1>2 DEF Discover

(* What a session has recorded is what its policy answers: an executed call *)
(* is one the policy authorizes, a visible tool one it shows; and what the  *)
(* history remembers as refused or hidden, also from earlier sessions, is   *)
(* still refused or hidden by the policy of this one.                       *)
Recorded ==
    /\ SessionTypeOK
    /\ \A call \in executed : Authorize(policy, call[1], call[2])
    /\ \A call \in refused : ~ Authorize(policy, call[1], call[2])
    /\ \A name \in visible : Discover(policy, name)
    /\ \A name \in hidden : ~ Discover(policy, name)

LEMMA RecordedInit == SessionInit => Recorded
  BY PoliciesAssumption DEF SessionInit, Recorded, SessionTypeOK

LEMMA RecordedStep == Recorded /\ [SessionNext]_sessionVars => Recorded'
<1> SUFFICES ASSUME Recorded, [SessionNext]_sessionVars
             PROVE  Recorded'
  OBVIOUS
<1>1. CASE List
  BY <1>1 DEF List, Recorded, SessionTypeOK
<1>2. ASSUME NEW call \in ClientCalls, CallAllowed(call)
      PROVE  Recorded'
  BY <1>2 DEF CallAllowed, Recorded, SessionTypeOK
<1>3. ASSUME NEW call \in ClientCalls, CallDenied(call)
      PROVE  Recorded'
  BY <1>3 DEF CallDenied, Recorded, SessionTypeOK
<1>4. ASSUME NEW edited \in Policies, Restart(edited)
      PROVE  Recorded'
  <2>1. policy \in ParsedPolicy /\ edited \in ParsedPolicy
    BY PoliciesAssumption DEF Recorded, SessionTypeOK
  <2>2. SessionTypeOK'
    BY <1>4, <2>1 DEF Restart, Recorded, SessionTypeOK
  <2>3. ASSUME Tightens(policy, edited)
        PROVE  /\ \A call \in refused : ~ Authorize(edited, call[1], call[2])
               /\ \A name \in hidden : ~ Discover(edited, name)
    <3>1. ASSUME NEW call \in refused
          PROVE  ~ Authorize(edited, call[1], call[2])
      <4>1. call[1] \in Names /\ call[2] \in CallArguments
        BY ClientCallsAssumption DEF Recorded, SessionTypeOK
      <4> QED
        BY <2>1, <2>3, <4>1, TighterAuthorizesLess DEF Recorded
    <3>2. ASSUME NEW name \in hidden
          PROVE  ~ Discover(edited, name)
      BY <2>1, <2>3, TighterShowsLess DEF Recorded, SessionTypeOK
    <3> QED
      BY <3>1, <3>2
  <2> QED
    BY <1>4, <2>2, <2>3 DEF Restart, Recorded
<1>5. CASE UNCHANGED sessionVars
  BY <1>5 DEF sessionVars, Recorded, SessionTypeOK
<1> QED
  BY <1>1, <1>2, <1>3, <1>4, <1>5 DEF SessionNext

(* Tools hidden by discovery are never executed, under any policy. *)
THEOREM HiddenNeverExecuted == SessionSpec => []HiddenToolsNeverExecuted
<1>1. Recorded => HiddenToolsNeverExecuted
  <2> SUFFICES ASSUME Recorded, NEW call \in executed
               PROVE  Discover(policy, call[1])
    BY DEF HiddenToolsNeverExecuted
  <2>1. policy \in ParsedPolicy /\ call[1] \in Names /\ call[2] \in CallArguments
    BY ClientCallsAssumption DEF Recorded, SessionTypeOK
  <2> QED
    BY <2>1, AuthorizedIsDiscoverable DEF Recorded
<1> QED
  BY <1>1, RecordedInit, RecordedStep, PTL DEF SessionSpec

(* Whatever the rules and their conditions are, and however often the proxy *)
(* is started again: a call that was refused and a tool that was hidden     *)
(* stay so until an edit loosens the policy.                                *)
THEOREM RefusalsLast == SessionSpec => []TighteningOpensNothing
<1>1. Recorded => TighteningOpensNothing
  BY DEF Recorded, TighteningOpensNothing
<1> QED
  BY <1>1, RecordedInit, RecordedStep, PTL DEF SessionSpec
=============================================================================
