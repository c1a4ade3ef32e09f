------------------------------- MODULE RpcProxy -------------------------------
(***************************************************************************)
(* Remote calls over a service channel that is closed and opened again:    *)
(* the caller's RpcProxyFactory (proxy-factory.ts) and, on each channel, an *)
(* RpcProtocol (rpc-protocol.ts) at both sides.  Channels are numbered in  *)
(* the order ServiceConnectionProvider opens them for the proxy; the two   *)
(* sides learn independently that one is closed.  Calls go one way: the    *)
(* protocol is symmetric, and the two directions share no state.           *)
(***************************************************************************)
EXTENDS Naturals, Sequences

CONSTANTS
  Call,            \* calls made on the proxy
  Notification,    \* those of methods named notify... or on...
  Cancellable,     \* those whose last argument is a cancellation token
  Patient,         \* those whose handler may wait until its token is cancelled
  CallerOverflows, \* the caller's write buffer may refuse a message
  ServerOverflows, \* the server's write buffer may refuse a message
  MaxChannels      \* bound: channels opened for the proxy

ASSUME CallsAssumption ==
  /\ Notification \subseteq Call /\ Cancellable \subseteq Call
  /\ Patient \subseteq Cancellable
  /\ Notification \cap Cancellable = {}
ASSUME OverflowAssumption == CallerOverflows \in BOOLEAN /\ ServerOverflows \in BOOLEAN
ASSUME BoundAssumption == MaxChannels \in Nat

Channel == 1 .. MaxChannels

(* The outcomes of committing a message to a write buffer.                  *)
CallerCommit == {TRUE} \cup {~CallerOverflows}
ServerCommit == {TRUE} \cup {~ServerOverflows}

(* What a message says of its call beyond its id is for the properties.     *)
RpcMessageType == {"Request", "Notification", "Cancel", "Reply", "ReplyErr"}
RpcMessage == [type : RpcMessageType, id : Nat, call : Call]

VARIABLES
  \* the caller
  channels,            \* channels opened so far
  connected,           \* the last of them is open at the caller's side
  rpcDeferred,         \* channel of the protocol it was resolved with
  queue,               \* calls that wait for rpcDeferred
  state,               \* call -> what its caller knows
  answer,              \* call -> the calls whose results it was given
  cancelled,           \* calls whose token was cancelled
  dropped,             \* calls a cancel or an answer of which was not written
  nextMessageId,       \* of the protocol on the last channel, as the next two
  pendingRequests,
  cancellationListeners,
  \* the channels
  up, down,            \* channel -> messages to the server, to the caller
  serving,             \* channels open at the server's side
  \* the server
  handlers,            \* request handlers that run
  tokenSources,        \* cancellationTokenSources
  tokensCancelled,     \* requests whose handler's token was cancelled
  started              \* calls in the order they were started

caller   == <<rpcDeferred, queue, state, answer, cancelled>>
protocol == <<nextMessageId, pendingRequests, cancellationListeners>>
server   == <<handlers, tokenSources, tokensCancelled, started>>
vars     == <<channels, connected, caller, protocol, up, down, serving, server,
              dropped>>

-----------------------------------------------------------------------------
Init ==
  /\ channels = 0 /\ connected = FALSE /\ rpcDeferred = 0
  /\ queue = <<>>
  /\ state = [c \in Call |-> "idle"] /\ answer = [c \in Call |-> {}]
  /\ cancelled = {} /\ dropped = {}
  /\ nextMessageId = 0 /\ pendingRequests = {} /\ cancellationListeners = {}
  /\ up = [g \in Channel |-> <<>>] /\ down = [g \in Channel |-> <<>>]
  /\ serving = {}
  /\ handlers = {} /\ tokenSources = {} /\ tokensCancelled = {} /\ started = <<>>

Push(queues, g, type, id, c) ==
  [queues EXCEPT ![g] = Append(@, [type |-> type, id |-> id, call |-> c])]

(* What is written to a channel the other side has closed is lost.          *)
ToServer(queues, g, type, id, c) ==
  IF g \in serving THEN Push(queues, g, type, id, c) ELSE queues

-----------------------------------------------------------------------------
(* The caller.                                                              *)

\* RpcProxyFactory.listen: a channel is open and has a new protocol, with
\* maps of its own; the calls that wait may go.
Listen ==
  /\ ~connected /\ channels < MaxChannels
  /\ channels' = channels + 1 /\ connected' = TRUE
  /\ serving' = serving \cup {channels + 1}
  /\ nextMessageId' = 0 /\ pendingRequests' = {} /\ cancellationListeners' = {}
  /\ rpcDeferred' = IF rpcDeferred = 0 THEN channels + 1 ELSE rpcDeferred
  /\ UNCHANGED <<queue, state, answer, cancelled, up, down, server, dropped>>

\* A method of the proxy is called.
MakeCall(c) ==
  /\ state[c] = "idle"
  /\ state' = [state EXCEPT ![c] = "waiting"]
  /\ queue' = Append(queue, c)
  /\ UNCHANGED <<channels, connected, rpcDeferred, answer, cancelled, protocol, up,
                 down, serving, server, dropped>>

\* sendNotification: done once it is written, failed if it cannot be.
SendNotification(c, written) ==
  /\ state' = [state EXCEPT ![c] = IF written THEN "resolved" ELSE "rejected"]
  /\ up' = IF written THEN ToServer(up, rpcDeferred, "Notification", nextMessageId, c) ELSE up
  /\ nextMessageId' = nextMessageId + 1
  /\ UNCHANGED <<pendingRequests, cancellationListeners, dropped>>

\* Mistake: the id is not counted up.
SendRequestSameId(c, written, cancelWritten) ==
  /\ LET id == nextMessageId
     IN /\ state' = [state EXCEPT ![c] = "sent"]
        /\ pendingRequests' = {r \in pendingRequests : r.id # id}
                                \cup {[id |-> id, call |-> c]}
        /\ cancellationListeners' = cancellationListeners \cup {id}
        /\ up' = ToServer(up, rpcDeferred, "Request", id, c)
  /\ UNCHANGED <<nextMessageId, dropped>>

\* Mistake: the token is looked at before the request is written.
SendRequestCancelFirst(c, written, cancelWritten) ==
  LET id     == nextMessageId
      cancel == IF c \in cancelled /\ cancelWritten
                THEN ToServer(up, rpcDeferred, "Cancel", id, c) ELSE up
      sent   == written /\ (c \in cancelled => cancelWritten)
  IN /\ nextMessageId' = id + 1
     /\ IF sent
        THEN /\ pendingRequests' = pendingRequests \cup {[id |-> id, call |-> c]}
             /\ cancellationListeners' = cancellationListeners \cup {id}
        ELSE UNCHANGED <<pendingRequests, cancellationListeners>>
     /\ up' = IF sent THEN ToServer(cancel, rpcDeferred, "Request", id, c) ELSE cancel
     /\ state' = [state EXCEPT ![c] = IF sent THEN "sent" ELSE "rejected"]
     /\ UNCHANGED dropped

\* sendRequest: a request that cannot be written is forgotten and rejected.
\* If the token is cancelled already, a cancel follows at once; should that
\* fail, the call is rejected with its request under way.
SendRequest(c, written, cancelWritten) ==
  LET id      == nextMessageId
      request == ToServer(up, rpcDeferred, "Request", id, c)
  IN /\ nextMessageId' = id + 1
     /\ IF written
        THEN /\ pendingRequests' = pendingRequests \cup {[id |-> id, call |-> c]}
             /\ cancellationListeners' = cancellationListeners \cup {id}
        ELSE UNCHANGED <<pendingRequests, cancellationListeners>>
     /\ up' = IF ~written THEN up
              ELSE IF c \in cancelled /\ cancelWritten
                   THEN ToServer(request, rpcDeferred, "Cancel", id, c)
                   ELSE request
     /\ state' = [state EXCEPT ![c] = IF written /\ (c \in cancelled => cancelWritten)
                                      THEN "sent" ELSE "rejected"]
     /\ UNCHANGED dropped

\* rpcDeferred.promise.then(...): the calls go in the order they were made.
Send ==
  /\ queue # <<>> /\ rpcDeferred # 0
  /\ queue' = Tail(queue)
  /\ LET c == Head(queue)
     IN \E written, cancelWritten \in CallerCommit :
          IF c \in Notification THEN SendNotification(c, written)
                                ELSE SendRequest(c, written, cancelWritten)
  /\ UNCHANGED <<channels, connected, rpcDeferred, answer, cancelled, down,
                 serving, server>>

\* The caller cancels the token; the listener of a pending request writes a
\* cancel, if it can.
Cancel(c) ==
  /\ c \in Cancellable \ cancelled
  /\ state[c] \in {"waiting", "sent"}
  /\ cancelled' = cancelled \cup {c}
  /\ LET listening == {r \in pendingRequests : r.call = c /\ r.id \in cancellationListeners}
     IN IF listening = {}
        THEN UNCHANGED <<up, dropped>>
        ELSE \E r \in listening, written \in CallerCommit :
               /\ up' = IF written THEN ToServer(up, channels, "Cancel", r.id, c) ELSE up
               /\ dropped' = IF written THEN dropped ELSE dropped \cup {c}
  /\ UNCHANGED <<channels, connected, rpcDeferred, queue, state, answer, protocol,
                 down, serving, server>>

\* Mistake: the listener stays.
HandleReplyKeepingListener(message) ==
  /\ state' = [c \in Call |->
                 IF [id |-> message.id, call |-> c] \in pendingRequests /\ state[c] = "sent"
                 THEN IF message.type = "Reply" THEN "resolved" ELSE "rejected"
                 ELSE state[c]]
  /\ answer' = [c \in Call |->
                  IF [id |-> message.id, call |-> c] \in pendingRequests /\ state[c] = "sent"
                  THEN answer[c] \cup {message.call} ELSE answer[c]]
  /\ pendingRequests' = {r \in pendingRequests : r.id # message.id}
  /\ UNCHANGED cancellationListeners

\* handleReply, handleReplyErr: a reply nobody waits for is ignored.
HandleReply(message) ==
  LET mine(c) == [id |-> message.id, call |-> c] \in pendingRequests /\ state[c] = "sent"
  IN /\ state' = [c \in Call |->
                    IF mine(c) THEN IF message.type = "Reply" THEN "resolved" ELSE "rejected"
                               ELSE state[c]]
     /\ answer' = [c \in Call |-> IF mine(c) THEN answer[c] \cup {message.call} ELSE answer[c]]
     /\ pendingRequests' = {r \in pendingRequests : r.id # message.id}
     /\ cancellationListeners' = cancellationListeners \ {message.id}

ReceiveReply ==
  /\ connected /\ down[channels] # <<>>
  /\ HandleReply(Head(down[channels]))
  /\ down' = [down EXCEPT ![channels] = Tail(@)]
  /\ UNCHANGED <<channels, connected, rpcDeferred, queue, cancelled, nextMessageId,
                 up, serving, server, dropped>>

UnderWay(c) == state[c] = "sent" /\ \E r \in pendingRequests : r.call = c

\* Mistake: a call that was under way is made again.
RetryPending ==
  /\ state' = [c \in Call |-> IF UnderWay(c) THEN "waiting" ELSE state[c]]
  /\ IF \E c \in Call : UnderWay(c)
     THEN \E c \in Call : UnderWay(c) /\ queue' = <<c>> \o queue
     ELSE UNCHANGED queue
  /\ pendingRequests' = {} /\ cancellationListeners' = {}

\* RpcProtocol's onClose: what is under way is rejected.
RejectPending ==
  /\ state' = [c \in Call |-> IF UnderWay(c) THEN "rejected" ELSE state[c]]
  /\ pendingRequests' = {} /\ cancellationListeners' = {}
  /\ UNCHANGED queue

\* Mistake: calls go on to the closed channel's protocol.
KeepDeferred == UNCHANGED rpcDeferred

\* waitForConnection
RenewDeferred == rpcDeferred' = 0

\* The caller learns that the channel is closed.
ChannelClosed ==
  /\ connected
  /\ channels < MaxChannels  \* bound: the last channel stays open
  /\ connected' = FALSE
  /\ RejectPending
  /\ RenewDeferred
  /\ down' = [down EXCEPT ![channels] = <<>>]
  /\ UNCHANGED <<channels, answer, cancelled, nextMessageId, up, serving, server,
                 dropped>>

-----------------------------------------------------------------------------
(* The server.                                                              *)

Request(g, message) == [channel |-> g, id |-> message.id, call |-> message.call]

\* Mistake: the message is stored in place of the token source.
HandleRequestStoringMessage(g, message) ==
  /\ handlers' = handlers \cup {Request(g, message)}
  /\ tokenSources' = tokenSources \cup {message}
  /\ started' = Append(started, message.call)
  /\ UNCHANGED tokensCancelled

\* handleRequest, up to the call of the request handler.
HandleRequest(g, message) ==
  /\ handlers' = handlers \cup {Request(g, message)}
  /\ tokenSources' = IF message.call \in Cancellable
                     THEN tokenSources \cup {Request(g, message)} ELSE tokenSources
  /\ started' = Append(started, message.call)
  /\ UNCHANGED tokensCancelled

\* Mistake: the token sources of all protocols are in one map.
HandleCancelOnAnyChannel(g, message) ==
  /\ tokensCancelled' = tokensCancelled \cup {r \in tokenSources : r.id = message.id}
  /\ UNCHANGED <<handlers, tokenSources, started>>

HandleCancel(g, message) ==
  /\ tokensCancelled' = tokensCancelled
       \cup {r \in tokenSources : r.channel = g /\ r.id = message.id}
  /\ UNCHANGED <<handlers, tokenSources, started>>

HandleNotify(g, message) ==
  /\ started' = Append(started, message.call)
  /\ UNCHANGED <<handlers, tokenSources, tokensCancelled>>

ReceiveRequest(g) ==
  /\ g \in serving /\ up[g] # <<>>
  /\ LET message == Head(up[g])
     IN \/ message.type = "Request" /\ HandleRequest(g, message)
        \/ message.type = "Cancel" /\ HandleCancel(g, message)
        \/ message.type = "Notification" /\ HandleNotify(g, message)
  /\ up' = [up EXCEPT ![g] = Tail(@)]
  /\ UNCHANGED <<channels, connected, caller, protocol, down, serving, dropped>>

\* What is written to a channel that either side has closed is lost.
Answer(r, type) ==
  down' = IF r.channel \in serving /\ connected /\ r.channel = channels
          THEN Push(down, r.channel, type, r.id, r.call) ELSE down

\* The request handler has returned or thrown.  A reply that cannot be
\* written makes for an error reply; if that cannot be written either there
\* is no answer.
Finish(r) ==
  /\ r \in handlers
  /\ handlers' = handlers \ {r}
  /\ tokenSources' = tokenSources \ {r}
  /\ \/ (Answer(r, "Reply") \/ Answer(r, "ReplyErr")) /\ UNCHANGED dropped
     \/ /\ FALSE \in ServerCommit
        /\ dropped' = dropped \cup {r.call}
        /\ UNCHANGED down
  /\ UNCHANGED <<channels, connected, caller, protocol, up, serving, tokensCancelled,
                 started>>

\* The server learns that the channel is closed: it hears no more of it, and
\* lets the handlers run.
ServerChannelClosed(g) ==
  /\ g \in serving
  /\ channels < MaxChannels \/ g # channels  \* bound: the last channel stays open
  /\ serving' = serving \ {g}
  /\ up' = [up EXCEPT ![g] = <<>>]
  /\ UNCHANGED <<channels, connected, caller, protocol, down, server, dropped>>

-----------------------------------------------------------------------------
Next ==
  \/ Listen \/ Send \/ ReceiveReply \/ ChannelClosed
  \/ \E c \in Call : MakeCall(c) \/ Cancel(c)
  \/ \E g \in Channel : ReceiveRequest(g) \/ ServerChannelClosed(g)
  \/ \E r \in handlers : Finish(r)

Spec == Init /\ [][Next]_vars

(* A channel is opened again after it was closed (FrontendConnection has   *)
(* Recovers), what it delivers is handled, a side learns that the other has *)
(* closed it, promises run their callbacks.  A request handler returns,     *)
(* a patient one once its token is cancelled.                               *)
Fairness ==
  /\ WF_vars(Listen) /\ WF_vars(Send) /\ WF_vars(ReceiveReply)
  /\ WF_vars(channels \notin serving /\ ChannelClosed)
  /\ \A g \in Channel : WF_vars(ReceiveRequest(g))
  /\ \A c \in Call \ Patient :
       WF_vars(\E r \in handlers : r.call = c /\ Finish(r))
  /\ \A c \in Patient :
       WF_vars(\E r \in handlers \cap tokensCancelled : r.call = c /\ Finish(r))

FairSpec == Spec /\ Fairness

-----------------------------------------------------------------------------
RequestType == [channel : Channel, id : Nat, call : Call]

TypeOK ==
  /\ channels \in 0 .. MaxChannels /\ rpcDeferred \in 0 .. MaxChannels
  /\ connected \in BOOLEAN
  /\ queue \in Seq(Call)
  /\ state \in [Call -> {"idle", "waiting", "sent", "resolved", "rejected"}]
  /\ answer \in [Call -> SUBSET Call]
  /\ cancelled \subseteq Cancellable /\ dropped \subseteq Call
  /\ nextMessageId \in Nat
  /\ pendingRequests \subseteq [id : Nat, call : Call]
  /\ cancellationListeners \subseteq Nat
  /\ up \in [Channel -> Seq(RpcMessage)] /\ down \in [Channel -> Seq(RpcMessage)]
  /\ serving \subseteq Channel
  /\ handlers \subseteq RequestType /\ tokenSources \subseteq RequestType
  /\ tokensCancelled \subseteq RequestType
  /\ started \in Seq(Call)

\* A call is given the result of its own execution and of no other, also
\* when ids begin again on the next channel.
AnswerIsOwn == \A c \in Call : answer[c] \subseteq {c}

\* A call is executed at most once, whatever is closed while it is under way.
AtMostOnce ==
  \A i, j \in 1 .. Len(started) : started[i] = started[j] => i = j

\* The calls under way are in the map of the protocol in use, each with a
\* cancellation listener, and no listener is left of any other.
PendingTracked ==
  /\ \A c \in Call : state[c] = "sent" => connected /\ UnderWay(c)
  /\ cancellationListeners = {r.id : r \in pendingRequests}

\* A handler that may be cancelled has a token source, kept while it runs.
TokensOfHandlers == tokenSources = {r \in handlers : r.call \in Cancellable}

\* Both sides' maps hold what is under way and nothing else: no entry is lost
\* while it is needed, none is left behind.
EntriesTracked == PendingTracked /\ TokensOfHandlers

\* A handler sees its token cancelled only if its own caller has cancelled it.
CancelIsOwn == \A r \in tokensCancelled : r.call \in cancelled

Is(message, types, r) ==
  message.type \in types /\ message.id = r.id /\ message.call = r.call
Holds(q, types, r) == \E i \in 1 .. Len(q) : Is(q[i], types, r)
CancelBehind(q, r) ==
  \E i, j \in 1 .. Len(q) :
    i < j /\ Is(q[i], {"Request"}, r) /\ Is(q[j], {"Cancel"}, r)

Running(r)  == [channel |-> channels, id |-> r.id, call |-> r.call]
Answered(r) == Holds(down[channels], {"Reply", "ReplyErr"}, r)

\* The request, its handler or its answer is there ...
Awaited(r) ==
  Holds(up[channels], {"Request"}, r) \/ Running(r) \in handlers \/ Answered(r)

\* ... and the cancel has not overtaken the request.
CancelComes(r) ==
  \/ CancelBehind(up[channels], r)
  \/ /\ Running(r) \in tokenSources
     /\ Running(r) \in tokensCancelled \/ Holds(up[channels], {"Cancel"}, r)
  \/ Answered(r)

\* Of every call that is neither resolved nor rejected something is left that
\* will settle it: it is in the queue, or its request, its handler or its
\* answer is on the open channel, or the channel is closed at the other side
\* and the call will be rejected.  Once it is cancelled its handler will be
\* told.  The exception are calls a cancel or an answer of which was not written.
Accounted ==
  \A c \in Call :
    /\ state[c] = "waiting" => \E i \in 1 .. Len(queue) : queue[i] = c
    /\ state[c] = "sent" =>
         \E r \in pendingRequests :
           /\ r.call = c
           /\ \/ channels \notin serving \/ c \in dropped
              \/ Awaited(r) /\ (c \in cancelled => CancelComes(r))

Settled(c) == state[c] \in {"resolved", "rejected"}

\* A call is resolved or rejected in the end; one whose handler waits for its
\* token, once it is cancelled.  The exception are calls whose answer could
\* not be written: nor can the error reply in its place (rpc-protocol.ts:258).
CallsSettle ==
  /\ \A c \in Call \ Patient : state[c] # "idle" ~> Settled(c) \/ c \in dropped
  /\ \A c \in Patient : c \in cancelled ~> Settled(c) \/ c \in dropped
=============================================================================
