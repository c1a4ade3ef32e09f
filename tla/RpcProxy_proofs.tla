---------------------------- MODULE RpcProxy_proofs ----------------------------
(***************************************************************************)
(* Proofs about RpcProxy for any calls, any number of channels, and write  *)
(* buffers that refuse messages or do not.                                 *)
(***************************************************************************)
EXTENDS RpcProxy, TLAPS

(* The calls that wait go to the open channel, if they can go.              *)
DeferredIsLast ==
  /\ connected => channels # 0
  /\ rpcDeferred # 0 => connected /\ rpcDeferred = channels

Carries(q, r) == \E i \in 1 .. Len(q) : q[i].id = r.id /\ q[i].call = r.call

(* The request r is on its channel's way, or kept at one of its sides.      *)
KnownAs(r) ==
  \/ r \in handlers \/ r \in tokenSources \/ r \in tokensCancelled
  \/ r.channel = channels /\ [id |-> r.id, call |-> r.call] \in pendingRequests
  \/ Carries(up[r.channel], r) \/ Carries(down[r.channel], r)

(* On one channel an id stands for one call, and the next id for none.      *)
IdsOwn ==
  \A r, s \in RequestType :
    KnownAs(r) /\ KnownAs(s) /\ r.channel = s.channel /\ r.id = s.id => r = s

Numbered ==
  \A r \in RequestType :
    KnownAs(r) => \/ r.channel < channels
                  \/ r.channel = channels /\ r.id < nextMessageId

Ids == IdsOwn /\ Numbered

(* A cancel under way is of a call its caller has cancelled.                *)
CancelsOwn ==
  \A g \in Channel : \A i \in 1 .. Len(up[g]) :
    up[g][i].type = "Cancel" => up[g][i].call \in cancelled

(* A call waits, or is on its way to be started, or has been started, once. *)
Starts(message) == message.type \in {"Request", "Notification"}
Gone(s, c) == s[c] \in {"sent", "resolved", "rejected"}

QueuedOnce ==
  /\ \A i \in 1 .. Len(queue) : state[queue[i]] = "waiting"
  /\ \A i, j \in 1 .. Len(queue) : queue[i] = queue[j] => i = j

UnderWayOnce ==
  /\ \A g \in Channel : \A i \in 1 .. Len(up[g]) :
       Starts(up[g][i]) => /\ Gone(state, up[g][i].call)
                           /\ \A k \in 1 .. Len(started) : started[k] # up[g][i].call
  /\ \A g, h \in Channel : \A i \in 1 .. Len(up[g]), j \in 1 .. Len(up[h]) :
       Starts(up[g][i]) /\ Starts(up[h][j]) /\ up[g][i].call = up[h][j].call
       => g = h /\ i = j

StartedOnce ==
  /\ \A k \in 1 .. Len(started) : Gone(state, started[k])
  /\ AtMostOnce

Once == QueuedOnce /\ UnderWayOnce /\ StartedOnce

Inv ==
  /\ TypeOK /\ DeferredIsLast /\ PendingTracked /\ TokensOfHandlers
  /\ Ids /\ CancelsOwn /\ CancelIsOwn /\ AnswerIsOwn
  /\ Once

-----------------------------------------------------------------------------
(* Queues of messages.                                                      *)

LEMMA AppendAt ==
  ASSUME NEW S, NEW q \in Seq(S), NEW e \in S
  PROVE  /\ Append(q, e) \in Seq(S)
         /\ Len(Append(q, e)) = Len(q) + 1
         /\ Append(q, e)[Len(q) + 1] = e
         /\ \A i \in 1 .. Len(Append(q, e)) :
              \/ i \in 1 .. Len(q) /\ Append(q, e)[i] = q[i]
              \/ i = Len(q) + 1 /\ Append(q, e)[i] = e
  OBVIOUS

LEMMA TailAt ==
  ASSUME NEW S, NEW q \in Seq(S), q # <<>>
  PROVE  /\ Head(q) \in S /\ Tail(q) \in Seq(S)
         /\ 1 \in 1 .. Len(q) /\ Head(q) = q[1]
         /\ \A i \in 1 .. Len(Tail(q)) : i + 1 \in 2 .. Len(q) /\ Tail(q)[i] = q[i + 1]
  OBVIOUS

LEMMA PushAt ==
  ASSUME NEW queues \in [Channel -> Seq(RpcMessage)], NEW g \in Channel,
         NEW type \in RpcMessageType, NEW id \in Nat, NEW c \in Call
  PROVE  LET message == [type |-> type, id |-> id, call |-> c]
             pushed  == Push(queues, g, type, id, c)
         IN /\ pushed \in [Channel -> Seq(RpcMessage)]
            /\ \A h \in Channel : \A i \in 1 .. Len(pushed[h]) :
                 \/ i \in 1 .. Len(queues[h]) /\ pushed[h][i] = queues[h][i]
                 \/ h = g /\ i = Len(queues[g]) + 1 /\ pushed[h][i] = message
<1> DEFINE message == [type |-> type, id |-> id, call |-> c]
           pushed  == Push(queues, g, type, id, c)
<1>1. message \in RpcMessage
  BY DEF RpcMessage
<1>2. pushed = [queues EXCEPT ![g] = Append(@, message)]
  BY DEF Push
<1> HIDE DEF message
<1>3. pushed \in [Channel -> Seq(RpcMessage)]
  <2>1. Append(queues[g], message) \in Seq(RpcMessage)
    BY <1>1, AppendAt
  <2> QED BY <1>2, <2>1
<1>4. ASSUME NEW h \in Channel, NEW i \in 1 .. Len(pushed[h])
      PROVE  \/ i \in 1 .. Len(queues[h]) /\ pushed[h][i] = queues[h][i]
             \/ h = g /\ i = Len(queues[g]) + 1 /\ pushed[h][i] = message
  <2>1. CASE h = g
    <3>1. pushed[h] = Append(queues[g], message)
      BY <1>2, <2>1
    <3> QED BY <1>1, <2>1, <3>1, AppendAt
  <2>2. CASE h # g
    BY <1>2, <2>2
  <2> QED BY <2>1, <2>2
<1> QED BY <1>3, <1>4 DEF message

LEMMA ToServerAt ==
  ASSUME NEW queues \in [Channel -> Seq(RpcMessage)], NEW g \in Channel,
         NEW type \in RpcMessageType, NEW id \in Nat, NEW c \in Call
  PROVE  LET message == [type |-> type, id |-> id, call |-> c]
             pushed  == ToServer(queues, g, type, id, c)
         IN /\ pushed \in [Channel -> Seq(RpcMessage)]
            /\ \A h \in Channel : \A i \in 1 .. Len(pushed[h]) :
                 \/ i \in 1 .. Len(queues[h]) /\ pushed[h][i] = queues[h][i]
                 \/ h = g /\ i = Len(queues[g]) + 1 /\ pushed[h][i] = message
<1>1. CASE g \in serving
  BY <1>1, PushAt DEF ToServer
<1>2. CASE g \notin serving
  BY <1>2 DEF ToServer
<1> QED BY <1>1, <1>2

LEMMA PopAt ==
  ASSUME NEW queues \in [Channel -> Seq(RpcMessage)], NEW g \in Channel, queues[g] # <<>>
  PROVE  LET popped == [queues EXCEPT ![g] = Tail(@)]
         IN /\ popped \in [Channel -> Seq(RpcMessage)]
            /\ Head(queues[g]) \in RpcMessage
            /\ 1 \in 1 .. Len(queues[g]) /\ Head(queues[g]) = queues[g][1]
            /\ \A h \in Channel : \A i \in 1 .. Len(popped[h]) :
                 \/ h # g /\ i \in 1 .. Len(queues[h]) /\ popped[h][i] = queues[h][i]
                 \/ /\ h = g /\ i + 1 \in 2 .. Len(queues[h])
                    /\ popped[h][i] = queues[h][i + 1]
<1> DEFINE popped == [queues EXCEPT ![g] = Tail(@)]
<1>1. /\ Head(queues[g]) \in RpcMessage /\ Tail(queues[g]) \in Seq(RpcMessage)
      /\ 1 \in 1 .. Len(queues[g]) /\ Head(queues[g]) = queues[g][1]
      /\ \A i \in 1 .. Len(Tail(queues[g])) :
           i + 1 \in 2 .. Len(queues[g]) /\ Tail(queues[g])[i] = queues[g][i + 1]
  BY TailAt
<1>2. popped \in [Channel -> Seq(RpcMessage)]
  BY <1>1
<1>3. ASSUME NEW h \in Channel, NEW i \in 1 .. Len(popped[h])
      PROVE  \/ h # g /\ i \in 1 .. Len(queues[h]) /\ popped[h][i] = queues[h][i]
             \/ /\ h = g /\ i + 1 \in 2 .. Len(queues[h])
                /\ popped[h][i] = queues[h][i + 1]
  <2>1. CASE h = g
    <3>1. popped[h] = Tail(queues[h])
      BY <2>1
    <3> QED BY <1>1, <2>1, <3>1
  <2>2. CASE h # g
    BY <2>2
  <2> QED BY <2>1, <2>2
<1> QED BY <1>1, <1>2, <1>3

LEMMA ClearAt ==
  ASSUME NEW queues \in [Channel -> Seq(RpcMessage)], NEW g \in Channel
  PROVE  LET cleared == [queues EXCEPT ![g] = <<>>]
         IN /\ cleared \in [Channel -> Seq(RpcMessage)]
            /\ \A h \in Channel : \A i \in 1 .. Len(cleared[h]) :
                 h # g /\ i \in 1 .. Len(queues[h]) /\ cleared[h][i] = queues[h][i]
<1> DEFINE cleared == [queues EXCEPT ![g] = <<>>]
<1>1. <<>> \in Seq(RpcMessage) /\ Len(<<>>) = 0
  OBVIOUS
<1>2. cleared \in [Channel -> Seq(RpcMessage)]
  BY <1>1
<1>3. ASSUME NEW h \in Channel, NEW i \in 1 .. Len(cleared[h])
      PROVE  h # g /\ i \in 1 .. Len(queues[h]) /\ cleared[h][i] = queues[h][i]
  <2>1. CASE h = g
    <3>1. cleared[h] = <<>>
      BY <2>1
    <3> QED BY <1>1, <3>1
  <2>2. CASE h # g
    BY <2>2
  <2> QED BY <2>1, <2>2
<1> QED BY <1>2, <1>3

-----------------------------------------------------------------------------
(* What Send puts on the open channel: messages of the first call that     *)
(* waits, under the next id, and among them no more than one that starts it. *)

Added(g, i, c) ==
  /\ g = channels /\ up'[g][i].id = nextMessageId /\ up'[g][i].call = c
  /\ Starts(up'[g][i]) => i = Len(up[g]) + 1
  /\ up'[g][i].type = "Cancel" => c \in cancelled

Adds(c) ==
  \A g \in Channel : \A i \in 1 .. Len(up'[g]) :
    \/ i \in 1 .. Len(up[g]) /\ up'[g][i] = up[g][i]
    \/ Added(g, i, c)

LEMMA DeferredIsChannel ==
  ASSUME TypeOK, DeferredIsLast, rpcDeferred # 0
  PROVE  rpcDeferred = channels /\ channels \in Channel /\ connected
  BY BoundAssumption DEF TypeOK, DeferredIsLast, Channel

LEMMA DeferredTypes ==
  ASSUME TypeOK, DeferredIsLast, rpcDeferred # 0
  PROVE  /\ rpcDeferred \in Channel /\ nextMessageId \in Nat
         /\ up \in [Channel -> Seq(RpcMessage)]
  BY DeferredIsChannel DEF TypeOK

LEMMA NotificationAdds ==
  ASSUME TypeOK, DeferredIsLast, rpcDeferred # 0, NEW c \in Call, NEW written \in BOOLEAN,
         SendNotification(c, written)
  PROVE  up' \in [Channel -> Seq(RpcMessage)] /\ Adds(c)
<1>1. CASE written
  <2>1. "Notification" \in RpcMessageType
    BY DEF RpcMessageType
  <2> DEFINE pushed == ToServer(up, rpcDeferred, "Notification", nextMessageId, c)
  <2>2. /\ pushed \in [Channel -> Seq(RpcMessage)]
        /\ \A h \in Channel : \A i \in 1 .. Len(pushed[h]) :
             \/ i \in 1 .. Len(up[h]) /\ pushed[h][i] = up[h][i]
             \/ /\ h = rpcDeferred /\ i = Len(up[rpcDeferred]) + 1
                /\ pushed[h][i] = [type |-> "Notification", id |-> nextMessageId, call |-> c]
    <3>1. /\ rpcDeferred \in Channel /\ nextMessageId \in Nat
          /\ up \in [Channel -> Seq(RpcMessage)]
      BY DeferredTypes
    <3> QED BY <2>1, <3>1, ToServerAt, SMTT(60)
  <2>3. up' = pushed
    BY <1>1 DEF SendNotification
  <2> HIDE DEF pushed
  <2> QED BY <2>2, <2>3, DeferredIsChannel DEF Adds, Added
<1>2. CASE ~written
  BY <1>2 DEF SendNotification, TypeOK, Adds
<1> QED BY <1>1, <1>2

LEMMA RequestAdds ==
  ASSUME TypeOK, DeferredIsLast, rpcDeferred # 0, NEW c \in Call,
         NEW written \in BOOLEAN, NEW cancelWritten \in BOOLEAN,
         SendRequest(c, written, cancelWritten)
  PROVE  up' \in [Channel -> Seq(RpcMessage)] /\ Adds(c)
<1> DEFINE request == ToServer(up, rpcDeferred, "Request", nextMessageId, c)
           cancel  == ToServer(request, rpcDeferred, "Cancel", nextMessageId, c)
<1>1. "Request" \in RpcMessageType /\ "Cancel" \in RpcMessageType
  BY DEF RpcMessageType
<1>2. /\ request \in [Channel -> Seq(RpcMessage)]
      /\ \A h \in Channel : \A i \in 1 .. Len(request[h]) :
           \/ i \in 1 .. Len(up[h]) /\ request[h][i] = up[h][i]
           \/ /\ h = rpcDeferred /\ i = Len(up[rpcDeferred]) + 1
              /\ request[h][i] = [type |-> "Request", id |-> nextMessageId, call |-> c]
  BY <1>1, DeferredTypes, ToServerAt
<1> HIDE DEF request
<1>3. /\ cancel \in [Channel -> Seq(RpcMessage)]
      /\ \A h \in Channel : \A i \in 1 .. Len(cancel[h]) :
           \/ i \in 1 .. Len(request[h]) /\ cancel[h][i] = request[h][i]
           \/ /\ h = rpcDeferred /\ i = Len(request[rpcDeferred]) + 1
              /\ cancel[h][i] = [type |-> "Cancel", id |-> nextMessageId, call |-> c]
  <2>1. request \in [Channel -> Seq(RpcMessage)] /\ "Cancel" \in RpcMessageType
    BY <1>1, <1>2
  <2>2. rpcDeferred \in Channel /\ nextMessageId \in Nat
    BY DeferredTypes
  <2> QED BY <2>1, <2>2, ToServerAt
<1> HIDE DEF cancel
<1>4. CASE ~written
  BY <1>4 DEF SendRequest, TypeOK, Adds
<1>5. CASE written /\ ~(c \in cancelled /\ cancelWritten)
  <2>1. up' = request
    BY <1>5 DEF SendRequest, request
  <2> QED BY <1>2, <2>1, DeferredIsChannel DEF Adds, Added
<1>6. CASE written /\ c \in cancelled /\ cancelWritten
  <2>1. up' = cancel
    BY <1>6 DEF SendRequest, request, cancel
  <2>2. ASSUME NEW g \in Channel, NEW i \in 1 .. Len(up'[g])
        PROVE  \/ i \in 1 .. Len(up[g]) /\ up'[g][i] = up[g][i]
               \/ Added(g, i, c)
    <3>1. CASE i \in 1 .. Len(request[g]) /\ cancel[g][i] = request[g][i]
      BY <1>2, <2>1, <3>1, DeferredIsChannel DEF Added
    <3>2. CASE g = rpcDeferred /\ cancel[g][i] = [type |-> "Cancel", id |-> nextMessageId, call |-> c]
      BY <1>6, <2>1, <3>2, DeferredIsChannel DEF Added, Starts
    <3> QED BY <1>3, <2>1, <3>1, <3>2
  <2> QED BY <1>3, <2>1, <2>2 DEF Adds
<1> QED BY <1>4, <1>5, <1>6

LEMMA SendAdds ==
  ASSUME TypeOK, DeferredIsLast, Send
  PROVE  /\ up' \in [Channel -> Seq(RpcMessage)] /\ Adds(Head(queue))
         /\ Head(queue) \in Call /\ Tail(queue) \in Seq(Call)
<1>1. /\ Head(queue) \in Call /\ Tail(queue) \in Seq(Call) /\ rpcDeferred # 0
  BY TailAt DEF Send, TypeOK
<1>2. CallerCommit \subseteq BOOLEAN
  BY DEF CallerCommit
<1>3. PICK written \in CallerCommit, cancelWritten \in CallerCommit :
        IF Head(queue) \in Notification THEN SendNotification(Head(queue), written)
                                        ELSE SendRequest(Head(queue), written, cancelWritten)
  BY DEF Send
<1>4. written \in BOOLEAN /\ cancelWritten \in BOOLEAN
  BY <1>2
<1>5. CASE Head(queue) \in Notification
  BY <1>1, <1>3, <1>4, <1>5, NotificationAdds
<1>6. CASE Head(queue) \notin Notification
  BY <1>1, <1>3, <1>4, <1>6, RequestAdds
<1> QED BY <1>1, <1>5, <1>6

-----------------------------------------------------------------------------
(* Types, and the channel the calls go to.                                  *)

LEMMA TypeInit == Init => TypeOK /\ DeferredIsLast
<1> SUFFICES ASSUME Init PROVE TypeOK /\ DeferredIsLast
  OBVIOUS
<1>1. 0 \in 0 .. MaxChannels
  BY BoundAssumption
<1>2. <<>> \in Seq(Call) /\ <<>> \in Seq(RpcMessage)
  OBVIOUS
<1> QED BY <1>1, <1>2 DEF Init, TypeOK, DeferredIsLast

LEMMA CallTypes ==
  ASSUME TypeOK, NEW c \in Call,
         NEW outcome \in {"idle", "waiting", "sent", "resolved", "rejected"}
  PROVE  [state EXCEPT ![c] = outcome]
           \in [Call -> {"idle", "waiting", "sent", "resolved", "rejected"}]
  BY DEF TypeOK

LEMMA ListenType == TypeOK /\ Listen => TypeOK'
<1> SUFFICES ASSUME TypeOK, Listen PROVE TypeOK'
  OBVIOUS
<1>1. channels + 1 \in 0 .. MaxChannels /\ channels + 1 \in Channel
  BY BoundAssumption DEF Listen, TypeOK, Channel
<1>2. channels' \in 0 .. MaxChannels /\ rpcDeferred' \in 0 .. MaxChannels /\ connected' \in BOOLEAN
  BY <1>1 DEF Listen, TypeOK
<1>3. serving' \subseteq Channel
  BY <1>1 DEF Listen, TypeOK
<1>4. nextMessageId' \in Nat /\ pendingRequests' = {} /\ cancellationListeners' = {}
  BY DEF Listen
<1> QED BY <1>2, <1>3, <1>4 DEF Listen, TypeOK, server

LEMMA MakeCallType == \A c \in Call : TypeOK /\ MakeCall(c) => TypeOK'
<1> SUFFICES ASSUME NEW c \in Call, TypeOK, MakeCall(c) PROVE TypeOK'
  OBVIOUS
<1>1. Append(queue, c) \in Seq(Call)
  BY AppendAt DEF TypeOK
<1>2. state' \in [Call -> {"idle", "waiting", "sent", "resolved", "rejected"}]
  BY CallTypes DEF MakeCall
<1> QED BY <1>1, <1>2 DEF MakeCall, TypeOK, protocol, server

LEMMA SendCallType ==
  ASSUME TypeOK, NEW c \in Call, NEW written \in BOOLEAN, NEW cancelWritten \in BOOLEAN,
         SendNotification(c, written) \/ SendRequest(c, written, cancelWritten)
  PROVE  /\ state' \in [Call -> {"idle", "waiting", "sent", "resolved", "rejected"}]
         /\ nextMessageId' \in Nat /\ dropped' \subseteq Call
         /\ pendingRequests' \subseteq [id : Nat, call : Call]
         /\ cancellationListeners' \subseteq Nat
<1>1. CASE SendNotification(c, written)
  BY <1>1, CallTypes DEF SendNotification, TypeOK
<1>2. CASE SendRequest(c, written, cancelWritten)
  <2>1. state' \in [Call -> {"idle", "waiting", "sent", "resolved", "rejected"}]
    BY <1>2, CallTypes DEF SendRequest
  <2>2. nextMessageId' \in Nat /\ dropped' \subseteq Call
    BY <1>2 DEF SendRequest, TypeOK
  <2>3. CASE written
    <3>1. [id |-> nextMessageId, call |-> c] \in [id : Nat, call : Call]
      BY DEF TypeOK
    <3>2. /\ pendingRequests' = pendingRequests \cup {[id |-> nextMessageId, call |-> c]}
          /\ cancellationListeners' = cancellationListeners \cup {nextMessageId}
      BY <1>2, <2>3 DEF SendRequest
    <3> QED BY <2>1, <2>2, <3>1, <3>2 DEF TypeOK
  <2>4. CASE ~written
    BY <1>2, <2>1, <2>2, <2>4 DEF SendRequest, TypeOK
  <2> QED BY <2>3, <2>4
<1> QED BY <1>1, <1>2

LEMMA SendType == TypeOK /\ DeferredIsLast /\ Send => TypeOK'
<1> SUFFICES ASSUME TypeOK, DeferredIsLast, Send PROVE TypeOK'
  OBVIOUS
<1>1. CallerCommit \subseteq BOOLEAN
  BY DEF CallerCommit
<1>2. PICK written \in CallerCommit, cancelWritten \in CallerCommit :
        \/ SendNotification(Head(queue), written)
        \/ SendRequest(Head(queue), written, cancelWritten)
  BY DEF Send
<1>3. written \in BOOLEAN /\ cancelWritten \in BOOLEAN
  BY <1>1
<1>4. /\ state' \in [Call -> {"idle", "waiting", "sent", "resolved", "rejected"}]
      /\ nextMessageId' \in Nat /\ dropped' \subseteq Call
      /\ pendingRequests' \subseteq [id : Nat, call : Call]
      /\ cancellationListeners' \subseteq Nat
  BY <1>2, <1>3, SendAdds, SendCallType
<1>5. queue' \in Seq(Call) /\ up' \in [Channel -> Seq(RpcMessage)]
  BY SendAdds DEF Send
<1> QED BY <1>4, <1>5 DEF Send, TypeOK, server

(* A cancel adds a message of a pending request to the open channel.        *)
LEMMA CancelAdds ==
  ASSUME TypeOK, DeferredIsLast, PendingTracked, NEW c \in Call, Cancel(c)
  PROVE  /\ up' \in [Channel -> Seq(RpcMessage)] /\ dropped' \subseteq Call
         /\ \A g \in Channel : \A i \in 1 .. Len(up'[g]) :
              \/ i \in 1 .. Len(up[g]) /\ up'[g][i] = up[g][i]
              \/ /\ g = channels /\ up'[g][i].type = "Cancel" /\ up'[g][i].call = c
                 /\ [id |-> up'[g][i].id, call |-> c] \in pendingRequests
<1> DEFINE listening == {r \in pendingRequests : r.call = c /\ r.id \in cancellationListeners}
<1>1. CASE listening = {}
  BY <1>1 DEF Cancel, TypeOK
<1>2. CASE listening # {}
  <2>1. PICK r \in listening, written \in CallerCommit :
          /\ up' = IF written THEN ToServer(up, channels, "Cancel", r.id, c) ELSE up
          /\ dropped' = IF written THEN dropped ELSE dropped \cup {c}
    BY <1>2 DEF Cancel
  <2>2. r \in pendingRequests /\ r.id \in Nat /\ r.call = c /\ r = [id |-> r.id, call |-> c]
    BY DEF TypeOK
  <2>3. dropped' \subseteq Call
    BY <2>1 DEF TypeOK
  <2>4. CASE ~written
    BY <2>1, <2>3, <2>4 DEF TypeOK
  <2>5. CASE written
    <3> DEFINE pushed == ToServer(up, channels, "Cancel", r.id, c)
    <3>1. channels \in Channel \/ channels = 0
      BY DEF TypeOK, Channel
    <3>2. up \in [Channel -> Seq(RpcMessage)] /\ "Cancel" \in RpcMessageType
      BY DEF TypeOK, RpcMessageType
    <3>3. up' = pushed
      BY <2>1, <2>5
    <3>4. CASE channels \in Channel
      <4>1. /\ pushed \in [Channel -> Seq(RpcMessage)]
            /\ \A h \in Channel : \A i \in 1 .. Len(pushed[h]) :
                 \/ i \in 1 .. Len(up[h]) /\ pushed[h][i] = up[h][i]
                 \/ /\ h = channels /\ i = Len(up[channels]) + 1
                    /\ pushed[h][i] = [type |-> "Cancel", id |-> r.id, call |-> c]
        BY <2>2, <3>2, <3>4, ToServerAt
      <4> HIDE DEF pushed
      <4> QED BY <2>2, <2>3, <3>3, <4>1
    <3>5. CASE channels = 0
      <4>1. channels \notin serving
        BY <3>5 DEF TypeOK, Channel
      <4>2. pushed = up
        BY <4>1 DEF ToServer
      <4> QED BY <2>3, <3>2, <3>3, <4>2
    <3> QED BY <3>1, <3>4, <3>5
  <2> QED BY <2>4, <2>5
<1> QED BY <1>1, <1>2

LEMMA CancelType ==
  \A c \in Call : TypeOK /\ DeferredIsLast /\ PendingTracked /\ Cancel(c) => TypeOK'
<1> SUFFICES ASSUME NEW c \in Call, TypeOK, DeferredIsLast, PendingTracked, Cancel(c)
             PROVE  TypeOK'
  OBVIOUS
<1>1. up' \in [Channel -> Seq(RpcMessage)] /\ dropped' \subseteq Call
  BY CancelAdds
<1>2. cancelled' \subseteq Cancellable
  BY DEF Cancel, TypeOK
<1> QED BY <1>1, <1>2 DEF Cancel, TypeOK, protocol, server

LEMMA ReceiveReplyType == TypeOK /\ DeferredIsLast /\ ReceiveReply => TypeOK'
<1> SUFFICES ASSUME TypeOK, DeferredIsLast, ReceiveReply PROVE TypeOK'
  OBVIOUS
<1>1. channels \in Channel
  BY DEF ReceiveReply, DeferredIsLast, TypeOK, Channel
<1>2. Head(down[channels]) \in RpcMessage /\ down' \in [Channel -> Seq(RpcMessage)]
  BY <1>1, PopAt DEF ReceiveReply, TypeOK
<1>3. HandleReply(Head(down[channels]))
  BY DEF ReceiveReply
<1>4. state' \in [Call -> {"idle", "waiting", "sent", "resolved", "rejected"}]
  BY <1>3 DEF HandleReply, TypeOK
<1>5. answer' \in [Call -> SUBSET Call]
  <2>1. Head(down[channels]).call \in Call
    BY <1>2 DEF RpcMessage
  <2>2. \A c \in Call : answer[c] \cup {Head(down[channels]).call} \in SUBSET Call
    BY <2>1 DEF TypeOK
  <2> QED BY <1>3, <2>2 DEF HandleReply, TypeOK
<1>6. pendingRequests' \subseteq [id : Nat, call : Call] /\ cancellationListeners' \subseteq Nat
  BY <1>3 DEF HandleReply, TypeOK
<1> QED BY <1>2, <1>4, <1>5, <1>6 DEF ReceiveReply, TypeOK, server

LEMMA ChannelClosedType == TypeOK /\ DeferredIsLast /\ ChannelClosed => TypeOK'
<1> SUFFICES ASSUME TypeOK, DeferredIsLast, ChannelClosed PROVE TypeOK'
  OBVIOUS
<1>1. channels \in Channel
  BY DEF ChannelClosed, DeferredIsLast, TypeOK, Channel
<1>2. down' \in [Channel -> Seq(RpcMessage)]
  BY <1>1, ClearAt DEF ChannelClosed, TypeOK
<1>3. state' \in [Call -> {"idle", "waiting", "sent", "resolved", "rejected"}]
  BY DEF ChannelClosed, RejectPending, TypeOK
<1>4. 0 \in 0 .. MaxChannels
  BY BoundAssumption
<1>5. rpcDeferred' \in 0 .. MaxChannels /\ connected' \in BOOLEAN
  BY <1>4 DEF ChannelClosed, RenewDeferred
<1> QED BY <1>2, <1>3, <1>5 DEF ChannelClosed, RejectPending, TypeOK, server

LEMMA RequestInType ==
  ASSUME NEW g \in Channel, NEW message \in RpcMessage
  PROVE  /\ Request(g, message) \in RequestType
         /\ message.id \in Nat /\ message.call \in Call
  BY DEF Request, RequestType, RpcMessage

LEMMA ReceiveRequestType == \A g \in Channel : TypeOK /\ ReceiveRequest(g) => TypeOK'
<1> SUFFICES ASSUME NEW g \in Channel, TypeOK, ReceiveRequest(g) PROVE TypeOK'
  OBVIOUS
<1> DEFINE message == Head(up[g])
<1>1. message \in RpcMessage /\ up' \in [Channel -> Seq(RpcMessage)]
  BY PopAt DEF ReceiveRequest, TypeOK
<1>2. Request(g, message) \in RequestType /\ message.call \in Call
  BY <1>1, RequestInType
<1>3. Append(started, message.call) \in Seq(Call)
  BY <1>2, AppendAt DEF TypeOK
<1>4. \/ HandleRequest(g, message) \/ HandleCancel(g, message) \/ HandleNotify(g, message)
  BY DEF ReceiveRequest
<1> HIDE DEF message
<1>5. /\ handlers' \subseteq RequestType /\ tokenSources' \subseteq RequestType
      /\ tokensCancelled' \subseteq RequestType /\ started' \in Seq(Call)
  BY <1>2, <1>3, <1>4 DEF HandleRequest, HandleCancel, HandleNotify, TypeOK
<1> QED BY <1>1, <1>5 DEF ReceiveRequest, TypeOK, caller, protocol

(* A handler that ends adds its answer, if anything, to its channel.        *)
LEMMA FinishAdds ==
  ASSUME TypeOK, NEW r \in handlers, Finish(r)
  PROVE  /\ down' \in [Channel -> Seq(RpcMessage)] /\ dropped' \subseteq Call
         /\ \A g \in Channel : \A i \in 1 .. Len(down'[g]) :
              \/ i \in 1 .. Len(down[g]) /\ down'[g][i] = down[g][i]
              \/ g = r.channel /\ down'[g][i].id = r.id /\ down'[g][i].call = r.call
<1>1. r \in RequestType /\ r.channel \in Channel /\ r.id \in Nat /\ r.call \in Call
  BY DEF TypeOK, RequestType
<1>2. dropped' \subseteq Call
  BY <1>1 DEF Finish, TypeOK
<1>3. ASSUME NEW type \in {"Reply", "ReplyErr"}, Answer(r, type)
      PROVE  /\ down' \in [Channel -> Seq(RpcMessage)]
             /\ \A g \in Channel : \A i \in 1 .. Len(down'[g]) :
                  \/ i \in 1 .. Len(down[g]) /\ down'[g][i] = down[g][i]
                  \/ g = r.channel /\ down'[g][i].id = r.id /\ down'[g][i].call = r.call
  <2> DEFINE pushed == Push(down, r.channel, type, r.id, r.call)
  <2>1. down \in [Channel -> Seq(RpcMessage)] /\ type \in RpcMessageType
    BY DEF TypeOK, RpcMessageType
  <2>2. /\ pushed \in [Channel -> Seq(RpcMessage)]
        /\ \A h \in Channel : \A i \in 1 .. Len(pushed[h]) :
             \/ i \in 1 .. Len(down[h]) /\ pushed[h][i] = down[h][i]
             \/ /\ h = r.channel /\ i = Len(down[r.channel]) + 1
                /\ pushed[h][i] = [type |-> type, id |-> r.id, call |-> r.call]
    BY <1>1, <2>1, PushAt, SMTT(60)
  <2>3. down' = pushed \/ down' = down
    BY <1>3 DEF Answer
  <2> HIDE DEF pushed
  <2>4. CASE down' = pushed
    BY <2>2, <2>4
  <2>5. CASE down' = down
    BY <2>1, <2>5
  <2> QED BY <2>3, <2>4, <2>5
<1>4. CASE UNCHANGED down
  BY <1>2, <1>4 DEF TypeOK
<1>5. \/ Answer(r, "Reply") \/ Answer(r, "ReplyErr") \/ UNCHANGED down
  BY DEF Finish
<1> QED BY <1>2, <1>3, <1>4, <1>5

LEMMA FinishType == \A r \in handlers : TypeOK /\ Finish(r) => TypeOK'
<1> SUFFICES ASSUME NEW r \in handlers, TypeOK, Finish(r) PROVE TypeOK'
  OBVIOUS
<1>1. down' \in [Channel -> Seq(RpcMessage)] /\ dropped' \subseteq Call
  BY FinishAdds
<1>2. handlers' \subseteq RequestType /\ tokenSources' \subseteq RequestType
  BY DEF Finish, TypeOK
<1> QED BY <1>1, <1>2 DEF Finish, TypeOK, caller, protocol

LEMMA ServerChannelClosedType == \A g \in Channel : TypeOK /\ ServerChannelClosed(g) => TypeOK'
<1> SUFFICES ASSUME NEW g \in Channel, TypeOK, ServerChannelClosed(g) PROVE TypeOK'
  OBVIOUS
<1>1. up' \in [Channel -> Seq(RpcMessage)]
  BY ClearAt DEF ServerChannelClosed, TypeOK
<1>2. serving' \subseteq Channel
  BY DEF ServerChannelClosed, TypeOK
<1> QED BY <1>1, <1>2 DEF ServerChannelClosed, TypeOK, caller, protocol, server

LEMMA TypeNext == TypeOK /\ DeferredIsLast /\ PendingTracked /\ [Next]_vars => TypeOK'
<1> SUFFICES ASSUME TypeOK, DeferredIsLast, PendingTracked, [Next]_vars PROVE TypeOK'
  OBVIOUS
<1>1. CASE UNCHANGED vars
  BY <1>1 DEF vars, caller, protocol, server, TypeOK
<1>2. CASE Next
  BY <1>2, ListenType, MakeCallType, SendType, CancelType, ReceiveReplyType,
     ChannelClosedType, ReceiveRequestType, FinishType, ServerChannelClosedType DEF Next
<1> QED BY <1>1, <1>2

LEMMA DeferredNext == TypeOK /\ DeferredIsLast /\ [Next]_vars => DeferredIsLast'
<1> SUFFICES ASSUME TypeOK, DeferredIsLast, [Next]_vars PROVE DeferredIsLast'
  OBVIOUS
<1>1. CASE Listen
  BY <1>1 DEF Listen, TypeOK, DeferredIsLast
<1>2. CASE ChannelClosed
  BY <1>2 DEF ChannelClosed, RenewDeferred, DeferredIsLast
<1>3. CASE UNCHANGED <<channels, connected, rpcDeferred>>
  BY <1>3 DEF DeferredIsLast
<1>4. CASE Next /\ ~Listen /\ ~ChannelClosed
  <2>1. UNCHANGED <<channels, connected, rpcDeferred>>
    BY <1>4 DEF Next, MakeCall, Send, Cancel, ReceiveReply, ReceiveRequest, Finish,
                ServerChannelClosed, caller
  <2> QED BY <1>3, <2>1
<1>5. CASE UNCHANGED vars
  BY <1>3, <1>5 DEF vars, caller
<1> QED BY <1>1, <1>2, <1>4, <1>5

-----------------------------------------------------------------------------
(* What is under way is in the maps.                                        *)

LEMMA SendTracks ==
  TypeOK /\ DeferredIsLast /\ PendingTracked /\ Send => PendingTracked'
<1> SUFFICES ASSUME TypeOK, DeferredIsLast, PendingTracked, Send PROVE PendingTracked'
  OBVIOUS
<1>1. rpcDeferred # 0 /\ connected /\ connected' = connected
  BY DEF Send, DeferredIsLast
<1>2. PICK written \in CallerCommit, cancelWritten \in CallerCommit :
        \/ SendNotification(Head(queue), written)
        \/ SendRequest(Head(queue), written, cancelWritten)
  BY DEF Send
<1>3. Head(queue) \in Call
  BY SendAdds
<1>4. CASE SendNotification(Head(queue), written)
  BY <1>1, <1>3, <1>4 DEF SendNotification, PendingTracked, UnderWay, TypeOK
<1>5. CASE SendRequest(Head(queue), written, cancelWritten)
  <2> DEFINE new == [id |-> nextMessageId, call |-> Head(queue)]
  <2>1. new.id = nextMessageId /\ new.call = Head(queue)
    OBVIOUS
  <2>2. CASE written
    <3>1. /\ pendingRequests' = pendingRequests \cup {new}
          /\ cancellationListeners' = cancellationListeners \cup {nextMessageId}
      BY <1>5, <2>2 DEF SendRequest
    <3> HIDE DEF new
    <3>2. cancellationListeners' = {r.id : r \in pendingRequests'}
      BY <2>1, <3>1 DEF PendingTracked
    <3>3. ASSUME NEW c \in Call, state'[c] = "sent"
          PROVE  connected' /\ UnderWay(c)'
      <4>1. CASE c = Head(queue)
        BY <1>1, <2>1, <3>1, <3>3, <4>1 DEF UnderWay
      <4>2. CASE c # Head(queue)
        <5>1. state[c] = "sent"
          BY <1>5, <3>3, <4>2 DEF SendRequest, TypeOK
        <5> QED BY <1>1, <3>1, <3>3, <5>1 DEF UnderWay, PendingTracked
      <4> QED BY <4>1, <4>2
    <3> QED BY <3>2, <3>3 DEF PendingTracked
  <2>3. CASE ~written
    BY <1>1, <1>3, <1>5, <2>3 DEF SendRequest, PendingTracked, UnderWay, TypeOK
  <2> QED BY <2>2, <2>3
<1> QED BY <1>2, <1>4, <1>5

LEMMA ReplyTracks ==
  TypeOK /\ PendingTracked /\ ReceiveReply => PendingTracked'
<1> SUFFICES ASSUME TypeOK, PendingTracked, ReceiveReply PROVE PendingTracked'
  OBVIOUS
<1> DEFINE message == Head(down[channels])
<1>1. HandleReply(message) /\ connected /\ connected' = connected
  BY DEF ReceiveReply
<1> HIDE DEF message
<1>2. cancellationListeners' = {r.id : r \in pendingRequests'}
  BY <1>1 DEF HandleReply, PendingTracked
<1>3. ASSUME NEW c \in Call, state'[c] = "sent"
      PROVE  connected' /\ UnderWay(c)'
  <2>1. state[c] = "sent" /\ [id |-> message.id, call |-> c] \notin pendingRequests
    BY <1>1, <1>3 DEF HandleReply, TypeOK
  <2>2. PICK r \in pendingRequests : r.call = c
    BY <2>1 DEF PendingTracked, UnderWay
  <2>3. r = [id |-> r.id, call |-> c]
    BY <2>2 DEF TypeOK
  <2>4. r \in pendingRequests'
    BY <1>1, <2>1, <2>3 DEF HandleReply
  <2> QED BY <1>1, <1>3, <2>2, <2>4 DEF UnderWay
<1> QED BY <1>2, <1>3 DEF PendingTracked

LEMMA TrackedNext ==
  TypeOK /\ DeferredIsLast /\ PendingTracked /\ [Next]_vars => PendingTracked'
<1> SUFFICES ASSUME TypeOK, DeferredIsLast, PendingTracked, [Next]_vars PROVE PendingTracked'
  OBVIOUS
<1>1. CASE Listen
  BY <1>1 DEF Listen, PendingTracked, UnderWay
<1>2. ASSUME NEW c \in Call, MakeCall(c) PROVE PendingTracked'
  BY <1>2 DEF MakeCall, protocol, PendingTracked, UnderWay, TypeOK
<1>3. CASE ChannelClosed
  BY <1>3 DEF ChannelClosed, RejectPending, PendingTracked, UnderWay, TypeOK
<1>4. ASSUME UNCHANGED <<connected, state, pendingRequests, cancellationListeners>>
      PROVE  PendingTracked'
  BY <1>4 DEF PendingTracked, UnderWay
<1>5. CASE \/ \E c \in Call : Cancel(c)
           \/ \E g \in Channel : ReceiveRequest(g) \/ ServerChannelClosed(g)
           \/ \E r \in handlers : Finish(r)
           \/ UNCHANGED vars
  <2>1. UNCHANGED <<connected, state, pendingRequests, cancellationListeners>>
    BY <1>5 DEF Cancel, ReceiveRequest, ServerChannelClosed, Finish, vars, caller, protocol
  <2> QED BY <1>4, <2>1
<1> QED BY <1>1, <1>2, <1>3, <1>5, SendTracks, ReplyTracks DEF Next

LEMMA TokensNext == TokensOfHandlers /\ [Next]_vars => TokensOfHandlers'
<1> SUFFICES ASSUME TokensOfHandlers, [Next]_vars PROVE TokensOfHandlers'
  OBVIOUS
<1>1. ASSUME NEW g \in Channel, ReceiveRequest(g) PROVE TokensOfHandlers'
  <2> DEFINE message == Head(up[g])
             request == Request(g, message)
  <2>1. \/ HandleRequest(g, message) \/ HandleCancel(g, message) \/ HandleNotify(g, message)
    BY <1>1 DEF ReceiveRequest
  <2>2. request.call = message.call
    BY DEF Request
  <2> HIDE DEF message
  <2>3. \/ UNCHANGED <<handlers, tokenSources>>
        \/ /\ handlers' = handlers \cup {request}
           /\ tokenSources' = IF request.call \in Cancellable
                              THEN tokenSources \cup {request} ELSE tokenSources
    BY <2>1, <2>2 DEF HandleRequest, HandleCancel, HandleNotify
  <2> HIDE DEF request
  <2> QED BY <2>3 DEF TokensOfHandlers
<1>2. ASSUME NEW r \in handlers, Finish(r) PROVE TokensOfHandlers'
  BY <1>2 DEF Finish, TokensOfHandlers
<1>3. ASSUME UNCHANGED <<handlers, tokenSources>> PROVE TokensOfHandlers'
  BY <1>3 DEF TokensOfHandlers
<1>4. CASE \/ Listen \/ Send \/ ReceiveReply \/ ChannelClosed
           \/ \E c \in Call : MakeCall(c) \/ Cancel(c)
           \/ \E g \in Channel : ServerChannelClosed(g)
           \/ UNCHANGED vars
  <2>1. UNCHANGED <<handlers, tokenSources>>
    BY <1>4 DEF Listen, Send, ReceiveReply, ChannelClosed, MakeCall, Cancel,
                ServerChannelClosed, vars, server
  <2> QED BY <1>3, <2>1
<1> QED BY <1>1, <1>2, <1>4 DEF Next

-----------------------------------------------------------------------------
(* Ids: no step makes a second call known under an id of a channel.  All   *)
(* but Send leave the known requests as they are or fewer.                  *)

LEMMA PopCarries ==
  ASSUME NEW queues \in [Channel -> Seq(RpcMessage)], NEW g \in Channel, queues[g] # <<>>
  PROVE  /\ Carries(queues[g], Head(queues[g]))
         /\ \A h \in Channel, r \in RequestType :
              Carries([queues EXCEPT ![g] = Tail(@)][h], r) => Carries(queues[h], r)
<1> DEFINE popped == [queues EXCEPT ![g] = Tail(@)]
<1>1. /\ 1 \in 1 .. Len(queues[g]) /\ Head(queues[g]) = queues[g][1]
      /\ \A h \in Channel : \A i \in 1 .. Len(popped[h]) :
           \/ h # g /\ i \in 1 .. Len(queues[h]) /\ popped[h][i] = queues[h][i]
           \/ /\ h = g /\ i + 1 \in 2 .. Len(queues[h])
              /\ popped[h][i] = queues[h][i + 1]
  BY PopAt
<1> HIDE DEF popped
<1>2. Carries(queues[g], Head(queues[g]))
  BY <1>1 DEF Carries
<1>3. ASSUME NEW h \in Channel, NEW r \in RequestType, Carries(popped[h], r)
      PROVE  Carries(queues[h], r)
  <2>1. PICK i \in 1 .. Len(popped[h]) : popped[h][i].id = r.id /\ popped[h][i].call = r.call
    BY <1>3 DEF Carries
  <2>2. \/ i \in 1 .. Len(queues[h]) /\ popped[h][i] = queues[h][i]
        \/ i + 1 \in 2 .. Len(queues[h]) /\ popped[h][i] = queues[h][i + 1]
    BY <1>1
  <2>3. \A k \in 2 .. Len(queues[h]) : k \in 1 .. Len(queues[h])
    BY DEF Channel
  <2> QED BY <2>1, <2>2, <2>3 DEF Carries
<1> QED BY <1>2, <1>3 DEF popped

LEMMA ClearCarries ==
  ASSUME NEW queues \in [Channel -> Seq(RpcMessage)], NEW g \in Channel
  PROVE  \A h \in Channel, r \in RequestType :
           Carries([queues EXCEPT ![g] = <<>>][h], r) => Carries(queues[h], r)
<1> DEFINE cleared == [queues EXCEPT ![g] = <<>>]
<1>1. \A h \in Channel : \A i \in 1 .. Len(cleared[h]) :
        i \in 1 .. Len(queues[h]) /\ cleared[h][i] = queues[h][i]
  BY ClearAt
<1> HIDE DEF cleared
<1>2. \A h \in Channel, r \in RequestType : Carries(cleared[h], r) => Carries(queues[h], r)
  BY <1>1 DEF Carries
<1> QED BY <1>2 DEF cleared

LEMMA RequestFields ==
  ASSUME NEW r \in RequestType
  PROVE  /\ r.channel \in Channel /\ r.id \in Nat /\ r.call \in Call
         /\ r = [channel |-> r.channel, id |-> r.id, call |-> r.call]
  BY DEF RequestType

LEMMA IdsKept ==
  ASSUME Ids, channels' = channels, nextMessageId' = nextMessageId,
         \A r \in RequestType : KnownAs(r)' => KnownAs(r)
  PROVE  Ids'
  BY DEF Ids, IdsOwn, Numbered

LEMMA ListenIds == TypeOK /\ Ids /\ Listen => Ids'
<1> SUFFICES ASSUME TypeOK, Ids, Listen PROVE Ids'
  OBVIOUS
<1>1. channels \in Nat /\ channels' = channels + 1
  BY DEF Listen, TypeOK
<1>2. ASSUME NEW r \in RequestType, KnownAs(r)' PROVE KnownAs(r) /\ r.channel < channels'
  <2>1. KnownAs(r)
    BY <1>2 DEF Listen, KnownAs, server
  <2>2. r.channel <= channels
    BY <1>1, <2>1, RequestFields DEF Ids, Numbered, Channel
  <2> QED BY <1>1, <2>1, <2>2, RequestFields DEF Channel
<1>3. IdsOwn'
  BY <1>2 DEF Ids, IdsOwn
<1>4. Numbered'
  BY <1>2 DEF Numbered
<1> QED BY <1>3, <1>4 DEF Ids

LEMMA SendKnows ==
  ASSUME TypeOK, DeferredIsLast, Send
  PROVE  /\ nextMessageId' = nextMessageId + 1
         /\ \A r \in RequestType :
              KnownAs(r)' => \/ KnownAs(r)
                             \/ /\ r.channel = channels /\ r.id = nextMessageId
                                /\ r.call = Head(queue)
<1> DEFINE new == [id |-> nextMessageId, call |-> Head(queue)]
<1>1. PICK written \in CallerCommit, cancelWritten \in CallerCommit :
        \/ SendNotification(Head(queue), written)
        \/ SendRequest(Head(queue), written, cancelWritten)
  BY DEF Send
<1>2. nextMessageId' = nextMessageId + 1 /\ pendingRequests' \subseteq pendingRequests \cup {new}
  BY <1>1 DEF SendNotification, SendRequest
<1>3. new.id = nextMessageId /\ new.call = Head(queue)
  OBVIOUS
<1> HIDE DEF new
<1>4. Adds(Head(queue))
  BY SendAdds
<1>5. ASSUME NEW r \in RequestType, KnownAs(r)'
      PROVE  \/ KnownAs(r)
             \/ r.channel = channels /\ r.id = nextMessageId /\ r.call = Head(queue)
  <2>1. /\ handlers' = handlers /\ tokenSources' = tokenSources /\ channels' = channels
        /\ tokensCancelled' = tokensCancelled /\ down' = down
    BY DEF Send, server
  <2>2. CASE [id |-> r.id, call |-> r.call] \in pendingRequests' /\ r.channel = channels
    BY <1>2, <1>3, <2>2 DEF KnownAs
  <2>3. CASE Carries(up'[r.channel], r)
    <3>1. PICK i \in 1 .. Len(up'[r.channel]) :
            up'[r.channel][i].id = r.id /\ up'[r.channel][i].call = r.call
      BY <2>3 DEF Carries
    <3>2. \/ i \in 1 .. Len(up[r.channel]) /\ up'[r.channel][i] = up[r.channel][i]
          \/ Added(r.channel, i, Head(queue))
      BY <1>4, <3>1, RequestFields DEF Adds
    <3> QED BY <3>1, <3>2 DEF Added, KnownAs, Carries
  <2> QED BY <1>5, <2>1, <2>2, <2>3 DEF KnownAs
<1> QED BY <1>2, <1>5

LEMMA SendIds == TypeOK /\ DeferredIsLast /\ Ids /\ Send => Ids'
<1> SUFFICES ASSUME TypeOK, DeferredIsLast, Ids, Send PROVE Ids'
  OBVIOUS
<1>1. /\ nextMessageId' = nextMessageId + 1 /\ channels' = channels
      /\ channels \in Nat /\ nextMessageId \in Nat
  BY SendKnows DEF Send, TypeOK
<1>2. \A r \in RequestType :
        KnownAs(r)' => \/ KnownAs(r)
                       \/ /\ r.channel = channels /\ r.id = nextMessageId
                          /\ r.call = Head(queue)
  BY SendKnows
<1>3. \A r \in RequestType :
        KnownAs(r) => \/ r.channel < channels
                      \/ r.channel = channels /\ r.id < nextMessageId
  BY DEF Ids, Numbered
<1>4. IdsOwn'
  <2> SUFFICES ASSUME NEW r \in RequestType, NEW s \in RequestType, KnownAs(r)', KnownAs(s)',
                      r.channel = s.channel, r.id = s.id
               PROVE  r = s
    BY DEF IdsOwn
  <2>1. CASE KnownAs(r) /\ KnownAs(s)
    BY <2>1 DEF Ids, IdsOwn
  <2>2. CASE ~(KnownAs(r) /\ KnownAs(s))
    <3>1. r.call = s.call
      BY <1>1, <1>2, <1>3, <2>2, RequestFields DEF Channel
    <3> QED BY <3>1, RequestFields
  <2> QED BY <2>1, <2>2
<1>5. Numbered'
  BY <1>1, <1>2, <1>3, RequestFields DEF Numbered, Channel
<1> QED BY <1>4, <1>5 DEF Ids

LEMMA CancelIds ==
  ASSUME TypeOK, DeferredIsLast, PendingTracked, Ids, NEW c \in Call, Cancel(c)
  PROVE  Ids'
<1>1. /\ channels' = channels /\ nextMessageId' = nextMessageId /\ down' = down
      /\ pendingRequests' = pendingRequests
      /\ handlers' = handlers /\ tokenSources' = tokenSources
      /\ tokensCancelled' = tokensCancelled
  BY DEF Cancel, protocol, server
<1>2. ASSUME NEW r \in RequestType, Carries(up'[r.channel], r) PROVE KnownAs(r)
  <2>1. PICK i \in 1 .. Len(up'[r.channel]) :
          up'[r.channel][i].id = r.id /\ up'[r.channel][i].call = r.call
    BY <1>2 DEF Carries
  <2>2. \/ i \in 1 .. Len(up[r.channel]) /\ up'[r.channel][i] = up[r.channel][i]
        \/ /\ r.channel = channels /\ up'[r.channel][i].call = c
           /\ [id |-> up'[r.channel][i].id, call |-> c] \in pendingRequests
    BY CancelAdds, RequestFields
  <2> QED BY <2>1, <2>2 DEF KnownAs, Carries
<1>3. \A r \in RequestType : KnownAs(r)' => KnownAs(r)
  BY <1>1, <1>2 DEF KnownAs
<1> QED BY <1>1, <1>3, IdsKept

LEMMA ReplyIds == TypeOK /\ DeferredIsLast /\ Ids /\ ReceiveReply => Ids'
<1> SUFFICES ASSUME TypeOK, DeferredIsLast, Ids, ReceiveReply PROVE Ids'
  OBVIOUS
<1>1. channels \in Channel
  BY DEF ReceiveReply, DeferredIsLast, TypeOK, Channel
<1>2. /\ channels' = channels /\ nextMessageId' = nextMessageId /\ up' = up
      /\ pendingRequests' \subseteq pendingRequests
      /\ handlers' = handlers /\ tokenSources' = tokenSources
      /\ tokensCancelled' = tokensCancelled
  BY DEF ReceiveReply, HandleReply, server
<1>3. \A h \in Channel, r \in RequestType : Carries(down'[h], r) => Carries(down[h], r)
  BY <1>1, PopCarries DEF ReceiveReply, TypeOK
<1>4. \A r \in RequestType : KnownAs(r)' => KnownAs(r)
  BY <1>2, <1>3, RequestFields DEF KnownAs
<1> QED BY <1>2, <1>4, IdsKept

LEMMA ChannelClosedIds == TypeOK /\ DeferredIsLast /\ Ids /\ ChannelClosed => Ids'
<1> SUFFICES ASSUME TypeOK, DeferredIsLast, Ids, ChannelClosed PROVE Ids'
  OBVIOUS
<1>1. channels \in Channel
  BY DEF ChannelClosed, DeferredIsLast, TypeOK, Channel
<1>2. /\ channels' = channels /\ nextMessageId' = nextMessageId /\ up' = up
      /\ pendingRequests' = {}
      /\ handlers' = handlers /\ tokenSources' = tokenSources
      /\ tokensCancelled' = tokensCancelled
  BY DEF ChannelClosed, RejectPending, server
<1>3. \A h \in Channel, r \in RequestType : Carries(down'[h], r) => Carries(down[h], r)
  BY <1>1, ClearCarries DEF ChannelClosed, TypeOK
<1>4. \A r \in RequestType : KnownAs(r)' => KnownAs(r)
  BY <1>2, <1>3, RequestFields DEF KnownAs
<1> QED BY <1>2, <1>4, IdsKept

(* The request a message is about is known while it is under way.           *)
LEMMA MessageKnown ==
  ASSUME TypeOK, NEW g \in Channel, NEW queues \in {up, down}, queues[g] # <<>>
  PROVE  /\ Head(queues[g]) \in RpcMessage
         /\ Request(g, Head(queues[g])) \in RequestType
         /\ KnownAs(Request(g, Head(queues[g])))
<1> DEFINE r == Request(g, Head(queues[g]))
<1>1. queues \in [Channel -> Seq(RpcMessage)]
  BY DEF TypeOK
<1>2. Head(queues[g]) \in RpcMessage
  BY <1>1, PopAt
<1>3. r.channel = g /\ r.id = Head(queues[g]).id /\ r.call = Head(queues[g]).call
  BY DEF Request
<1>4. Carries(queues[g], Head(queues[g]))
  BY <1>1, PopCarries
<1>5. Carries(queues[r.channel], r)
  BY <1>3, <1>4 DEF Carries
<1> QED BY <1>2, <1>5, RequestInType DEF KnownAs

LEMMA ReceiveRequestIds == \A g \in Channel : TypeOK /\ Ids /\ ReceiveRequest(g) => Ids'
<1> SUFFICES ASSUME NEW g \in Channel, TypeOK, Ids, ReceiveRequest(g) PROVE Ids'
  OBVIOUS
<1> DEFINE message == Head(up[g])
           request == Request(g, message)
<1>1. /\ channels' = channels /\ nextMessageId' = nextMessageId /\ down' = down
      /\ pendingRequests' = pendingRequests
  BY DEF ReceiveRequest, protocol
<1>2. KnownAs(request)
  BY MessageKnown DEF ReceiveRequest
<1>3. \/ HandleRequest(g, message) \/ HandleCancel(g, message) \/ HandleNotify(g, message)
  BY DEF ReceiveRequest
<1>4. \A h \in Channel, r \in RequestType : Carries(up'[h], r) => Carries(up[h], r)
  BY PopCarries DEF ReceiveRequest, TypeOK
<1> HIDE DEF message
<1>5. /\ handlers' \subseteq handlers \cup {request}
      /\ tokenSources' \subseteq tokenSources \cup {request}
      /\ tokensCancelled' \subseteq tokensCancelled \cup tokenSources
  BY <1>3 DEF HandleRequest, HandleCancel, HandleNotify
<1> HIDE DEF request
<1>6. \A r \in RequestType : KnownAs(r)' => KnownAs(r)
  <2> SUFFICES ASSUME NEW r \in RequestType, KnownAs(r)', r # request PROVE KnownAs(r)
    BY <1>2
  <2> QED BY <1>1, <1>4, <1>5, RequestFields DEF KnownAs
<1> QED BY <1>1, <1>6, IdsKept

LEMMA FinishIds == \A r \in handlers : TypeOK /\ Ids /\ Finish(r) => Ids'
<1> SUFFICES ASSUME NEW q \in handlers, TypeOK, Ids, Finish(q) PROVE Ids'
  OBVIOUS
<1>1. /\ channels' = channels /\ nextMessageId' = nextMessageId /\ up' = up
      /\ pendingRequests' = pendingRequests
      /\ handlers' \subseteq handlers /\ tokenSources' \subseteq tokenSources
      /\ tokensCancelled' = tokensCancelled
  BY DEF Finish, protocol
<1>2. q \in RequestType
  BY DEF TypeOK
<1>3. ASSUME NEW r \in RequestType, Carries(down'[r.channel], r) PROVE KnownAs(r)
  <2>1. PICK i \in 1 .. Len(down'[r.channel]) :
          down'[r.channel][i].id = r.id /\ down'[r.channel][i].call = r.call
    BY <1>3 DEF Carries
  <2>2. \/ i \in 1 .. Len(down[r.channel]) /\ down'[r.channel][i] = down[r.channel][i]
        \/ /\ r.channel = q.channel /\ down'[r.channel][i].id = q.id
           /\ down'[r.channel][i].call = q.call
    BY FinishAdds, RequestFields
  <2>3. CASE i \in 1 .. Len(down[r.channel]) /\ down'[r.channel][i] = down[r.channel][i]
    BY <2>1, <2>3 DEF KnownAs, Carries
  <2>4. CASE r.channel = q.channel /\ r.id = q.id /\ r.call = q.call
    <3>1. r = q
      BY <1>2, <2>4, RequestFields
    <3> QED BY <3>1 DEF KnownAs
  <2> QED BY <2>1, <2>2, <2>3, <2>4
<1>4. \A r \in RequestType : KnownAs(r)' => KnownAs(r)
  BY <1>1, <1>3 DEF KnownAs
<1> QED BY <1>1, <1>4, IdsKept

LEMMA ServerChannelClosedIds ==
  \A g \in Channel : TypeOK /\ Ids /\ ServerChannelClosed(g) => Ids'
<1> SUFFICES ASSUME NEW g \in Channel, TypeOK, Ids, ServerChannelClosed(g) PROVE Ids'
  OBVIOUS
<1>1. /\ channels' = channels /\ nextMessageId' = nextMessageId /\ down' = down
      /\ pendingRequests' = pendingRequests
      /\ handlers' = handlers /\ tokenSources' = tokenSources
      /\ tokensCancelled' = tokensCancelled
  BY DEF ServerChannelClosed, protocol, server
<1>2. \A h \in Channel, r \in RequestType : Carries(up'[h], r) => Carries(up[h], r)
  BY ClearCarries DEF ServerChannelClosed, TypeOK
<1>3. \A r \in RequestType : KnownAs(r)' => KnownAs(r)
  BY <1>1, <1>2, RequestFields DEF KnownAs
<1> QED BY <1>1, <1>3, IdsKept

LEMMA IdsNext ==
  TypeOK /\ DeferredIsLast /\ PendingTracked /\ Ids /\ [Next]_vars => Ids'
<1> SUFFICES ASSUME TypeOK, DeferredIsLast, PendingTracked, Ids, [Next]_vars PROVE Ids'
  OBVIOUS
<1>1. ASSUME UNCHANGED <<channels, protocol, up, down, handlers, tokenSources, tokensCancelled>>
      PROVE  Ids'
  <2>1. \A r \in RequestType : KnownAs(r)' => KnownAs(r)
    BY <1>1 DEF KnownAs, protocol
  <2> QED BY <1>1, <2>1, IdsKept DEF protocol
<1>2. CASE (\E c \in Call : MakeCall(c)) \/ UNCHANGED vars
  <2>1. UNCHANGED <<channels, protocol, up, down, handlers, tokenSources, tokensCancelled>>
    BY <1>2 DEF MakeCall, vars, server
  <2> QED BY <1>1, <2>1
<1> QED BY <1>2, ListenIds, SendIds, CancelIds, ReplyIds, ChannelClosedIds,
           ReceiveRequestIds, FinishIds, ServerChannelClosedIds DEF Next

-----------------------------------------------------------------------------
(* Cancels and answers.                                                     *)

LEMMA CancelsNext ==
  TypeOK /\ DeferredIsLast /\ PendingTracked /\ CancelsOwn /\ [Next]_vars => CancelsOwn'
<1> SUFFICES ASSUME TypeOK, DeferredIsLast, PendingTracked, CancelsOwn, [Next]_vars
             PROVE  CancelsOwn'
  OBVIOUS
<1>1. CASE Send
  <2>1. Adds(Head(queue)) /\ cancelled' = cancelled
    BY <1>1, SendAdds DEF Send
  <2> QED BY <2>1 DEF Adds, Added, CancelsOwn
<1>2. ASSUME NEW c \in Call, Cancel(c) PROVE CancelsOwn'
  <2>1. cancelled' = cancelled \cup {c}
    BY <1>2 DEF Cancel
  <2>2. \A g \in Channel : \A i \in 1 .. Len(up'[g]) :
          \/ i \in 1 .. Len(up[g]) /\ up'[g][i] = up[g][i]
          \/ up'[g][i].call = c
    BY <1>2, CancelAdds
  <2> QED BY <2>1, <2>2 DEF CancelsOwn
<1>3. ASSUME NEW g \in Channel, ReceiveRequest(g) PROVE CancelsOwn'
  <2>1. up' = [up EXCEPT ![g] = Tail(@)] /\ up[g] # <<>> /\ cancelled' = cancelled
    BY <1>3 DEF ReceiveRequest, caller
  <2>2. up \in [Channel -> Seq(RpcMessage)]
    BY DEF TypeOK
  <2>3. \A h \in Channel : \A i \in 1 .. Len(up'[h]) :
          \E j \in 1 .. Len(up[h]) : up'[h][i] = up[h][j]
    <3>1. \A h \in Channel : \A i \in 1 .. Len(up'[h]) :
            \/ i \in 1 .. Len(up[h]) /\ up'[h][i] = up[h][i]
            \/ i + 1 \in 2 .. Len(up[h]) /\ up'[h][i] = up[h][i + 1]
      BY <2>1, <2>2, PopAt
    <3>2. \A n \in Nat : \A j \in 2 .. n : j \in 1 .. n
      OBVIOUS
    <3>3. \A h \in Channel : Len(up[h]) \in Nat
      BY <2>2
    <3> QED BY <3>1, <3>2, <3>3
  <2> QED BY <2>1, <2>3 DEF CancelsOwn
<1>4. ASSUME NEW g \in Channel, ServerChannelClosed(g) PROVE CancelsOwn'
  <2>1. \A h \in Channel : \A i \in 1 .. Len(up'[h]) :
          i \in 1 .. Len(up[h]) /\ up'[h][i] = up[h][i]
    BY <1>4, ClearAt DEF ServerChannelClosed, TypeOK
  <2> QED BY <1>4, <2>1 DEF ServerChannelClosed, caller, CancelsOwn
<1>5. CASE \/ Listen \/ ReceiveReply \/ ChannelClosed
           \/ \E c \in Call : MakeCall(c)
           \/ \E r \in handlers : Finish(r)
           \/ UNCHANGED vars
  <2>1. up' = up /\ cancelled' = cancelled
    BY <1>5 DEF Listen, ReceiveReply, ChannelClosed, MakeCall, Finish, vars, caller
  <2> QED BY <2>1 DEF CancelsOwn
<1> QED BY <1>1, <1>2, <1>3, <1>4, <1>5 DEF Next

LEMMA CancelIsOwnNext ==
  TypeOK /\ TokensOfHandlers /\ Ids /\ CancelsOwn /\ CancelIsOwn /\ [Next]_vars => CancelIsOwn'
<1> SUFFICES ASSUME TypeOK, TokensOfHandlers, Ids, CancelsOwn, CancelIsOwn, [Next]_vars
             PROVE  CancelIsOwn'
  OBVIOUS
<1>1. ASSUME NEW g \in Channel, ReceiveRequest(g) PROVE CancelIsOwn'
  <2> DEFINE message == Head(up[g])
             request == Request(g, message)
  <2>1. cancelled' = cancelled /\ up[g] # <<>>
    BY <1>1 DEF ReceiveRequest, caller
  <2>2. request \in RequestType /\ KnownAs(request)
    BY <2>1, MessageKnown
  <2>3. CASE message.type = "Cancel" /\ HandleCancel(g, message)
    <3>1. message.call \in cancelled
      BY <2>1, <2>3, PopAt DEF CancelsOwn, TypeOK
    <3>2. ASSUME NEW r \in tokenSources, r.channel = g, r.id = message.id
          PROVE  r.call \in cancelled
      <4>1. r \in RequestType /\ KnownAs(r)
        BY DEF TypeOK, KnownAs
      <4>2. request.channel = g /\ request.id = message.id /\ request.call = message.call
        BY DEF Request
      <4> HIDE DEF request
      <4>3. r = request
        BY <2>2, <3>2, <4>1, <4>2 DEF Ids, IdsOwn
      <4> QED BY <3>1, <4>2, <4>3
    <3> QED BY <2>1, <2>3, <3>2 DEF HandleCancel, CancelIsOwn
  <2>4. CASE HandleRequest(g, message) \/ HandleNotify(g, message)
    BY <2>1, <2>4 DEF HandleRequest, HandleNotify, CancelIsOwn
  <2> QED BY <1>1, <2>3, <2>4 DEF ReceiveRequest
<1>2. CASE \/ Listen \/ Send \/ ReceiveReply \/ ChannelClosed
           \/ \E c \in Call : MakeCall(c) \/ Cancel(c)
           \/ \E g \in Channel : ServerChannelClosed(g)
           \/ \E r \in handlers : Finish(r)
           \/ UNCHANGED vars
  <2>1. tokensCancelled' = tokensCancelled /\ cancelled \subseteq cancelled'
    BY <1>2 DEF Listen, Send, ReceiveReply, ChannelClosed, MakeCall, Cancel,
                ServerChannelClosed, Finish, vars, caller, server
  <2> QED BY <2>1 DEF CancelIsOwn
<1> QED BY <1>1, <1>2 DEF Next

LEMMA AnswerIsOwnNext ==
  TypeOK /\ DeferredIsLast /\ Ids /\ AnswerIsOwn /\ [Next]_vars => AnswerIsOwn'
<1> SUFFICES ASSUME TypeOK, DeferredIsLast, Ids, AnswerIsOwn, [Next]_vars PROVE AnswerIsOwn'
  OBVIOUS
<1>1. CASE ReceiveReply
  <2> DEFINE message == Head(down[channels])
             reply   == Request(channels, message)
  <2>1. /\ channels \in Channel /\ down[channels] # <<>> /\ HandleReply(message)
    BY <1>1 DEF ReceiveReply, DeferredIsLast, TypeOK, Channel
  <2>2. reply \in RequestType /\ KnownAs(reply) /\ message \in RpcMessage
    BY <2>1, MessageKnown
  <2>3. reply.channel = channels /\ reply.id = message.id /\ reply.call = message.call
    BY DEF Request
  <2> HIDE DEF reply, message
  <2>4. ASSUME NEW c \in Call, [id |-> message.id, call |-> c] \in pendingRequests
        PROVE  c = message.call
    <3> DEFINE r == [channel |-> channels, id |-> message.id, call |-> c]
    <3>1. r \in RequestType
      BY <2>1, <2>2 DEF RequestType, RpcMessage
    <3>2. r.channel = channels /\ r.id = message.id /\ r.call = c
      OBVIOUS
    <3> HIDE DEF r
    <3>3. KnownAs(r)
      BY <2>4, <3>2 DEF KnownAs
    <3>4. r = reply
      BY <2>2, <2>3, <3>1, <3>2, <3>3 DEF Ids, IdsOwn
    <3> QED BY <2>3, <3>2, <3>4
  <2>5. ASSUME NEW c \in Call PROVE answer'[c] \subseteq {c}
    BY <2>1, <2>4 DEF HandleReply, AnswerIsOwn, TypeOK
  <2> QED BY <2>5 DEF AnswerIsOwn
<1>2. CASE \/ Listen \/ Send \/ ChannelClosed
           \/ \E c \in Call : MakeCall(c) \/ Cancel(c)
           \/ \E g \in Channel : ReceiveRequest(g) \/ ServerChannelClosed(g)
           \/ \E r \in handlers : Finish(r)
           \/ UNCHANGED vars
  <2>1. answer' = answer
    BY <1>2 DEF Listen, Send, ChannelClosed, MakeCall, Cancel, ReceiveRequest,
                ServerChannelClosed, Finish, vars, caller
  <2> QED BY <2>1 DEF AnswerIsOwn
<1> QED BY <1>1, <1>2 DEF Next

-----------------------------------------------------------------------------
(* No call is started twice.                                                *)

(* No step takes a call out of the queue or back into it.                   *)
KeepsCalls ==
  \A c \in Call : /\ Gone(state, c) => Gone(state', c)
                  /\ state[c] = "waiting" => state'[c] = "waiting"

KeepsStarts ==
  \A g \in Channel : \A i \in 1 .. Len(up'[g]) :
    Starts(up'[g][i]) => i \in 1 .. Len(up[g]) /\ up'[g][i] = up[g][i]

LEMMA CallsOfQueues ==
  ASSUME TypeOK
  PROVE  /\ \A i \in 1 .. Len(queue) : queue[i] \in Call
         /\ \A i \in 1 .. Len(started) : started[i] \in Call
         /\ \A g \in Channel : \A i \in 1 .. Len(up[g]) :
              up[g][i] \in RpcMessage /\ up[g][i].call \in Call
         /\ \A g \in Channel : Len(up[g]) \in Nat
<1>1. queue \in Seq(Call) /\ started \in Seq(Call) /\ up \in [Channel -> Seq(RpcMessage)]
  BY DEF TypeOK
<1>2. \A message \in RpcMessage : message.call \in Call
  BY DEF RpcMessage
<1> QED BY <1>1, <1>2

LEMMA OnceKept ==
  ASSUME TypeOK, Once, KeepsCalls, KeepsStarts, UNCHANGED <<queue, started>>
  PROVE  Once'
<1>1. QueuedOnce'
  BY CallsOfQueues DEF Once, QueuedOnce, KeepsCalls
<1>2. UnderWayOnce'
  <2>1. ASSUME NEW g \in Channel, NEW i \in 1 .. Len(up'[g]), Starts(up'[g][i])
        PROVE  /\ Gone(state', up'[g][i].call)
               /\ \A k \in 1 .. Len(started') : started'[k] # up'[g][i].call
    <3>1. i \in 1 .. Len(up[g]) /\ up'[g][i] = up[g][i]
      BY <2>1 DEF KeepsStarts
    <3>2. Gone(state, up[g][i].call) /\ \A k \in 1 .. Len(started) : started[k] # up[g][i].call
      BY <2>1, <3>1 DEF Once, UnderWayOnce
    <3>3. Gone(state', up[g][i].call)
      BY <3>1, <3>2, CallsOfQueues DEF KeepsCalls
    <3>4. Gone(state', up'[g][i].call)
      BY <3>1, <3>3 DEF Gone
    <3> QED BY <3>1, <3>2, <3>4
  <2>2. \A g, h \in Channel : \A i \in 1 .. Len(up'[g]), j \in 1 .. Len(up'[h]) :
          Starts(up'[g][i]) /\ Starts(up'[h][j]) /\ up'[g][i].call = up'[h][j].call
          => g = h /\ i = j
    <3>1. \A g \in Channel : \A i \in 1 .. Len(up'[g]) :
            Starts(up'[g][i]) => i \in 1 .. Len(up[g]) /\ up'[g][i] = up[g][i]
      BY DEF KeepsStarts
    <3>2. \A g, h \in Channel : \A i \in 1 .. Len(up[g]), j \in 1 .. Len(up[h]) :
            Starts(up[g][i]) /\ Starts(up[h][j]) /\ up[g][i].call = up[h][j].call
            => g = h /\ i = j
      BY DEF Once, UnderWayOnce
    <3>3. ASSUME NEW g \in Channel, NEW h \in Channel,
                 NEW i \in 1 .. Len(up'[g]), NEW j \in 1 .. Len(up'[h]),
                 Starts(up'[g][i]), Starts(up'[h][j]), up'[g][i].call = up'[h][j].call
          PROVE  g = h /\ i = j
      <4>1. /\ i \in 1 .. Len(up[g]) /\ up'[g][i] = up[g][i]
            /\ j \in 1 .. Len(up[h]) /\ up'[h][j] = up[h][j]
        BY <3>1, <3>3
      <4>2. Starts(up[g][i]) /\ Starts(up[h][j]) /\ up[g][i].call = up[h][j].call
        BY <3>3, <4>1
      <4> QED BY <3>2, <4>1, <4>2
    <3> QED BY <3>3
  <2> QED BY <2>1, <2>2 DEF UnderWayOnce, Gone, Starts
<1>3. StartedOnce'
  BY CallsOfQueues DEF Once, StartedOnce, AtMostOnce, KeepsCalls, Gone
<1> QED BY <1>1, <1>2, <1>3 DEF Once

LEMMA MakeCallOnce ==
  ASSUME TypeOK, Once, NEW c \in Call, MakeCall(c)
  PROVE  Once'
<1>1. /\ up' = up /\ started' = started
      /\ state' = [state EXCEPT ![c] = "waiting"] /\ state[c] = "idle"
      /\ queue' = Append(queue, c) /\ queue \in Seq(Call)
  BY DEF MakeCall, server, TypeOK
<1>2. \A d \in Call : d # c => state'[d] = state[d]
  BY <1>1 DEF TypeOK
<1>3. state'[c] = "waiting" /\ ~Gone(state, c)
  BY <1>1 DEF TypeOK, Gone
<1>4. QueuedOnce'
  <2>1. \A i \in 1 .. Len(queue') :
          \/ i \in 1 .. Len(queue) /\ queue'[i] = queue[i]
          \/ i = Len(queue) + 1 /\ queue'[i] = c
    BY <1>1, AppendAt
  <2>2. \A i \in 1 .. Len(queue) : queue[i] # c /\ state'[queue[i]] = "waiting"
    BY <1>1, <1>2, CallsOfQueues DEF Once, QueuedOnce
  <2>3. \A i \in 1 .. Len(queue') : state'[queue'[i]] = "waiting"
    BY <1>3, <2>1, <2>2
  <2>4. \A i, j \in 1 .. Len(queue') : queue'[i] = queue'[j] => i = j
    BY <2>1, <2>2 DEF Once, QueuedOnce
  <2> QED BY <2>3, <2>4 DEF QueuedOnce
<1>5. \A d \in Call : Gone(state, d) => Gone(state', d)
  BY <1>2, <1>3 DEF Gone
<1>6. UnderWayOnce'
  <2>1. /\ up' = up /\ started' = started
        /\ \A g \in Channel : \A i \in 1 .. Len(up[g]) : up[g][i].call \in Call
    BY <1>1, CallsOfQueues
  <2>2. \A g \in Channel : \A i \in 1 .. Len(up[g]) :
          Starts(up[g][i]) => /\ Gone(state', up[g][i].call)
                              /\ \A k \in 1 .. Len(started) : started[k] # up[g][i].call
    BY <1>5, <2>1 DEF Once, UnderWayOnce
  <2>3. \A g, h \in Channel : \A i \in 1 .. Len(up[g]), j \in 1 .. Len(up[h]) :
          Starts(up[g][i]) /\ Starts(up[h][j]) /\ up[g][i].call = up[h][j].call
          => g = h /\ i = j
    BY DEF Once, UnderWayOnce
  <2> QED BY <2>1, <2>2, <2>3 DEF UnderWayOnce, Gone
<1>7. StartedOnce'
  BY <1>1, <1>5, CallsOfQueues DEF Once, StartedOnce, AtMostOnce, Gone
<1> QED BY <1>4, <1>6, <1>7 DEF Once

LEMMA SendOnce == TypeOK /\ DeferredIsLast /\ Once /\ Send => Once'
<1> SUFFICES ASSUME TypeOK, DeferredIsLast, Once, Send PROVE Once'
  OBVIOUS
<1> DEFINE c == Head(queue)
<1>1. /\ queue \in Seq(Call) /\ queue # <<>> /\ queue' = Tail(queue) /\ started' = started
      /\ c \in Call
  BY SendAdds DEF Send, TypeOK, server
<1>2. /\ 1 \in 1 .. Len(queue) /\ c = queue[1]
      /\ \A i \in 1 .. Len(queue') : i + 1 \in 2 .. Len(queue) /\ queue'[i] = queue[i + 1]
  BY <1>1, TailAt
<1>3. PICK written \in CallerCommit, cancelWritten \in CallerCommit :
        SendNotification(c, written) \/ SendRequest(c, written, cancelWritten)
  BY DEF Send
<1>4. Adds(c)
  BY SendAdds
<1> HIDE DEF c
<1>5. state[c] = "waiting"
  BY <1>2 DEF Once, QueuedOnce
<1>6. Gone(state', c) /\ \A d \in Call : d # c => state'[d] = state[d]
  BY <1>1, <1>3 DEF SendNotification, SendRequest, Gone, TypeOK
<1>7. \A d \in Call : Gone(state, d) => d # c /\ Gone(state', d)
  BY <1>5, <1>6 DEF Gone
<1>8. QueuedOnce'
  <2>1. \A i \in 2 .. Len(queue) : i \in 1 .. Len(queue) /\ i # 1
    BY <1>1
  <2>2. \A i \in 1 .. Len(queue') :
          /\ i + 1 \in 1 .. Len(queue) /\ queue'[i] = queue[i + 1] /\ queue'[i] # c
    BY <1>2, <2>1 DEF Once, QueuedOnce
  <2>3. \A i \in 1 .. Len(queue') : state'[queue'[i]] = "waiting"
    BY <1>6, <2>2, CallsOfQueues DEF Once, QueuedOnce
  <2>4. \A i, j \in 1 .. Len(queue') : queue'[i] = queue'[j] => i = j
    BY <2>2 DEF Once, QueuedOnce
  <2> QED BY <2>3, <2>4 DEF QueuedOnce
<1>9. UnderWayOnce'
  <2>1. ASSUME NEW g \in Channel, NEW i \in 1 .. Len(up'[g]), Starts(up'[g][i])
        PROVE  \/ /\ i \in 1 .. Len(up[g]) /\ up'[g][i] = up[g][i]
                  /\ up'[g][i].call # c /\ Gone(state', up'[g][i].call)
                  /\ \A k \in 1 .. Len(started) : started[k] # up'[g][i].call
               \/ g = channels /\ i = Len(up[g]) + 1 /\ up'[g][i].call = c
    <3>1. CASE i \in 1 .. Len(up[g]) /\ up'[g][i] = up[g][i]
      <4>1. /\ Gone(state, up[g][i].call) /\ up[g][i].call \in Call
            /\ \A k \in 1 .. Len(started) : started[k] # up[g][i].call
        BY <2>1, <3>1, CallsOfQueues DEF Once, UnderWayOnce
      <4>2. up[g][i].call # c /\ Gone(state', up[g][i].call)
        BY <1>7, <4>1
      <4> QED BY <3>1, <4>1, <4>2 DEF Gone
    <3>2. CASE Added(g, i, c)
      BY <2>1, <3>2 DEF Added
    <3> QED BY <1>4, <3>1, <3>2 DEF Adds
  <2>2. \A k \in 1 .. Len(started) : started[k] # c
    BY <1>5 DEF Once, StartedOnce, Gone
  <2>3. ASSUME NEW g \in Channel, NEW i \in 1 .. Len(up'[g]), Starts(up'[g][i])
        PROVE  /\ Gone(state', up'[g][i].call)
               /\ \A k \in 1 .. Len(started') : started'[k] # up'[g][i].call
    BY <1>1, <1>6, <2>1, <2>2, <2>3 DEF Gone
  <2>4. ASSUME NEW g \in Channel, NEW h \in Channel,
               NEW i \in 1 .. Len(up'[g]), NEW j \in 1 .. Len(up'[h]),
               Starts(up'[g][i]), Starts(up'[h][j]), up'[g][i].call = up'[h][j].call
        PROVE  g = h /\ i = j
    <3>1. CASE up'[g][i].call = c
      BY <2>1, <2>4, <3>1
    <3>2. CASE up'[g][i].call # c
      <4>1. /\ i \in 1 .. Len(up[g]) /\ up'[g][i] = up[g][i]
            /\ j \in 1 .. Len(up[h]) /\ up'[h][j] = up[h][j]
        BY <2>1, <2>4, <3>2
      <4> QED BY <2>4, <4>1 DEF Once, UnderWayOnce
    <3> QED BY <3>1, <3>2
  <2> QED BY <2>3, <2>4 DEF UnderWayOnce, Gone, Starts
<1>10. StartedOnce'
  <2>1. \A k \in 1 .. Len(started) : started[k] \in Call /\ Gone(state, started[k])
    BY CallsOfQueues DEF Once, StartedOnce
  <2>2. \A k \in 1 .. Len(started) : Gone(state', started[k])
    BY <1>1, <1>7, <2>1 DEF Gone
  <2> QED BY <1>1, <2>2 DEF Once, StartedOnce, AtMostOnce, Gone
<1> QED BY <1>8, <1>9, <1>10 DEF Once

LEMMA ReceiveRequestOnce ==
  ASSUME TypeOK, Once, NEW g \in Channel, ReceiveRequest(g)
  PROVE  Once'
<1> DEFINE message == Head(up[g])
<1>1. /\ queue' = queue /\ state' = state
      /\ up' = [up EXCEPT ![g] = Tail(@)] /\ up[g] # <<>>
  BY DEF ReceiveRequest, caller
<1>2. /\ 1 \in 1 .. Len(up[g]) /\ message = up[g][1] /\ message \in RpcMessage
      /\ \A h \in Channel : \A i \in 1 .. Len(up'[h]) :
           \/ h # g /\ i \in 1 .. Len(up[h]) /\ up'[h][i] = up[h][i]
           \/ /\ h = g /\ i + 1 \in 2 .. Len(up[h])
              /\ up'[h][i] = up[h][i + 1]
  BY <1>1, PopAt DEF TypeOK
<1>3. \/ message.type = "Request" /\ HandleRequest(g, message)
      \/ message.type = "Cancel" /\ HandleCancel(g, message)
      \/ message.type = "Notification" /\ HandleNotify(g, message)
  BY DEF ReceiveRequest
<1> HIDE DEF message
<1>4. message.call \in Call /\ started \in Seq(Call)
  BY <1>2 DEF RpcMessage, TypeOK
<1>5. \/ started' = started
      \/ started' = Append(started, message.call) /\ Starts(message)
  BY <1>3 DEF HandleRequest, HandleCancel, HandleNotify, Starts
<1>6. QueuedOnce'
  BY <1>1 DEF Once, QueuedOnce
<1> DEFINE at(h, i) == IF h = g THEN i + 1 ELSE i
<1>7. ASSUME NEW h \in Channel, NEW i \in 1 .. Len(up'[h])
      PROVE  /\ at(h, i) \in 1 .. Len(up[h]) /\ up'[h][i] = up[h][at(h, i)]
             /\ ~(h = g /\ at(h, i) = 1)
  <2>1. \A j \in 2 .. Len(up[h]) : j \in 1 .. Len(up[h]) /\ j # 1
    BY CallsOfQueues
  <2> QED BY <1>2, <2>1
<1>8. \A k \in 1 .. Len(started') :
        \/ k \in 1 .. Len(started) /\ started'[k] = started[k]
        \/ k = Len(started) + 1 /\ started'[k] = message.call /\ Starts(message)
  BY <1>4, <1>5, AppendAt
<1>9. UnderWayOnce'
  <2>1. ASSUME NEW h \in Channel, NEW i \in 1 .. Len(up'[h]), Starts(up'[h][i])
        PROVE  /\ Gone(state', up'[h][i].call)
               /\ \A k \in 1 .. Len(started') : started'[k] # up'[h][i].call
    <3>1. /\ Gone(state, up[h][at(h, i)].call)
          /\ \A k \in 1 .. Len(started) : started[k] # up[h][at(h, i)].call
      BY <1>7, <2>1 DEF Once, UnderWayOnce
    <3>2. Starts(message) => message.call # up[h][at(h, i)].call
      BY <1>2, <1>7, <2>1 DEF Once, UnderWayOnce
    <3>3. up'[h][i].call = up[h][at(h, i)].call
      BY <1>7
    <3>4. Gone(state', up'[h][i].call)
      BY <1>1, <3>1, <3>3 DEF Gone
    <3>5. \A k \in 1 .. Len(started') : started'[k] # up'[h][i].call
      BY <1>8, <3>1, <3>2, <3>3
    <3> QED BY <3>4, <3>5
  <2>2. ASSUME NEW h \in Channel, NEW f \in Channel,
               NEW i \in 1 .. Len(up'[h]), NEW j \in 1 .. Len(up'[f]),
               Starts(up'[h][i]), Starts(up'[f][j]), up'[h][i].call = up'[f][j].call
        PROVE  h = f /\ i = j
    <3>1. /\ at(h, i) \in 1 .. Len(up[h]) /\ up'[h][i] = up[h][at(h, i)]
          /\ at(f, j) \in 1 .. Len(up[f]) /\ up'[f][j] = up[f][at(f, j)]
      BY <1>7
    <3>2. PICK k \in 1 .. Len(up[h]), l \in 1 .. Len(up[f]) :
            /\ k = at(h, i) /\ l = at(f, j)
            /\ up'[h][i] = up[h][k] /\ up'[f][j] = up[f][l]
      BY <3>1
    <3>3. /\ Starts(up[h][k]) /\ Starts(up[f][l])
          /\ up[h][k].call = up[f][l].call
      BY <2>2, <3>2
    <3>4. h = f /\ k = l
      <4>1. UnderWayOnce
        BY DEF Once
      <4> QED BY <3>3, <4>1 DEF UnderWayOnce
    <3> QED BY <3>2, <3>4
  <2> QED BY <2>1, <2>2 DEF UnderWayOnce, Gone, Starts
<1>10. StartedOnce'
  <2>1. Starts(message) => /\ Gone(state, message.call)
                           /\ \A k \in 1 .. Len(started) : started[k] # message.call
    BY <1>2 DEF Once, UnderWayOnce
  <2>2. \A k \in 1 .. Len(started') : Gone(state, started'[k])
    BY <1>8, <2>1 DEF Once, StartedOnce
  <2>3. \A i, j \in 1 .. Len(started') : started'[i] = started'[j] => i = j
    BY <1>8, <2>1 DEF Once, StartedOnce, AtMostOnce
  <2> QED BY <1>1, <2>2, <2>3 DEF StartedOnce, AtMostOnce, Gone
<1> QED BY <1>6, <1>9, <1>10 DEF Once

LEMMA OnceNext ==
  TypeOK /\ DeferredIsLast /\ PendingTracked /\ Once /\ [Next]_vars => Once'
<1> SUFFICES ASSUME TypeOK, DeferredIsLast, PendingTracked, Once, [Next]_vars PROVE Once'
  OBVIOUS
<1>1. ASSUME UNCHANGED up PROVE KeepsStarts
  BY <1>1 DEF KeepsStarts
<1>2. ASSUME NEW c \in Call, Cancel(c) PROVE Once'
  <2>1. KeepsCalls /\ UNCHANGED <<queue, started>>
    BY <1>2 DEF Cancel, server, KeepsCalls, Gone
  <2>2. KeepsStarts
    <3>1. \A g \in Channel : \A i \in 1 .. Len(up'[g]) :
            \/ i \in 1 .. Len(up[g]) /\ up'[g][i] = up[g][i]
            \/ up'[g][i].type = "Cancel"
      BY <1>2, CancelAdds
    <3> QED BY <3>1 DEF KeepsStarts, Starts
  <2> QED BY <2>1, <2>2, OnceKept
<1>3. ASSUME NEW g \in Channel, ServerChannelClosed(g) PROVE Once'
  <2>1. KeepsCalls /\ UNCHANGED <<queue, started>>
    BY <1>3 DEF ServerChannelClosed, caller, server, KeepsCalls, Gone
  <2>2. KeepsStarts
    BY <1>3, ClearAt DEF ServerChannelClosed, TypeOK, KeepsStarts
  <2> QED BY <2>1, <2>2, OnceKept
<1>4. CASE ReceiveReply
  <2>1. KeepsCalls /\ UNCHANGED <<queue, started, up>>
    BY <1>4 DEF ReceiveReply, HandleReply, server, KeepsCalls, Gone, TypeOK
  <2> QED BY <1>1, <2>1, OnceKept
<1>5. CASE ChannelClosed
  <2>1. KeepsCalls /\ UNCHANGED <<queue, started, up>>
    BY <1>5 DEF ChannelClosed, RejectPending, UnderWay, server, KeepsCalls, Gone, TypeOK
  <2> QED BY <1>1, <2>1, OnceKept
<1>6. CASE Listen \/ (\E r \in handlers : Finish(r)) \/ UNCHANGED vars
  <2>1. KeepsCalls /\ UNCHANGED <<queue, started, up>>
    BY <1>6 DEF Listen, Finish, vars, caller, server, KeepsCalls, Gone
  <2> QED BY <1>1, <2>1, OnceKept
<1> QED BY <1>2, <1>3, <1>4, <1>5, <1>6, MakeCallOnce, SendOnce, ReceiveRequestOnce DEF Next

-----------------------------------------------------------------------------
LEMMA InvInit == Init => Inv
<1> SUFFICES ASSUME Init PROVE Inv
  OBVIOUS
<1>1. TypeOK /\ DeferredIsLast
  BY TypeInit
<1>2. PendingTracked /\ TokensOfHandlers /\ CancelIsOwn /\ AnswerIsOwn
  BY DEF Init, PendingTracked, TokensOfHandlers, CancelIsOwn, AnswerIsOwn
<1>3. \A g \in Channel : up[g] = <<>> /\ down[g] = <<>>
  BY DEF Init
<1>4. Ids
  <2>1. \A r \in RequestType : r.channel \in Channel
    BY DEF RequestType
  <2>2. handlers = {} /\ tokenSources = {} /\ tokensCancelled = {} /\ pendingRequests = {}
    BY DEF Init
  <2>3. \A r \in RequestType : ~KnownAs(r)
    BY <1>3, <2>1, <2>2 DEF KnownAs, Carries
  <2> QED BY <2>3 DEF Ids, IdsOwn, Numbered
<1>5. CancelsOwn
  BY <1>3 DEF CancelsOwn
<1>6. Once
  BY <1>3 DEF Init, Once, QueuedOnce, UnderWayOnce, StartedOnce, AtMostOnce
<1> QED BY <1>1, <1>2, <1>4, <1>5, <1>6 DEF Inv

LEMMA InvNext == Inv /\ [Next]_vars => Inv'
  BY TypeNext, DeferredNext, TrackedNext, TokensNext, IdsNext, CancelsNext,
     CancelIsOwnNext, AnswerIsOwnNext, OnceNext DEF Inv

\* Every variable keeps its type, for any calls and any number of channels.
THEOREM TypeCorrect == Spec => []TypeOK
<1>1. Inv => TypeOK
  BY DEF Inv
<1> QED BY <1>1, InvInit, InvNext, PTL DEF Spec

\* The caller's and the server's maps hold exactly what is under way: no
\* request is lost while its caller waits, no listener outlives its call and
\* no token source its handler.
THEOREM EntriesStayTracked == Spec => []EntriesTracked
<1>1. Inv => EntriesTracked
  BY DEF Inv, EntriesTracked
<1> QED BY <1>1, InvInit, InvNext, PTL DEF Spec

\* No caller is given the result of another call, although every channel
\* begins to number its requests at 0 and replies are matched by number.
THEOREM AnswersAreOwn == Spec => []AnswerIsOwn
<1>1. Inv => AnswerIsOwn
  BY DEF Inv
<1> QED BY <1>1, InvInit, InvNext, PTL DEF Spec

\* No handler sees its token cancelled by a message that is about another
\* call, although cancels too are matched by number.
THEOREM CancelsAreOwn == Spec => []CancelIsOwn
<1>1. Inv => CancelIsOwn
  BY DEF Inv
<1> QED BY <1>1, InvInit, InvNext, PTL DEF Spec

\* No call is started twice, whenever its channel is closed and whichever of
\* its messages are lost with it.
THEOREM StartedAtMostOnce == Spec => []AtMostOnce
<1>1. Inv => AtMostOnce
  BY DEF Inv, Once, StartedOnce
<1> QED BY <1>1, InvInit, InvNext, PTL DEF Spec

-----------------------------------------------------------------------------
(* No call is forgotten.                                                     *)

(* Something is left that will settle the pending request r.                *)
Fine(r) ==
  state[r.call] = "sent" /\ channels \in serving /\ r.call \notin dropped
  => Awaited(r) /\ (r.call \in cancelled => CancelComes(r))

Expected == \A r \in pendingRequests : Fine(r)

(* A call has one request at most.                                          *)
PendingOnce ==
  /\ \A r \in pendingRequests : Gone(state, r.call)
  /\ \A r, s \in pendingRequests : r.call = s.call => r = s

Queued ==
  \A c \in Call : state[c] = "waiting" => \E i \in 1 .. Len(queue) : queue[i] = c

Known == PendingOnce /\ Queued /\ Expected

LEMMA PendingFields ==
  ASSUME TypeOK
  PROVE  \A r \in pendingRequests :
           /\ r.id \in Nat /\ r.call \in Call /\ r = [id |-> r.id, call |-> r.call]
  BY DEF TypeOK

(* What a queue of messages holds, as it grows and is consumed.             *)
Grows(q, p) == \A i \in 1 .. Len(q) : i \in 1 .. Len(p) /\ p[i] = q[i]

LEMMA GrowHolds ==
  ASSUME NEW q, NEW p, Grows(q, p), NEW r
  PROVE  /\ \A types : Holds(q, types, r) => Holds(p, types, r)
         /\ CancelBehind(q, r) => CancelBehind(p, r)
<1>1. ASSUME NEW types, Holds(q, types, r) PROVE Holds(p, types, r)
  BY <1>1 DEF Grows, Holds
<1>2. ASSUME CancelBehind(q, r) PROVE CancelBehind(p, r)
  <2>1. PICK i \in 1 .. Len(q), j \in 1 .. Len(q) :
          i < j /\ Is(q[i], {"Request"}, r) /\ Is(q[j], {"Cancel"}, r)
    BY <1>2 DEF CancelBehind
  <2>2. i \in 1 .. Len(p) /\ j \in 1 .. Len(p) /\ p[i] = q[i] /\ p[j] = q[j]
    BY DEF Grows
  <2> QED BY <2>1, <2>2 DEF CancelBehind
<1> QED BY <1>1, <1>2

LEMMA SameGrows == \A q : Grows(q, q)
  BY DEF Grows

LEMMA AppendGrows ==
  ASSUME NEW q \in Seq(RpcMessage), NEW e \in RpcMessage
  PROVE  Grows(q, Append(q, e))
  BY AppendAt DEF Grows

LEMMA AppendHolds ==
  ASSUME NEW q \in Seq(RpcMessage), NEW e \in RpcMessage, NEW r
  PROVE  /\ \A types : Is(e, types, r) => Holds(Append(q, e), types, r)
         /\ Holds(q, {"Request"}, r) /\ Is(e, {"Cancel"}, r) => CancelBehind(Append(q, e), r)
<1> DEFINE p == Append(q, e)
<1>1. /\ Len(q) \in Nat /\ Len(p) = Len(q) + 1 /\ p[Len(q) + 1] = e
      /\ Len(q) + 1 \in 1 .. Len(p)
  BY AppendAt
<1>2. \A i \in 1 .. Len(q) : i \in 1 .. Len(p) /\ p[i] = q[i] /\ i < Len(q) + 1
  BY AppendAt
<1> HIDE DEF p
<1>3. \A types : Is(e, types, r) => Holds(p, types, r)
  BY <1>1 DEF Holds
<1>4. Holds(q, {"Request"}, r) /\ Is(e, {"Cancel"}, r) => CancelBehind(p, r)
  BY <1>1, <1>2 DEF Holds, CancelBehind
<1> QED BY <1>3, <1>4 DEF p

LEMMA TailHolds ==
  ASSUME NEW q \in Seq(RpcMessage), q # <<>>, NEW r
  PROVE  /\ \A types : Holds(q, types, r) => Is(Head(q), types, r) \/ Holds(Tail(q), types, r)
         /\ CancelBehind(q, r) => \/ CancelBehind(Tail(q), r)
                                  \/ /\ Is(Head(q), {"Request"}, r)
                                     /\ Holds(Tail(q), {"Cancel"}, r)
<1> DEFINE p == Tail(q)
<1>1. /\ Len(q) \in Nat /\ Len(p) = Len(q) - 1 /\ Head(q) = q[1]
      /\ \A i \in 1 .. Len(p) : p[i] = q[i + 1]
  BY TailAt
<1> HIDE DEF p
<1>2. ASSUME NEW i \in 1 .. Len(q), i # 1
      PROVE  i - 1 \in 1 .. Len(p) /\ p[i - 1] = q[i]
  <2>1. i - 1 \in 1 .. Len(p) /\ (i - 1) + 1 = i
    BY <1>1, <1>2
  <2>2. p[i - 1] = q[(i - 1) + 1]
    BY <1>1, <2>1
  <2> QED BY <2>1, <2>2
<1>3. ASSUME NEW types, Holds(q, types, r)
      PROVE  Is(Head(q), types, r) \/ Holds(p, types, r)
  <2>1. PICK i \in 1 .. Len(q) : Is(q[i], types, r)
    BY <1>3 DEF Holds
  <2> QED BY <1>1, <1>2, <2>1 DEF Holds
<1>4. ASSUME CancelBehind(q, r)
      PROVE  \/ CancelBehind(p, r)
             \/ Is(Head(q), {"Request"}, r) /\ Holds(p, {"Cancel"}, r)
  <2>1. PICK i \in 1 .. Len(q), j \in 1 .. Len(q) :
          i < j /\ Is(q[i], {"Request"}, r) /\ Is(q[j], {"Cancel"}, r)
    BY <1>4 DEF CancelBehind
  <2>2. j - 1 \in 1 .. Len(p) /\ p[j - 1] = q[j]
    BY <1>2, <2>1
  <2>3. CASE i = 1
    BY <1>1, <2>1, <2>2, <2>3 DEF Holds
  <2>4. CASE i # 1
    <3>1. i - 1 \in 1 .. Len(p) /\ p[i - 1] = q[i] /\ i - 1 < j - 1
      BY <1>2, <2>1, <2>4
    <3> QED BY <2>1, <2>2, <3>1 DEF CancelBehind
  <2> QED BY <2>3, <2>4
<1> QED BY <1>3, <1>4 DEF p

LEMMA ToServerHolds ==
  ASSUME NEW queues \in [Channel -> Seq(RpcMessage)], NEW g \in Channel,
         NEW type \in RpcMessageType, NEW id \in Nat, NEW c \in Call
  PROVE  LET message == [type |-> type, id |-> id, call |-> c]
             pushed  == ToServer(queues, g, type, id, c)
         IN /\ message \in RpcMessage
            /\ \A h \in Channel : Grows(queues[h], pushed[h])
            /\ g \in serving => pushed[g] = Append(queues[g], message)
<1> DEFINE message == [type |-> type, id |-> id, call |-> c]
           pushed  == ToServer(queues, g, type, id, c)
<1>1. message \in RpcMessage
  BY DEF RpcMessage
<1>2. pushed = IF g \in serving THEN [queues EXCEPT ![g] = Append(@, message)] ELSE queues
  BY DEF ToServer, Push
<1> HIDE DEF message, pushed
<1>3. g \in serving => pushed[g] = Append(queues[g], message)
  BY <1>2
<1>4. ASSUME NEW h \in Channel PROVE Grows(queues[h], pushed[h])
  <2>1. pushed[h] = queues[h] \/ pushed[h] = Append(queues[h], message)
    BY <1>2
  <2> QED BY <1>1, <2>1, SameGrows, AppendGrows
<1> QED BY <1>1, <1>3, <1>4 DEF message, pushed

-----------------------------------------------------------------------------
(* A step that takes nothing away leaves the pending requests what they     *)
(* had.                                                                     *)
Adding ==
  /\ channels' = channels /\ (channels \in serving' => channels \in serving)
  /\ dropped \subseteq dropped'
  /\ handlers \subseteq handlers' /\ tokenSources \subseteq tokenSources'
  /\ tokensCancelled \subseteq tokensCancelled'
  /\ channels \in serving' =>
       Grows(up[channels], up'[channels]) /\ Grows(down[channels], down'[channels])

LEMMA AddingKeeps ==
  ASSUME Adding, NEW r, channels \in serving'
  PROVE  /\ Awaited(r) => Awaited(r)'
         /\ CancelComes(r) => CancelComes(r)'
         /\ Holds(up[channels], {"Request"}, r) => Holds(up[channels], {"Request"}, r)'
<1>1. /\ \A types : Holds(up[channels], types, r) => Holds(up'[channels], types, r)
      /\ CancelBehind(up[channels], r) => CancelBehind(up'[channels], r)
      /\ \A types : Holds(down[channels], types, r) => Holds(down'[channels], types, r)
  BY GrowHolds DEF Adding
<1>2. channels' = channels /\ Running(r)' = Running(r)
  BY DEF Adding, Running
<1>3. Answered(r) => Answered(r)'
  BY <1>1, <1>2 DEF Answered
<1>4. Awaited(r) => Awaited(r)'
  BY <1>1, <1>2, <1>3 DEF Awaited, Adding
<1>5. CancelComes(r) => CancelComes(r)'
  BY <1>1, <1>2, <1>3 DEF CancelComes, Adding
<1> QED BY <1>1, <1>2, <1>4, <1>5

LEMMA FineKept ==
  ASSUME Adding, NEW r, Fine(r), cancelled' = cancelled,
         state'[r.call] = "sent" => state[r.call] = "sent"
  PROVE  Fine(r)'
<1> SUFFICES ASSUME state'[r.call] = "sent", channels' \in serving', r.call \notin dropped'
             PROVE  Awaited(r)' /\ (r.call \in cancelled' => CancelComes(r)')
  BY DEF Fine
<1>1. channels' = channels /\ channels \in serving /\ r.call \notin dropped
  BY DEF Adding
<1>2. Awaited(r) /\ (r.call \in cancelled => CancelComes(r))
  BY <1>1 DEF Fine
<1> QED BY <1>1, <1>2, AddingKeeps

LEMMA KnownKept ==
  ASSUME TypeOK, Known, Adding, cancelled' = cancelled,
         pendingRequests' = pendingRequests, UNCHANGED <<state, queue>>
  PROVE  Known'
<1>1. PendingOnce' /\ Queued'
  BY DEF Known, PendingOnce, Queued, Gone
<1>2. \A r \in pendingRequests' : Fine(r)'
  BY FineKept DEF Known, Expected
<1> QED BY <1>1, <1>2 DEF Known, Expected

-----------------------------------------------------------------------------
LEMMA MakeCallKnown == \A c \in Call : TypeOK /\ Known /\ MakeCall(c) => Known'
<1> SUFFICES ASSUME NEW c \in Call, TypeOK, Known, MakeCall(c) PROVE Known'
  OBVIOUS
<1>1. /\ state' = [state EXCEPT ![c] = "waiting"] /\ state[c] = "idle"
      /\ queue' = Append(queue, c) /\ queue \in Seq(Call)
      /\ pendingRequests' = pendingRequests /\ cancelled' = cancelled
  BY DEF MakeCall, protocol, TypeOK
<1>2. \A d \in Call : d # c => state'[d] = state[d]
  BY <1>1 DEF TypeOK
<1>3. state'[c] = "waiting"
  BY <1>1 DEF TypeOK
<1>4. PendingOnce'
  <2>1. \A r \in pendingRequests : Gone(state', r.call)
    BY <1>1, <1>2, PendingFields DEF Known, PendingOnce, Gone
  <2> QED BY <1>1, <2>1 DEF Known, PendingOnce, Gone
<1>5. Queued'
  <2>1. /\ Len(queue) + 1 \in 1 .. Len(queue') /\ queue'[Len(queue) + 1] = c
        /\ \A i \in 1 .. Len(queue) : i \in 1 .. Len(queue') /\ queue'[i] = queue[i]
    BY <1>1, AppendAt
  <2> QED BY <1>2, <2>1 DEF Known, Queued
<1>6. Adding
  BY SameGrows DEF MakeCall, Adding, server
<1>7. Expected'
  <2>1. \A r \in pendingRequests : state'[r.call] = "sent" => state[r.call] = "sent"
    BY <1>2, <1>3, PendingFields
  <2> QED BY <1>1, <1>6, <2>1, FineKept DEF Known, Expected
<1> QED BY <1>4, <1>5, <1>7 DEF Known

(* Send takes the first call from the queue.                                *)
LEMMA SendQueued ==
  ASSUME TypeOK, Known, Send, NEW c \in Call, c = Head(queue), Gone(state', c),
         \A d \in Call : d # c => state'[d] = state[d]
  PROVE  Queued'
<1>1. queue' = Tail(queue) /\ queue # <<>> /\ queue \in Seq(Call)
  BY DEF Send, TypeOK
<1>2. SUFFICES ASSUME NEW d \in Call, state'[d] = "waiting"
               PROVE  \E i \in 1 .. Len(queue') : queue'[i] = d
  BY DEF Queued
<1>3. d # c /\ state[d] = "waiting"
  BY <1>2 DEF Gone
<1>4. PICK i \in 1 .. Len(queue) : queue[i] = d
  BY <1>3 DEF Known, Queued
<1>5. i # 1
  BY <1>1, <1>3, <1>4
<1>6. i - 1 \in 1 .. Len(queue') /\ queue'[i - 1] = queue[i]
  BY <1>1, <1>5
<1> QED BY <1>4, <1>6

LEMMA SendKnown ==
  TypeOK /\ DeferredIsLast /\ Once /\ Known /\ Send => Known'
<1> SUFFICES ASSUME TypeOK, DeferredIsLast, Once, Known, Send PROVE Known'
  OBVIOUS
<1>2. queue # <<>> /\ queue \in Seq(Call)
  BY DEF Send, TypeOK
<1>4. PICK c \in Call : c = Head(queue)
  BY SendAdds
<1>1. PICK written \in CallerCommit, cancelWritten \in CallerCommit :
        \/ SendNotification(c, written)
        \/ SendRequest(c, written, cancelWritten)
  BY <1>4 DEF Send
<1>3. state[c] = "waiting"
  BY <1>2, <1>4, TailAt DEF Once, QueuedOnce
<1>5. Gone(state', c) /\ \A d \in Call : d # c => state'[d] = state[d]
  BY <1>1, <1>2 DEF SendNotification, SendRequest, Gone, TypeOK
<1>6. Queued'
  BY <1>2, <1>4, <1>5, SendQueued
<1>7. /\ channels' = channels /\ serving' = serving /\ cancelled' = cancelled /\ down' = down
      /\ handlers' = handlers /\ tokenSources' = tokenSources
      /\ tokensCancelled' = tokensCancelled
      /\ rpcDeferred = channels /\ channels \in Channel
  BY DeferredIsChannel DEF Send, server
<1>8. \A r \in pendingRequests : r.call \in Call /\ r.call # c
  BY <1>3, PendingFields DEF Known, PendingOnce, Gone
<1>9. \A r \in pendingRequests : /\ Gone(state', r.call)
                                 /\ state'[r.call] = state[r.call]
  BY <1>5, <1>8 DEF Known, PendingOnce, Gone
<1>10. up \in [Channel -> Seq(RpcMessage)] /\ nextMessageId \in Nat
       /\ "Request" \in RpcMessageType /\ "Cancel" \in RpcMessageType
       /\ "Notification" \in RpcMessageType
  BY DEF TypeOK, RpcMessageType
<1>11. CASE SendNotification(c, written)
  <2>1. pendingRequests' = pendingRequests /\ dropped' = dropped
    BY <1>11 DEF SendNotification
  <2>2. Grows(up[channels], up'[channels])
    <3>1. CASE ~written
      BY <1>11, <3>1, SameGrows DEF SendNotification
    <3>2. CASE written
      <4>1. up' = ToServer(up, channels, "Notification", nextMessageId, c)
        BY <1>7, <1>11, <3>2 DEF SendNotification
      <4> QED BY <1>2, <1>7, <1>10, <4>1, ToServerHolds
    <3> QED BY <3>1, <3>2
  <2>3. Adding
    BY <1>7, <2>1, <2>2, SameGrows DEF Adding
  <2>4. PendingOnce'
    BY <1>9, <2>1 DEF Known, PendingOnce, Gone
  <2>5. Expected'
    BY <1>7, <1>9, <2>1, <2>3, FineKept DEF Known, Expected
  <2> QED BY <1>6, <2>4, <2>5 DEF Known
<1>12. CASE SendRequest(c, written, cancelWritten)
  <2> PICK id \in Nat : id = nextMessageId
    BY <1>10
  <2> DEFINE request == ToServer(up, channels, "Request", id, c)
             both    == ToServer(request, channels, "Cancel", id, c)
             new     == [id |-> id, call |-> c]
             first   == [type |-> "Request", id |-> id, call |-> c]
             second  == [type |-> "Cancel", id |-> id, call |-> c]
  <2>1. /\ dropped' = dropped
        /\ pendingRequests' = IF written THEN pendingRequests \cup {new} ELSE pendingRequests
        /\ up' = IF ~written THEN up
                 ELSE IF c \in cancelled /\ cancelWritten THEN both ELSE request
        /\ state'[c] = "sent" => (c \in cancelled => cancelWritten)
    BY <1>2, <1>7, <1>12 DEF SendRequest, TypeOK
  <2>2. /\ first \in RpcMessage /\ Grows(up[channels], request[channels])
        /\ channels \in serving => request[channels] = Append(up[channels], first)
        /\ request \in [Channel -> Seq(RpcMessage)]
    <3>1. /\ first \in RpcMessage /\ Grows(up[channels], request[channels])
          /\ channels \in serving => request[channels] = Append(up[channels], first)
      BY <1>7, <1>10, ToServerHolds
    <3>2. request \in [Channel -> Seq(RpcMessage)]
      BY <1>7, <1>10, ToServerAt
    <3> QED BY <3>1, <3>2
  <2>3. /\ Is(first, {"Request"}, new) /\ Is(second, {"Cancel"}, new)
        /\ new.call = c
    BY DEF Is
  <2> HIDE DEF request
  <2>4. /\ second \in RpcMessage /\ Grows(request[channels], both[channels])
        /\ channels \in serving => both[channels] = Append(request[channels], second)
    BY <1>7, <1>10, <2>2, ToServerHolds
  <2> HIDE DEF both, first, second, new
  <2>5. Grows(up[channels], up'[channels])
    <3>1. Grows(up[channels], both[channels])
      BY <2>2, <2>4 DEF Grows
    <3> QED BY <2>1, <2>2, <3>1, SameGrows
  <2>6. Adding
    BY <1>7, <2>1, <2>5, SameGrows DEF Adding
  <2>7. PendingOnce'
    <3>1. \A r \in pendingRequests' : Gone(state', r.call)
      BY <1>5, <1>9, <2>1, <2>3
    <3>2. \A r, s \in pendingRequests' : r.call = s.call => r = s
      BY <1>8, <2>1, <2>3 DEF Known, PendingOnce
    <3> QED BY <3>1, <3>2 DEF PendingOnce, Gone
  <2>8. ASSUME NEW r \in pendingRequests PROVE Fine(r)'
    BY <1>7, <1>9, <2>6, FineKept DEF Known, Expected
  <2>9. ASSUME written PROVE Fine(new)'
    <3>1. SUFFICES ASSUME state'[c] = "sent", channels \in serving
                   PROVE  Awaited(new)' /\ (c \in cancelled => CancelComes(new)')
      BY <1>7, <2>3 DEF Fine
    <3>2. Holds(request[channels], {"Request"}, new)
      <4>1. up[channels] \in Seq(RpcMessage)
        BY <1>7, <1>10
      <4>2. Holds(Append(up[channels], first), {"Request"}, new)
        BY <2>2, <2>3, <4>1, AppendHolds
      <4> QED BY <2>2, <3>1, <4>2
    <3>3. Grows(request[channels], up'[channels])
      BY <2>1, <2>4, <2>9, SameGrows
    <3>4. Holds(up'[channels], {"Request"}, new)
      BY <3>2, <3>3, GrowHolds
    <3>5. Awaited(new)'
      BY <1>7, <3>4 DEF Awaited
    <3>6. ASSUME c \in cancelled PROVE CancelComes(new)'
      <4>1. up'[channels] = Append(request[channels], second)
        BY <2>1, <2>4, <2>9, <3>1, <3>6
      <4>2. CancelBehind(up'[channels], new)
        BY <1>7, <2>2, <2>3, <2>4, <3>2, <4>1, AppendHolds
      <4> QED BY <1>7, <4>2 DEF CancelComes
    <3> QED BY <3>5, <3>6
  <2>10. Expected'
    BY <2>1, <2>8, <2>9 DEF Expected
  <2> QED BY <1>6, <2>7, <2>10 DEF Known
<1> QED BY <1>1, <1>11, <1>12

LEMMA CancelKnown ==
  ASSUME TypeOK, DeferredIsLast, PendingTracked, TokensOfHandlers, Known,
         NEW c \in Call, Cancel(c)
  PROVE  Known'
<1>1. /\ channels' = channels /\ serving' = serving /\ state' = state /\ queue' = queue
      /\ pendingRequests' = pendingRequests /\ down' = down
      /\ handlers' = handlers /\ tokenSources' = tokenSources
      /\ tokensCancelled' = tokensCancelled
      /\ cancelled' = cancelled \cup {c} /\ c \in Cancellable
  BY DEF Cancel, protocol, server
<1>2. PendingOnce' /\ Queued'
  BY <1>1 DEF Known, PendingOnce, Queued, Gone
<1> DEFINE listening == {s \in pendingRequests : s.call = c /\ s.id \in cancellationListeners}
<1>3. listening = {s \in pendingRequests : s.call = c}
  BY DEF PendingTracked
<1>4. CASE listening = {}
  <2>1. UNCHANGED <<up, dropped>>
    BY <1>4 DEF Cancel
  <2>2. Adding
    BY <1>1, <2>1, SameGrows DEF Adding
  <2>3. ASSUME NEW r \in pendingRequests PROVE Fine(r)'
    <3>1. r.call # c
      BY <1>3, <1>4
    <3>2. Fine(r)
      BY DEF Known, Expected
    <3>3. SUFFICES ASSUME state[r.call] = "sent", channels \in serving', r.call \notin dropped
                   PROVE  Awaited(r)' /\ (r.call \in cancelled => CancelComes(r)')
      BY <1>1, <2>1, <3>1 DEF Fine
    <3>4. Awaited(r) /\ (r.call \in cancelled => CancelComes(r))
      BY <1>1, <3>2, <3>3 DEF Fine
    <3> QED BY <2>2, <3>3, <3>4, AddingKeeps
  <2> QED BY <1>1, <1>2, <2>3 DEF Known, Expected
<1>5. CASE listening # {}
  <2>1. PICK s \in listening, written \in CallerCommit :
          /\ up' = IF written THEN ToServer(up, channels, "Cancel", s.id, c) ELSE up
          /\ dropped' = IF written THEN dropped ELSE dropped \cup {c}
    BY <1>5 DEF Cancel
  <2>2. s \in pendingRequests /\ s.call = c /\ s.id \in Nat
    BY <1>3, PendingFields
  <2> HIDE DEF listening
  <2> DEFINE cancel == [type |-> "Cancel", id |-> s.id, call |-> c]
  <2>3. Is(cancel, {"Cancel"}, s)
    BY <2>2 DEF Is
  <2>4. ASSUME channels \in serving
        PROVE  /\ Grows(up[channels], up'[channels])
               /\ cancel \in RpcMessage /\ up[channels] \in Seq(RpcMessage)
               /\ written => up'[channels] = Append(up[channels], cancel)
    <3>1. /\ channels \in Channel /\ up \in [Channel -> Seq(RpcMessage)]
          /\ "Cancel" \in RpcMessageType
      BY <2>4 DEF TypeOK, RpcMessageType
    <3>2. LET pushed == ToServer(up, channels, "Cancel", s.id, c)
          IN /\ cancel \in RpcMessage
             /\ Grows(up[channels], pushed[channels])
             /\ channels \in serving => pushed[channels] = Append(up[channels], cancel)
      BY <2>2, <3>1, ToServerHolds
    <3> QED BY <2>1, <2>4, <3>1, <3>2, SameGrows
  <2> HIDE DEF cancel
  <2>5. Adding
    BY <1>1, <2>1, <2>4, SameGrows DEF Adding
  <2>6. ASSUME NEW r \in pendingRequests PROVE Fine(r)'
    <3>1. Fine(r)
      BY DEF Known, Expected
    <3>2. SUFFICES ASSUME state[r.call] = "sent", channels \in serving, r.call \notin dropped'
                   PROVE  Awaited(r)' /\ (r.call \in cancelled' => CancelComes(r)')
      BY <1>1 DEF Fine
    <3>3. Awaited(r) /\ (r.call \in cancelled => CancelComes(r))
      BY <2>5, <3>1, <3>2 DEF Fine, Adding
    <3>4. Awaited(r)'
      BY <1>1, <2>5, <3>2, <3>3, AddingKeeps
    <3>5. CASE r.call # c
      BY <1>1, <2>5, <3>2, <3>3, <3>4, <3>5, AddingKeeps
    <3>6. CASE r.call = c
      <4>1. r = s
        BY <2>2, <3>6 DEF Known, PendingOnce
      <4>2. written /\ up'[channels] = Append(up[channels], cancel)
        BY <2>1, <2>4, <3>2, <3>6
      <4>3. CASE Holds(up[channels], {"Request"}, r)
        <5>1. CancelBehind(up'[channels], r)
          BY <2>3, <2>4, <3>2, <4>1, <4>2, <4>3, AppendHolds
        <5> QED BY <1>1, <3>4, <5>1 DEF CancelComes
      <4>4. CASE Running(r) \in handlers
        <5>1. Running(r) \in tokenSources
          BY <1>1, <3>6, <4>4 DEF TokensOfHandlers, Running
        <5>2. Holds(up'[channels], {"Cancel"}, r)
          BY <2>3, <2>4, <3>2, <4>1, <4>2, AppendHolds
        <5>3. Running(r)' = Running(r)
          BY <1>1 DEF Running
        <5> QED BY <1>1, <3>4, <5>1, <5>2, <5>3 DEF CancelComes
      <4>5. CASE Answered(r)
        <5>1. Answered(r)'
          BY <1>1, <4>5 DEF Answered
        <5> QED BY <3>4, <5>1 DEF CancelComes
      <4> QED BY <3>3, <4>3, <4>4, <4>5 DEF Awaited
    <3> QED BY <3>5, <3>6
  <2> QED BY <1>1, <1>2, <2>6 DEF Known, Expected
<1> QED BY <1>4, <1>5

LEMMA ReplyKnown == TypeOK /\ DeferredIsLast /\ Known /\ ReceiveReply => Known'
<1> SUFFICES ASSUME TypeOK, DeferredIsLast, Known, ReceiveReply PROVE Known'
  OBVIOUS
<1> DEFINE message == Head(down[channels])
<1>1. /\ HandleReply(message) /\ channels \in Channel
      /\ down[channels] # <<>> /\ down[channels] \in Seq(RpcMessage)
      /\ down' = [down EXCEPT ![channels] = Tail(@)]
      /\ down'[channels] = Tail(down[channels])
  BY DEF ReceiveReply, DeferredIsLast, TypeOK, Channel
<1>2. /\ channels' = channels /\ serving' = serving /\ queue' = queue /\ up' = up
      /\ cancelled' = cancelled /\ dropped' = dropped /\ handlers' = handlers
      /\ tokenSources' = tokenSources /\ tokensCancelled' = tokensCancelled
  BY DEF ReceiveReply, server
<1> HIDE DEF message
<1>3. pendingRequests' = {r \in pendingRequests : r.id # message.id}
  BY <1>1 DEF HandleReply
<1>4. \A d \in Call : \/ state'[d] = state[d]
                      \/ state[d] = "sent" /\ state'[d] \in {"resolved", "rejected"}
  BY <1>1 DEF HandleReply, TypeOK
<1>5. PendingOnce' /\ Queued'
  <2>1. PendingOnce'
    BY <1>3, <1>4, PendingFields DEF Known, PendingOnce, Gone
  <2>2. \A d \in Call : state'[d] = "waiting" => state[d] = "waiting"
    BY <1>4
  <2> QED BY <1>2, <2>1, <2>2 DEF Known, Queued
<1>6. ASSUME NEW r \in pendingRequests' PROVE Fine(r)'
  <2>1. r \in pendingRequests /\ r.id # message.id /\ Fine(r) /\ r.call \in Call
    BY <1>3, <1>6, PendingFields DEF Known, Expected
  <2>2. SUFFICES ASSUME state'[r.call] = "sent", channels \in serving, r.call \notin dropped
                 PROVE  Awaited(r)' /\ (r.call \in cancelled => CancelComes(r)')
    BY <1>2 DEF Fine
  <2>3. Awaited(r) /\ (r.call \in cancelled => CancelComes(r))
    BY <1>4, <2>1, <2>2 DEF Fine
  <2>4. Answered(r) => Answered(r)'
    <3>1. \A types : ~Is(message, types, r)
      BY <2>1 DEF Is
    <3>2. \A types : Holds(down[channels], types, r) => Holds(Tail(down[channels]), types, r)
      BY <1>1, <3>1, TailHolds DEF message
    <3> QED BY <1>1, <1>2, <3>2 DEF Answered
  <2>5. Running(r)' = Running(r)
    BY <1>2 DEF Running
  <2>6. Awaited(r)'
    BY <1>2, <2>3, <2>4, <2>5 DEF Awaited
  <2>7. CancelComes(r) => CancelComes(r)'
    BY <1>2, <2>4, <2>5 DEF CancelComes
  <2> QED BY <2>3, <2>6, <2>7
<1> QED BY <1>5, <1>6 DEF Known, Expected

LEMMA ReceiveRequestKnown ==
  ASSUME TypeOK, TokensOfHandlers, Known, NEW g \in Channel, ReceiveRequest(g)
  PROVE  Known'
<1>1. /\ channels' = channels /\ serving' = serving /\ state' = state /\ queue' = queue
      /\ pendingRequests' = pendingRequests /\ down' = down
      /\ cancelled' = cancelled /\ dropped' = dropped
      /\ up' = [up EXCEPT ![g] = Tail(@)] /\ g \in serving
      /\ up \in [Channel -> Seq(RpcMessage)] /\ up[g] # <<>>
  BY DEF ReceiveRequest, caller, protocol, TypeOK
<1> DEFINE message == Head(up[g])
<1>2. \/ message.type = "Request" /\ HandleRequest(g, message)
      \/ message.type = "Cancel" /\ HandleCancel(g, message)
      \/ message.type = "Notification" /\ HandleNotify(g, message)
  BY DEF ReceiveRequest
<1> HIDE DEF message
<1>3. /\ handlers \subseteq handlers' /\ tokenSources \subseteq tokenSources'
      /\ tokensCancelled \subseteq tokensCancelled'
  BY <1>2 DEF HandleRequest, HandleCancel, HandleNotify
<1>4. CASE g # channels
  <2>1. up'[channels] = up[channels] \/ channels \notin serving
    BY <1>1, <1>4 DEF TypeOK
  <2>2. Adding
    BY <1>1, <1>3, <2>1, SameGrows DEF Adding
  <2> QED BY <1>1, <2>2, KnownKept
<1>5. CASE g = channels
  <2>1. PendingOnce' /\ Queued'
    BY <1>1 DEF Known, PendingOnce, Queued, Gone
  <2>2. ASSUME NEW r \in pendingRequests PROVE Fine(r)'
    <3>1. SUFFICES ASSUME state[r.call] = "sent", r.call \notin dropped
                   PROVE  Awaited(r)' /\ (r.call \in cancelled => CancelComes(r)')
      BY <1>1 DEF Fine
    <3>2. Awaited(r) /\ (r.call \in cancelled => CancelComes(r))
      BY <1>1, <1>5, <3>1 DEF Known, Expected, Fine
    <3>3. Running(r)' = Running(r) /\ (Answered(r) => Answered(r)')
      BY <1>1 DEF Running, Answered
    <3>4. /\ up'[channels] = Tail(up[channels]) /\ channels' = channels
          /\ up[channels] \in Seq(RpcMessage) /\ up[channels] # <<>>
          /\ message = Head(up[channels])
      BY <1>1, <1>5 DEF message
    <3>5. /\ \A types : Holds(up[channels], types, r) =>
                          Is(message, types, r) \/ Holds(up'[channels], types, r)
          /\ CancelBehind(up[channels], r) =>
               \/ CancelBehind(up'[channels], r)
               \/ Is(message, {"Request"}, r) /\ Holds(up'[channels], {"Cancel"}, r)
      BY <3>4, TailHolds
    <3>6. ASSUME Is(message, {"Request"}, r)
          PROVE  /\ Running(r) \in handlers'
                 /\ r.call \in Cancellable => Running(r) \in tokenSources'
      <4>1. HandleRequest(g, message) /\ Request(g, message) = Running(r)
        BY <1>2, <1>5, <3>6 DEF Is, Request, Running
      <4>2. message.call = r.call
        BY <3>6 DEF Is
      <4> QED BY <4>1, <4>2 DEF HandleRequest
    <3>7. ASSUME Is(message, {"Cancel"}, r), Running(r) \in tokenSources
          PROVE  Running(r) \in tokensCancelled'
      <4>1. HandleCancel(g, message) /\ message.id = r.id
        BY <1>2, <3>7 DEF Is
      <4>2. Running(r).channel = g /\ Running(r).id = message.id
        BY <1>5, <4>1 DEF Running
      <4> QED BY <3>7, <4>1, <4>2 DEF HandleCancel
    <3>8. Awaited(r)'
      BY <1>3, <3>2, <3>3, <3>4, <3>5, <3>6 DEF Awaited
    <3>9. ASSUME r.call \in cancelled PROVE CancelComes(r)'
      <4>1. r.call \in Cancellable
        BY <3>9 DEF TypeOK
      <4>2. CASE CancelBehind(up[channels], r)
        BY <3>3, <3>4, <3>5, <3>6, <4>1, <4>2 DEF CancelComes
      <4>3. CASE /\ Running(r) \in tokenSources
                 /\ Running(r) \in tokensCancelled \/ Holds(up[channels], {"Cancel"}, r)
        BY <1>3, <3>3, <3>4, <3>5, <3>7, <4>3 DEF CancelComes
      <4>4. CASE Answered(r)
        BY <3>3, <4>4 DEF CancelComes
      <4> QED BY <3>2, <3>9, <4>2, <4>3, <4>4 DEF CancelComes
    <3> QED BY <3>8, <3>9
  <2> QED BY <1>1, <2>1, <2>2 DEF Known, Expected
<1> QED BY <1>4, <1>5

LEMMA AnswerHolds ==
  ASSUME TypeOK, connected, NEW r \in pendingRequests, channels \in serving,
         NEW type \in {"Reply", "ReplyErr"}, Answer(Running(r), type)
  PROVE  Holds(down'[channels], {"Reply", "ReplyErr"}, r)
<1> DEFINE reply == [type |-> type, id |-> r.id, call |-> r.call]
<1>1. /\ reply \in RpcMessage /\ channels \in Channel
      /\ down \in [Channel -> Seq(RpcMessage)] /\ down[channels] \in Seq(RpcMessage)
  BY PendingFields DEF RpcMessage, RpcMessageType, TypeOK
<1>2. down'[channels] = Append(down[channels], reply)
  BY <1>1 DEF Answer, Push, Running
<1>3. Is(reply, {"Reply", "ReplyErr"}, r)
  BY DEF Is
<1> HIDE DEF reply
<1>4. Holds(Append(down[channels], reply), {"Reply", "ReplyErr"}, r)
  BY <1>1, <1>3, AppendHolds
<1> QED BY <1>2, <1>4

LEMMA FinishKnown ==
  ASSUME TypeOK, PendingTracked, Known, NEW f \in handlers, Finish(f)
  PROVE  Known'
<1>1. /\ channels' = channels /\ serving' = serving /\ state' = state /\ queue' = queue
      /\ pendingRequests' = pendingRequests /\ cancelled' = cancelled /\ up' = up
      /\ connected' = connected /\ tokensCancelled' = tokensCancelled
      /\ handlers' = handlers \ {f} /\ tokenSources' = tokenSources \ {f}
      /\ dropped \subseteq dropped'
  BY DEF Finish, caller, protocol
<1>2. PendingOnce' /\ Queued'
  BY <1>1 DEF Known, PendingOnce, Queued, Gone
<1>3. \/ \E type \in {"Reply", "ReplyErr"} : Answer(f, type)
      \/ f.call \in dropped' /\ UNCHANGED down
  BY DEF Finish
<1>4. ASSUME channels \in serving PROVE Grows(down[channels], down'[channels])
  <2>1. /\ f.channel \in Channel /\ f.id \in Nat /\ f.call \in Call /\ channels \in Channel
        /\ down \in [Channel -> Seq(RpcMessage)] /\ down[channels] \in Seq(RpcMessage)
    BY <1>4 DEF TypeOK, RequestType
  <2>2. CASE UNCHANGED down
    BY <2>2, SameGrows
  <2>3. ASSUME NEW type \in {"Reply", "ReplyErr"}, Answer(f, type)
        PROVE  Grows(down[channels], down'[channels])
    <3>1. [type |-> type, id |-> f.id, call |-> f.call] \in RpcMessage
      BY <2>1 DEF RpcMessage, RpcMessageType
    <3>2. \/ down'[channels] = down[channels]
          \/ down'[channels] =
               Append(down[channels], [type |-> type, id |-> f.id, call |-> f.call])
      BY <2>1, <2>3 DEF Answer, Push
    <3> QED BY <2>1, <3>1, <3>2, SameGrows, AppendGrows
  <2> QED BY <1>3, <2>2, <2>3
<1>5. ASSUME NEW r \in pendingRequests PROVE Fine(r)'
  <2>1. SUFFICES ASSUME state[r.call] = "sent", channels \in serving, r.call \notin dropped'
                 PROVE  Awaited(r)' /\ (r.call \in cancelled => CancelComes(r)')
    BY <1>1 DEF Fine
  <2>2. Awaited(r) /\ (r.call \in cancelled => CancelComes(r))
    BY <1>1, <2>1 DEF Known, Expected, Fine
  <2>3. Running(r)' = Running(r) /\ connected
    BY <1>1, <2>1, PendingFields DEF Running, PendingTracked
  <2>4. Answered(r) => Answered(r)'
    BY <1>1, <1>4, <2>1, GrowHolds DEF Answered
  <2>5. CASE Running(r) = f
    <3>1. f.call = r.call
      BY <2>5 DEF Running
    <3>2. PICK type \in {"Reply", "ReplyErr"} : Answer(f, type)
      BY <1>3, <2>1, <3>1
    <3>3. Answered(r)'
      BY <1>1, <2>1, <2>3, <2>5, <3>2, AnswerHolds DEF Answered
    <3> QED BY <3>3 DEF Awaited, CancelComes
  <2>6. CASE Running(r) # f
    <3>1. Awaited(r)'
      BY <1>1, <2>2, <2>3, <2>4, <2>6 DEF Awaited
    <3>2. CancelComes(r) => CancelComes(r)'
      BY <1>1, <2>3, <2>4, <2>6 DEF CancelComes
    <3> QED BY <2>2, <3>1, <3>2
  <2> QED BY <2>5, <2>6
<1> QED BY <1>1, <1>2, <1>5 DEF Known, Expected

LEMMA ServerChannelClosedKnown ==
  \A g \in Channel : TypeOK /\ Known /\ ServerChannelClosed(g) => Known'
<1> SUFFICES ASSUME NEW g \in Channel, TypeOK, Known, ServerChannelClosed(g) PROVE Known'
  OBVIOUS
<1>1. channels \in serving' => up'[channels] = up[channels]
  BY DEF ServerChannelClosed, TypeOK
<1>2. Adding
  BY <1>1, SameGrows DEF ServerChannelClosed, server, Adding
<1> QED BY <1>2, KnownKept DEF ServerChannelClosed, caller, protocol

(* A new protocol has no requests; the old one's are rejected.              *)
LEMMA RenewKnown ==
  TypeOK /\ Known /\ (Listen \/ ChannelClosed) => Known'
<1> SUFFICES ASSUME TypeOK, Known, Listen \/ ChannelClosed PROVE Known'
  OBVIOUS
<1>1. pendingRequests' = {} /\ queue' = queue
  BY DEF Listen, ChannelClosed, RejectPending
<1>2. \A c \in Call : state'[c] = "waiting" => state[c] = "waiting"
  BY DEF Listen, ChannelClosed, RejectPending, TypeOK
<1> QED BY <1>1, <1>2 DEF Known, PendingOnce, Queued, Expected

LEMMA KnownNext == Inv /\ Known /\ [Next]_vars => Known'
<1> SUFFICES ASSUME Inv, Known, [Next]_vars PROVE Known'
  OBVIOUS
<1>1. TypeOK /\ DeferredIsLast /\ PendingTracked /\ TokensOfHandlers /\ Once
  BY DEF Inv
<1>2. CASE UNCHANGED vars
  <2>1. Adding /\ UNCHANGED <<cancelled, pendingRequests, state, queue>>
    BY <1>2, SameGrows DEF vars, caller, protocol, server, Adding
  <2> QED BY <1>1, <2>1, KnownKept
<1>3. CASE Next
  BY <1>1, <1>3, MakeCallKnown, SendKnown, CancelKnown, ReplyKnown, ReceiveRequestKnown,
     FinishKnown, ServerChannelClosedKnown, RenewKnown DEF Next
<1> QED BY <1>2, <1>3

\* No call is forgotten: as long as its caller waits, the queue holds it, or
\* its request, its handler or its answer is on the open channel, or that
\* channel's closing will reject it; and no cancel is lost by overtaking its
\* request.  Each step under way settles the call or leaves another one.
THEOREM NoCallForgotten == Spec => []Accounted
<1>1. Init => Known
  BY DEF Init, Known, PendingOnce, Queued, Expected
<1>2. Inv /\ Known => Accounted
  <2> SUFFICES ASSUME Inv, Known, NEW c \in Call
               PROVE  /\ state[c] = "waiting" => \E i \in 1 .. Len(queue) : queue[i] = c
                      /\ state[c] = "sent" =>
                           \E r \in pendingRequests :
                             /\ r.call = c
                             /\ \/ channels \notin serving \/ c \in dropped
                                \/ Awaited(r) /\ (c \in cancelled => CancelComes(r))
    BY DEF Accounted
  <2>1. state[c] = "waiting" => \E i \in 1 .. Len(queue) : queue[i] = c
    BY DEF Known, Queued
  <2>2. ASSUME state[c] = "sent"
        PROVE  \E r \in pendingRequests :
                 /\ r.call = c
                 /\ \/ channels \notin serving \/ c \in dropped
                    \/ Awaited(r) /\ (c \in cancelled => CancelComes(r))
    <3>1. PICK r \in pendingRequests : r.call = c
      BY <2>2 DEF Inv, PendingTracked, UnderWay
    <3>2. Fine(r)
      BY DEF Known, Expected
    <3> QED BY <2>2, <3>1, <3>2 DEF Fine
  <2> QED BY <2>1, <2>2
<1> QED BY <1>1, <1>2, InvInit, InvNext, KnownNext, PTL DEF Spec
=============================================================================
