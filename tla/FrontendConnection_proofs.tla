--------------------- MODULE FrontendConnection_proofs ---------------------
(***************************************************************************)
(* What holds of FrontendConnection for every value of its constants.      *)
(***************************************************************************)
EXTENDS FrontendConnection, TLAPS

Queues == [Session -> Seq(Packet)]

-----------------------------------------------------------------------------
(* The operators on packets and queues stay within their types.             *)

\* Pushing packets on the queue of a session yields queues.
LEMMA PushType ==
  ASSUME NEW q \in Queues, NEW s \in Session, NEW p \in Seq(Packet)
  PROVE  Push(q, s, p) \in Queues
BY DEF Push, Queues

\* Removing the first packet of a queue that has one yields queues.
LEMMA PopType ==
  ASSUME NEW q \in Queues, NEW s \in Session, q[s] # <<>>
  PROVE  /\ Pop(q, s) \in Queues
         /\ Head(q[s]) \in Packet
BY DEF Pop, Queues

\* Emptying the queue of a session yields queues.
LEMMA ClearType ==
  ASSUME NEW q \in Queues, NEW s \in Session
  PROVE  Clear(q, s) \in Queues
BY DEF Clear, Queues

\* Emitting packets yields queues, whether or not the front end still listens.
LEMMA EmitType ==
  ASSUME NEW q \in Queues, NEW s \in Session, NEW p \in Seq(Packet)
  PROVE  Emit(q, s, p) \in Queues
BY PushType DEF Emit

\* A handshake event is a packet.
LEMMA SignalType ==
  ASSUME NEW t \in Control
  PROVE  /\ Signal(t) \in Packet
         /\ <<Signal(t)>> \in Seq(Packet)
<1>1. Signal(t) \in Packet
  BY DEF Signal, Packet
<1> QED BY <1>1

\* One or more messages make a packet.
LEMMA DataType ==
  ASSUME NEW b \in Seq(Message), b # <<>>
  PROVE  <<Data(b)>> \in Seq(Packet)
<1>1. Data(b) \in Packet
  BY DEF Data, Packet
<1> QED BY <1>1

\* The concatenation of two sequences over a set is one.
LEMMA ConcatType ==
  ASSUME NEW S, NEW a \in Seq(S), NEW b \in Seq(S)
  PROVE  a \o b \in Seq(S)
OBVIOUS

\* Flushing a buffer yields one packet or none.
LEMMA FlushedType ==
  ASSUME NEW b \in Seq(Message)
  PROVE  Flushed(b) \in Seq(Packet)
BY DataType DEF Flushed

\* Buffering a message yields a buffer.
LEMMA BufferedType ==
  ASSUME NEW b \in Seq(Message), NEW m \in Message
  PROVE  Buffered(b, m) \in Seq(Message)
BY DEF Buffered

\* A data packet decodes to a message.
LEMMA DecodedType ==
  ASSUME NEW p \in Packet, p.type = "message"
  PROVE  Decoded(p) \in Message
<1>1. p.body \in Seq(Message) /\ p.body # <<>>
  BY DEF Packet, Control
<1> QED BY <1>1 DEF Decoded

-----------------------------------------------------------------------------
(* Type correctness.                                                        *)

\* The initial state is well typed.
LEMMA InitType == Init => TypeOK
<1> SUFFICES ASSUME Init PROVE TypeOK
  OBVIOUS
<1>1. <<>> \in Seq(Packet) /\ <<>> \in Seq(Message)
  OBVIOUS
<1>2. up \in [Session -> Seq(Packet)] /\ down \in [Session -> Seq(Packet)]
  BY <1>1 DEF Init
<1>3. 0 \in 0 .. MaxSessions
  BY BoundsAssumption
<1> QED BY <1>1, <1>2, <1>3 DEF Init, TypeOK

\* Every step of the front end preserves the types.
LEMMA FrontendType == TypeOK /\ FrontendNext => TypeOK'
<1> SUFFICES ASSUME TypeOK, FrontendNext PROVE TypeOK'
  OBVIOUS
<1> USE DEF TypeOK
<1>0. socket # 0 => socket \in Session
  BY BoundsAssumption DEF Session
<1>e. <<>> \in Seq(Message)
  OBVIOUS
<1>1. CASE Connect
  <2> DEFINE s == sessions + 1
             call == IF currentChannel # 0 THEN "RECONNECT" ELSE "INITIAL"
             emits == Times(pendingEmits, Signal("INITIAL"))
  <2>1. s \in Session
    BY <1>1, BoundsAssumption DEF Connect, Session
  <2>2. <<Signal(call)>> \in Seq(Packet)
    BY SignalType DEF Control
  <2>3. emits \in Seq(Packet)
    <3>1. Signal("INITIAL") \in Packet
      BY SignalType DEF Control
    <3> QED BY <3>1 DEF Times
  <2>4. up' = [up EXCEPT ![s] = emits \o <<Signal(call)>>]
    BY <1>1 DEF Connect
  <2>5. emits \o <<Signal(call)>> \in Seq(Packet)
    BY <2>2, <2>3
  <2>6. up' \in [Session -> Seq(Packet)]
    BY <2>1, <2>4, <2>5
  <2>7. sessions' = s /\ socket' = s /\ s \in 0 .. MaxSessions
    BY <1>1, <2>1, BoundsAssumption DEF Connect, Session
  <2>8. alive' \subseteq Session /\ listening' \subseteq Session
    BY <1>1, <2>1 DEF Connect
  <2>9. /\ reconnectListeners' \in Nat /\ initialConnectListeners' \in Nat
        /\ pendingEmits' \in Nat
    BY <1>1 DEF Connect
  <2> QED
    BY <1>1, <2>6, <2>7, <2>8, <2>9 DEF Connect, page, context, closing
<1>2. CASE Disconnect
  <2>1. down' \in [Session -> Seq(Packet)]
    BY <1>0, <1>2, ClearType DEF Disconnect, Queues
  <2>2. socket' \in 0 .. MaxSessions
    BY <1>2, BoundsAssumption DEF Disconnect
  <2> QED
    BY <1>2, <2>1, <2>2 DEF Disconnect, page, handshake, context, closing, backend
<1>f. ASSUME FreshPage, socket # 0
      PROVE  /\ down' \in [Session -> Seq(Packet)]
             /\ socket' \in 0 .. MaxSessions
             /\ generations' \in Nat /\ currentChannel' \in Nat
             /\ channelOpen' \in BOOLEAN /\ gone' \in BOOLEAN
             /\ reconnectListeners' \in Nat /\ initialConnectListeners' \in Nat
             /\ pendingEmits' \in Nat /\ sent' \in Nat
             /\ writeBuffer' \in Seq(Message) /\ delivered' \in Seq(Message)
  <2>1. down' \in [Session -> Seq(Packet)]
    BY <1>0, <1>f, ClearType DEF FreshPage, Queues
  <2>2. socket' \in 0 .. MaxSessions
    BY <1>f, BoundsAssumption DEF FreshPage
  <2>3. gone' \in BOOLEAN
    BY <1>f, SettingsAssumption, Zenon DEF FreshPage
  <2>4. /\ UNCHANGED generations
        /\ currentChannel' = 0 /\ channelOpen' = FALSE
        /\ reconnectListeners' = 0 /\ initialConnectListeners' = 0
        /\ pendingEmits' = 0 /\ sent' = 0
        /\ writeBuffer' = <<>> /\ delivered' = <<>>
    BY <1>f, Zenon DEF FreshPage
  <2> QED BY <1>e, <2>1, <2>2, <2>3, <2>4
<1>3. CASE ReloadPage
  BY <1>3, <1>f DEF ReloadPage, context, closing, backend
<1>4. CASE ReceiveInitialConnect
  <2>1. down' \in [Session -> Seq(Packet)]
    BY <1>0, <1>4, PopType DEF ReceiveInitialConnect, Queues
  <2>2. CASE initialConnectListeners = 0
    BY <1>4, <2>1, <2>2
       DEF ReceiveInitialConnect, frontend, page, handshake, context, closing, backend
  <2>3. CASE initialConnectListeners # 0
    BY <1>4, <2>1, <2>3, SMTT(60)
       DEF ReceiveInitialConnect, ConnectNewChannels, context, closing, backend
  <2> QED BY <2>2, <2>3
<1>5. CASE ReceiveReconnected
  <2>1. down' \in [Session -> Seq(Packet)]
    BY <1>0, <1>5, PopType DEF ReceiveReconnected, Queues
  <2>2. up' \in [Session -> Seq(Packet)] /\ writeBuffer' \in Seq(Message)
    <3>1. CASE reconnectListeners = 0
      BY <1>5, <3>1 DEF ReceiveReconnected
    <3>2. CASE reconnectListeners # 0
      <4>1. Flushed(writeBuffer) \in Seq(Packet)
        BY FlushedType
      <4>2. Push(up, socket, Flushed(writeBuffer)) \in [Session -> Seq(Packet)]
        BY <1>0, <1>5, <4>1, PushType DEF ReceiveReconnected, Queues
      <4> QED
        BY <1>5, <1>e, <3>2, <4>2 DEF ReceiveReconnected, FlushWriteBuffer
    <3> QED BY <3>1, <3>2
  <2> QED
    BY <1>5, <2>1, <2>2 DEF ReceiveReconnected, page, context, closing, backend
<1>6. CASE ReceiveReconnectRefused
  <2>1. CASE FreshPage
    BY <1>6, <1>f, <2>1 DEF ReceiveReconnectRefused, context, closing, backend
  <2>2. CASE GiveUpChannel
    <3>1. down' \in [Session -> Seq(Packet)]
      BY <1>0, <1>6, <2>2, ClearType DEF ReceiveReconnectRefused, GiveUpChannel, Queues
    <3>2. socket' \in 0 .. MaxSessions
      BY <2>2, BoundsAssumption DEF GiveUpChannel
    <3>3. UNCHANGED <<sessions, up, alive, backend, received>>
      BY <1>6 DEF ReceiveReconnectRefused
    <3>4. /\ reconnectListeners' \in Nat /\ initialConnectListeners' \in Nat
          /\ pendingEmits' \in Nat
      BY <2>2 DEF GiveUpChannel
    <3>5. /\ channelOpen' = FALSE /\ writeBuffer' = <<>>
          /\ UNCHANGED <<generations, currentChannel, sent, gone, delivered>>
      BY <2>2 DEF GiveUpChannel
    <3> QED
      BY <1>e, <3>1, <3>2, <3>3, <3>4, <3>5 DEF context, closing, backend
  <2> QED BY <1>6, <2>1, <2>2 DEF ReceiveReconnectRefused
<1>7. CASE ReceiveMessage
  <2>1. down' \in [Session -> Seq(Packet)] /\ Head(down[socket]) \in Packet
    BY <1>0, <1>7, PopType DEF ReceiveMessage, Queues
  <2>2. delivered' \in Seq(Message)
    BY <1>7, <2>1, DecodedType DEF ReceiveMessage
  <2> QED
    BY <1>7, <2>1, <2>2
       DEF ReceiveMessage, frontend, page, handshake, context, closing, backend
<1>8. ASSUME NEW m \in Message, Commit(m)
      PROVE  up' \in [Session -> Seq(Packet)] /\ writeBuffer' \in Seq(Message)
  <2>1. <<m>> \in Seq(Message) /\ <<m>> # <<>>
    OBVIOUS
  <2>2. <<Data(<<m>>)>> \in Seq(Packet)
    BY <2>1, DataType
  <2>3. CASE socket = 0
    BY <1>8, <2>3, BufferedType DEF Commit
  <2>4. CASE socket # 0
    <3>1. Push(up, socket, <<Data(<<m>>)>>) \in [Session -> Seq(Packet)]
      BY <1>0, <2>2, <2>4, PushType DEF Queues
    <3> QED BY <1>8, <2>4, <3>1 DEF Commit
  <2> QED BY <2>3, <2>4
<1>9. CASE Send
  <2>1. [from |-> currentChannel, n |-> sent + 1] \in Message
    BY DEF Message
  <2> QED
    BY <1>8, <1>9, <2>1 DEF Send, page, handshake, context, closing, backend
<1>10. CASE MarkForClose
  <2>1. [from |-> currentChannel, n |-> 0] \in Message
    BY DEF Message
  <2> QED
    BY <1>8, <1>10, <2>1 DEF MarkForClose, page, handshake, context, closing, backend
<1> QED
  BY <1>1, <1>2, <1>3, <1>4, <1>5, <1>6, <1>7, <1>9, <1>10 DEF FrontendNext

\* Every step of the back end preserves the types.
LEMMA BackendType == TypeOK /\ BackendNext => TypeOK'
<1> SUFFICES ASSUME TypeOK, BackendNext PROVE TypeOK'
  OBVIOUS
<1> USE DEF TypeOK
<1>1. <<>> \in Seq(Message) /\ <<>> \in Seq(Packet) /\ 0 \in 0 .. MaxSessions
  BY BoundsAssumption
<1>2. \A s \in Session : s \in 0 .. MaxSessions
  BY BoundsAssumption DEF Session
<1>3. ASSUME NEW c \in 0 .. MaxSessions, SetConnection(c)
      PROVE  /\ connection' \in 0 .. MaxSessions /\ attached' \in 0 .. MaxSessions
             /\ socketBuffer' \in Seq(Message) /\ served' \in Nat
             /\ received' \in Seq(Message)
  BY <1>1, <1>3 DEF SetConnection
<1>4. ASSUME NEW r \in SUBSET Session, CancelTimer(r)
      PROVE  timers' \subseteq Session /\ closeTimeout' \in 0 .. MaxSessions
  BY <1>1, <1>4 DEF CancelTimer
<1>5. ASSUME NEW r \in SUBSET Session, CloseConnection(r)
      PROVE  /\ connection' \in 0 .. MaxSessions /\ attached' \in 0 .. MaxSessions
             /\ socketBuffer' \in Seq(Message) /\ served' \in Nat
             /\ received' \in Seq(Message)
             /\ timers' \subseteq Session /\ closeTimeout' \in 0 .. MaxSessions
             /\ thrown' \in BOOLEAN
  <2>1. thrown' \in BOOLEAN
    BY <1>5, Zenon DEF CloseConnection
  <2> QED BY <1>1, <1>3, <1>4, <1>5, <2>1 DEF CloseConnection
<1>6. ASSUME NEW s \in Session, Receive(s) PROVE TypeOK'
  <2> DEFINE packet == Head(up[s])
  <2>1. up' \in [Session -> Seq(Packet)] /\ packet \in Packet
    BY <1>6, PopType DEF Receive, Queues
  <2>2. UNCHANGED <<frontend, sessions, alive, delivered>>
    BY <1>6 DEF Receive
  <2>3. CASE HandleInitialConnect(s)
    <3>1. down' \in [Session -> Seq(Packet)]
      BY <2>3, EmitType, SignalType DEF HandleInitialConnect, Control, Queues
    <3>2. timers' \subseteq Session /\ closeTimeout' \in 0 .. MaxSessions
      BY <1>4, <2>3 DEF HandleInitialConnect
    <3> QED
      BY <1>2, <1>3, <2>1, <2>2, <2>3, <3>1, <3>2
         DEF HandleInitialConnect, frontend, page, handshake
  <2>4. CASE HandleReconnect(s)
    <3>1. CASE Reattach(s)
      <4>1. <<Signal("RECONNECT true")>> \o Flushed(socketBuffer) \in Seq(Packet)
        <5>1. <<Signal("RECONNECT true")>> \in Seq(Packet)
          BY SignalType DEF Control
        <5>2. Flushed(socketBuffer) \in Seq(Packet)
          BY FlushedType
        <5> QED BY <5>1, <5>2, ConcatType
      <4>2. down' \in [Session -> Seq(Packet)]
        BY <3>1, <4>1, EmitType DEF Reattach, Queues
      <4> QED
        BY <1>1, <1>2, <1>4, <2>1, <2>2, <2>4, <3>1, <4>2
           DEF HandleReconnect, Reattach, frontend, page, handshake
    <3>2. CASE RefuseReconnect(s)
      <4>1. down' \in [Session -> Seq(Packet)]
        BY <3>2, EmitType, SignalType DEF RefuseReconnect, Control, Queues
      <4> QED
        BY <2>1, <2>2, <2>4, <3>2, <4>1
           DEF HandleReconnect, RefuseReconnect, context, frontend, page, handshake
    <3> QED BY <2>4, <3>1, <3>2 DEF HandleReconnect
  <2>5. CASE packet.type = "message" /\ HandleMessage(s, Decoded(packet))
    <3>1. Decoded(packet) \in Message
      BY <2>1, <2>5, DecodedType
    <3>2. markedForClose' \in BOOLEAN
      BY <2>5, Zenon DEF HandleMessage
    <3>3. received' \in Seq(Message)
      <4>1. Append(received, Decoded(packet)) \in Seq(Message)
        BY <3>1
      <4> QED BY <2>5, <4>1 DEF HandleMessage
    <3> QED
      BY <2>1, <2>2, <2>5, <3>2, <3>3
         DEF HandleMessage, context, frontend, page, handshake
  <2>6. CASE UNCHANGED <<down, backend, received>>
    BY <2>1, <2>2, <2>6 DEF backend, context, closing, frontend, page, handshake
  <2> QED BY <1>6, <2>3, <2>4, <2>5, <2>6 DEF Receive
<1>7. ASSUME NEW s \in Session, NoticeDisconnect(s) PROVE TypeOK'
  <2>1. up' \in [Session -> Seq(Packet)]
    BY <1>7, ClearType DEF NoticeDisconnect, Queues
  <2>2. /\ alive' \subseteq Session /\ listening' \subseteq Session
        /\ UNCHANGED <<frontend, sessions, down, bound, delivered>>
    BY <1>7 DEF NoticeDisconnect
  <2>3. CASE HandleDisconnect(s)
    <3>1. CASE CloseConnection(timers)
      BY <1>5, <2>1, <2>2, <2>3, <3>1
         DEF HandleDisconnect, ConsumeMark, frontend, page, handshake
    <3>2. CASE ~CloseConnection(timers)
      <4>1. attached' \in 0 .. MaxSessions
        BY <1>1, <2>3, <3>2 DEF HandleDisconnect
      <4>2. timers' \subseteq Session /\ closeTimeout' \in 0 .. MaxSessions
        BY <1>2, <2>3, <3>2 DEF HandleDisconnect, StartTimer
      <4> QED
        BY <2>1, <2>2, <2>3, <3>2, <4>1, <4>2
           DEF HandleDisconnect, ConsumeMark, frontend, page, handshake
    <3> QED BY <3>1, <3>2
  <2>4. CASE bound[s] = 0
    BY <1>7, <2>1, <2>2, <2>4
       DEF NoticeDisconnect, context, closing, frontend, page, handshake
  <2> QED BY <1>7, <2>3, <2>4 DEF NoticeDisconnect
<1>8. ASSUME NEW s \in Session, TimerFires(s) PROVE TypeOK'
  BY <1>5, <1>8 DEF TimerFires, frontend, page, handshake, network
<1>9. CASE Serve
  <2> DEFINE m == [from |-> connection, n |-> served + 1]
  <2>1. m \in Message
    BY BoundsAssumption DEF Message
  <2>2. <<m>> \in Seq(Message) /\ <<m>> # <<>>
    BY <2>1
  <2>3. <<Data(<<m>>)>> \in Seq(Packet)
    BY <2>2, DataType
  <2>4. UNCHANGED <<frontend, sessions, up, alive, listening, bound, connection,
                    attached, closing, received, delivered>> /\ served' = served + 1
    BY <1>9 DEF Serve
  <2>5. CASE attached # 0
    <3>1. attached \in Session
      BY <2>5, BoundsAssumption DEF Session
    <3>2. Emit(down, attached, <<Data(<<m>>)>>) \in [Session -> Seq(Packet)]
      BY <2>3, <3>1, EmitType DEF Queues
    <3>3. down' = Emit(down, attached, <<Data(<<m>>)>>) /\ UNCHANGED socketBuffer
      BY <1>9, <2>5 DEF Serve
    <3>4. down' \in [Session -> Seq(Packet)] /\ UNCHANGED socketBuffer
      BY <3>2, <3>3
    <3> HIDE DEF m
    <3> QED BY <2>4, <3>4 DEF closing, frontend, page, handshake
  <2>6. CASE attached = 0
    <3>1. socketBuffer' = Buffered(socketBuffer, m) /\ UNCHANGED down
      BY <1>9, <2>6 DEF Serve
    <3>2. Buffered(socketBuffer, m) \in Seq(Message)
      BY <2>1, BufferedType
    <3> QED BY <2>4, <3>1, <3>2 DEF closing, frontend, page, handshake
  <2> QED BY <2>5, <2>6
<1>10. CASE Restart
  BY <1>1, <1>3, <1>10 DEF Restart, frontend, page, handshake
<1> QED BY <1>6, <1>7, <1>8, <1>9, <1>10 DEF BackendNext

\* The variables have their types in every reachable state.
THEOREM TypeCorrect == Spec => []TypeOK
<1>1. TypeOK /\ [Next]_vars => TypeOK'
  <2> SUFFICES ASSUME TypeOK, [Next]_vars PROVE TypeOK'
    OBVIOUS
  <2>1. CASE UNCHANGED vars
    BY <2>1 DEF TypeOK, vars, frontend, network, backend, page, handshake, context,
                closing
  <2> QED BY <2>1, FrontendType, BackendType DEF Next
<1> QED BY <1>1, InitType, PTL DEF Spec

-----------------------------------------------------------------------------
(* Contexts, sockets and close timers match, as long as the back end learns *)
(* of a dead session before the front end opens the next one.               *)

Matched == ContextsMatched /\ TimersCancellable /\ NeverThrows

\* It matches in the initial state.
LEMMA InitMatched == Init => Matched
BY DEF Init, Matched, ContextsMatched, TimersCancellable, NeverThrows

\* Front-end steps only touch the match by opening a session.
LEMMA FrontendMatched ==
  ASSUME ~StaleDisconnects, TypeOK, Matched, FrontendNext
  PROVE  Matched'
<1> USE DEF Matched, ContextsMatched, TimersCancellable, NeverThrows
<1>1. CASE Connect
  <2>1. alive = {}
    BY <1>1 DEF Connect
  <2>2. /\ sessions' = sessions + 1 /\ sessions \in Nat
        /\ alive' = {sessions + 1} /\ listening' = {sessions + 1}
        /\ sessions + 1 \in Session
        /\ UNCHANGED <<bound, context, closing>>
    <3>1. listening = {}
      BY <2>1
    <3> QED BY <1>1, <2>1, <3>1, BoundsAssumption DEF Connect, TypeOK, Session
  <2>3. bound[sessions + 1] = 0
    BY <2>2
  <2>4. attached = 0
    BY <2>1
  <2> QED BY <2>2, <2>3, <2>4 DEF context, closing, Session
<1>2. CASE UNCHANGED <<sessions, alive, backend>>
  BY <1>2 DEF backend, context, closing
<1> QED
  BY <1>1, <1>2
     DEF FrontendNext, Disconnect, ReloadPage, ReceiveInitialConnect,
         ReceiveReconnected, ReceiveReconnectRefused, ReceiveMessage, Send, MarkForClose

\* The handshake of a session finds the match and leaves it.
LEMMA ReceiveMatched ==
  ASSUME TypeOK, Matched, NEW s \in Session, Receive(s)
  PROVE  Matched'
<1> USE DEF Matched, ContextsMatched, TimersCancellable, NeverThrows
<1>1. /\ s \in alive /\ s # 0
      /\ \A t \in alive : t = s
      /\ UNCHANGED <<sessions, alive>>
  <2>1. s \in alive /\ UNCHANGED <<sessions, alive>>
    BY DEF Receive
  <2> QED BY <2>1 DEF Session
<1>2. ASSUME s \in listening
      PROVE  attached = 0 /\ bound[s] = 0
  BY <1>1, <1>2
<1>3. CASE s \in listening /\ HandleInitialConnect(s)
  <2>1. /\ connection' = s /\ attached' = s /\ thrown' = thrown
        /\ bound' = [bound EXCEPT ![s] = s]
        /\ listening' = listening \ {s}
    BY <1>3 DEF HandleInitialConnect, SetConnection
  <2>2. timers' = {}
    BY <1>3 DEF HandleInitialConnect, CancelTimer
  <2> QED BY <1>1, <1>2, <1>3, <2>1, <2>2 DEF TypeOK
<1>4. CASE s \in listening /\ HandleReconnect(s) /\ connection # 0
  <2>1. /\ UNCHANGED <<connection, thrown>> /\ attached' = s
        /\ bound' = [bound EXCEPT ![s] = connection]
        /\ listening' = listening \ {s}
    BY <1>4 DEF HandleReconnect, Reattach
  <2>2. timers' = {}
    BY <1>4 DEF HandleReconnect, Reattach, CancelTimer
  <2> QED BY <1>1, <1>2, <1>4, <2>1, <2>2 DEF TypeOK
<1>5. CASE s \in listening /\ HandleReconnect(s) /\ connection = 0
  <2>1. /\ UNCHANGED <<connection, attached, bound, timers, closeTimeout, thrown>>
        /\ listening' = listening \ {s}
    BY <1>5 DEF HandleReconnect, RefuseReconnect, context
  <2> QED BY <1>1, <2>1
<1>6. CASE UNCHANGED <<listening, bound, connection, attached, timers, closeTimeout,
                       thrown>>
  BY <1>1, <1>6
<1> QED
  BY <1>3, <1>4, <1>5, <1>6 DEF Receive, HandleMessage, backend, context, closing

\* The disconnect handler of a session meets its own context.
LEMMA NoticeMatched ==
  ASSUME TypeOK, Matched, NEW s \in Session, NoticeDisconnect(s)
  PROVE  Matched'
<1> USE DEF Matched, ContextsMatched, TimersCancellable, NeverThrows
<1>1. /\ alive' = {} /\ listening' = {}
      /\ s \in alive
      /\ UNCHANGED <<sessions, bound>>
  BY DEF NoticeDisconnect
<1>2. CASE bound[s] # 0
  <2>1. connection = bound[s] /\ attached = s /\ s # 0
    BY <1>1, <1>2 DEF Session
  <2>2. timers = {}
    BY <2>1
  <2>3. CASE CloseConnection(timers)
    BY <1>1, <1>2, <2>1, <2>2, <2>3 DEF CloseConnection, SetConnection, CancelTimer
  <2>4. CASE ~CloseConnection(timers)
    <3>1. attached' = 0 /\ UNCHANGED <<connection, thrown>>
      BY <1>2, <2>1, <2>4 DEF NoticeDisconnect, HandleDisconnect
    <3>2. timers' \subseteq {closeTimeout'}
      BY <1>2, <2>2, <2>4 DEF NoticeDisconnect, HandleDisconnect, StartTimer
    <3> QED BY <1>1, <1>2, <2>1, <3>1, <3>2
  <2> QED BY <2>3, <2>4
<1>3. CASE bound[s] = 0
  <2>1. UNCHANGED <<connection, attached, timers, closeTimeout, thrown>>
    BY <1>3 DEF NoticeDisconnect, context, closing
  <2>2. attached = 0
    BY <1>1, <1>3
  <2> QED BY <1>1, <2>1, <2>2
<1> QED BY <1>2, <1>3 DEF TypeOK

\* So do the close timer and a restart.
LEMMA BackendMatched ==
  ASSUME TypeOK, Matched, BackendNext
  PROVE  Matched'
<1> USE DEF Matched, ContextsMatched, TimersCancellable, NeverThrows
<1>1. ASSUME NEW s \in Session, TimerFires(s) PROVE Matched'
  <2>1. connection # 0 /\ attached = 0 /\ closeTimeout = s
    BY <1>1 DEF TimerFires
  <2>2. /\ connection' = 0 /\ attached' = 0 /\ timers' = {} /\ thrown' = FALSE
        /\ UNCHANGED <<sessions, alive, listening, bound>>
    BY <1>1, <2>1 DEF TimerFires, CloseConnection, SetConnection, CancelTimer, network,
                      TypeOK
  <2>3. \A t \in alive : t # 0
    BY DEF TypeOK, Session
  <2> QED BY <2>1, <2>2, <2>3
<1>2. CASE Serve
  BY <1>2 DEF Serve, closing
<1>3. CASE Restart
  BY <1>3 DEF Restart, SetConnection
<1> QED BY <1>1, <1>2, <1>3, ReceiveMatched, NoticeMatched DEF BackendNext

\* Contexts, sockets and close timers match in every reachable state.
THEOREM MatchedAlways ==
  ASSUME ~StaleDisconnects
  PROVE  Spec => [](TypeOK /\ Matched)
<1>1. TypeOK /\ Matched /\ [Next]_vars => Matched'
  <2> SUFFICES ASSUME TypeOK, Matched, [Next]_vars PROVE Matched'
    OBVIOUS
  <2>1. CASE UNCHANGED vars
    BY <2>1 DEF vars, network, backend, context, closing, Matched, ContextsMatched,
                TimersCancellable, NeverThrows
  <2> QED BY <2>1, FrontendMatched, BackendMatched DEF Next
<1> QED BY <1>1, InitMatched, TypeCorrect, PTL DEF Spec

\* closeConnection never runs without a connection.
THEOREM CloseFindsConnection ==
  ASSUME ~StaleDisconnects
  PROVE  Spec => []NeverThrows
<1>1. Matched => NeverThrows
  BY DEF Matched
<1> QED BY <1>1, MatchedAlways, PTL

\* No close timer is left that cannot be cancelled.
THEOREM TimersStayCancellable ==
  ASSUME ~StaleDisconnects
  PROVE  Spec => []TimersCancellable
<1>1. Matched => TimersCancellable
  BY DEF Matched
<1> QED BY <1>1, MatchedAlways, PTL

\* Contexts, sockets, disconnect handlers and close timers match.
THEOREM ContextsStayMatched ==
  ASSUME ~StaleDisconnects
  PROVE  Spec => []ContextsMatched
<1>1. Matched => ContextsMatched
  BY DEF Matched
<1> QED BY <1>1, MatchedAlways, PTL

\* The back end keeps the context of a front end that is connected to it.
THEOREM ContextKept ==
  ASSUME ~StaleDisconnects
  PROVE  Spec => KeptWhileConnected
<1> DEFINE Kept == connection # 0 /\ connection' # connection
                   => attached \notin alive' \/ attached # socket
<1>1. TypeOK /\ Matched /\ [Next]_vars => [Kept]_vars
  <2> SUFFICES ASSUME TypeOK, Matched, Next,
                      connection # 0, connection' # connection
               PROVE  attached \notin alive' \/ attached # socket
    BY DEF vars, backend, context
  <2> USE DEF Matched, ContextsMatched, TimersCancellable, NeverThrows
  <2>1. \A t \in alive : t # 0
    BY DEF TypeOK, Session
  <2>2. ASSUME NEW s \in Session, Receive(s) PROVE attached \notin alive'
    <3>1. s \in alive /\ s \in listening /\ alive' = alive
      BY <2>2 DEF Receive, HandleReconnect, Reattach, RefuseReconnect, HandleMessage,
                  backend, context
    <3> QED BY <2>1, <3>1
  <2>3. ASSUME NEW s \in Session, NoticeDisconnect(s) PROVE attached \notin alive'
    BY <2>3 DEF NoticeDisconnect
  <2>4. ASSUME NEW s \in Session, TimerFires(s) PROVE attached \notin alive'
    BY <2>1, <2>4 DEF TimerFires, network
  <2>5. CASE Restart
    BY <2>5 DEF Restart
  <2>6. CASE Serve
    BY <2>6 DEF Serve
  <2>7. CASE FrontendNext
    BY <2>7
       DEF FrontendNext, Connect, Disconnect, ReloadPage, ReceiveInitialConnect,
           ReceiveReconnected, ReceiveReconnectRefused, ReceiveMessage, Send,
           MarkForClose, backend, context
  <2> QED BY <2>2, <2>3, <2>4, <2>5, <2>6, <2>7 DEF Next, BackendNext
<1> QED BY <1>1, MatchedAlways, PTL DEF Spec, KeptWhileConnected

-----------------------------------------------------------------------------
(* A mark for close belongs to the context that is there: it is made by a  *)
(* message the context handles, while it is attached, and the end of that  *)
(* session consumes it.                                                     *)

MarkAttached ==
  markedForClose => /\ connection # 0 /\ attached # 0
                    /\ \E i \in 1 .. Len(received) : received[i].n = 0

\* A message handled adds to the messages handled, and may be the mark.
LEMMA MessageMark ==
  ASSUME TypeOK, MarkAttached, NEW s \in Session, s # 0, NEW m \in Message,
         HandleMessage(s, m)
  PROVE  MarkAttached'
<1>1. CASE connection # 0 /\ attached = s
  <2>1. /\ UNCHANGED <<connection, attached>>
        /\ received' = Append(received, m)
        /\ markedForClose' = (markedForClose \/ m.n = 0)
    BY <1>1 DEF HandleMessage, context
  <2>2. received \in Seq(Message)
    BY DEF TypeOK
  <2>3. ASSUME NEW i \in 1 .. Len(received) PROVE received'[i] = received[i] /\ i \in 1 .. Len(received')
    BY <2>1, <2>2
  <2>4. received'[Len(received) + 1] = m /\ Len(received) + 1 \in 1 .. Len(received')
    BY <2>1, <2>2
  <2> QED BY <1>1, <2>1, <2>3, <2>4 DEF MarkAttached
<1>2. CASE ~(connection # 0 /\ attached = s)
  BY <1>2 DEF HandleMessage, context, MarkAttached
<1> QED BY <1>1, <1>2

\* A handshake finds the context, if any, detached, and hence without a mark.
LEMMA ReceiveMark ==
  ASSUME TypeOK, Matched, MarkAttached, NEW s \in Session, Receive(s)
  PROVE  MarkAttached'
<1>1. s \in alive /\ s # 0
  BY DEF Receive, Session
<1>2. ASSUME s \in listening PROVE ~markedForClose
  <2>1. attached = 0
    BY <1>1, <1>2 DEF Matched, ContextsMatched
  <2> QED BY <2>1 DEF MarkAttached
<1>3. ASSUME s \in listening, HandleInitialConnect(s) \/ HandleReconnect(s)
      PROVE  MarkAttached'
  <2>1. UNCHANGED markedForClose
    BY <1>3 DEF HandleInitialConnect, HandleReconnect
  <2> QED BY <1>2, <1>3, <2>1 DEF MarkAttached
<1>4. ASSUME Head(up[s]).type = "message", HandleMessage(s, Decoded(Head(up[s])))
      PROVE  MarkAttached'
  <2>1. Head(up[s]) \in Packet
    BY PopType DEF Receive, TypeOK, Queues
  <2>2. Decoded(Head(up[s])) \in Message
    BY <1>4, <2>1, DecodedType
  <2> QED BY <1>1, <1>4, <2>2, MessageMark
<1>5. ASSUME UNCHANGED <<backend, received>> PROVE MarkAttached'
  BY <1>5 DEF backend, context, closing, MarkAttached
<1> QED BY <1>3, <1>4, <1>5 DEF Receive

\* The end of the session the context is on consumes the mark.
LEMMA NoticeMark ==
  ASSUME Matched, MarkAttached, NEW s \in Session, NoticeDisconnect(s)
  PROVE  MarkAttached'
<1>1. CASE bound[s] # 0
  BY <1>1 DEF NoticeDisconnect, HandleDisconnect, ConsumeMark, MarkAttached
<1>2. CASE bound[s] = 0
  BY <1>2 DEF NoticeDisconnect, context, closing, MarkAttached
<1> QED BY <1>1, <1>2

\* A mark for close was made by the page the context belongs to.
THEOREM MarksAreOwn ==
  ASSUME ~StaleDisconnects
  PROVE  Spec => []MarkIsOwn
<1>1. Init => MarkAttached
  BY DEF Init, MarkAttached
<1>2. TypeOK /\ Matched /\ MarkAttached /\ [Next]_vars => MarkAttached'
  <2> SUFFICES ASSUME TypeOK, Matched, MarkAttached, [Next]_vars PROVE MarkAttached'
    OBVIOUS
  <2>1. CASE UNCHANGED <<connection, attached, markedForClose, received>>
    BY <2>1 DEF MarkAttached
  <2>2. CASE FrontendNext
    BY <2>1, <2>2
       DEF FrontendNext, Connect, Disconnect, ReloadPage, ReceiveInitialConnect,
           ReceiveReconnected, ReceiveReconnectRefused, ReceiveMessage, Send,
           MarkForClose, backend, context, closing
  <2>3. ASSUME NEW s \in Session, TimerFires(s) PROVE MarkAttached'
    BY <2>3 DEF TimerFires, Matched, TimersCancellable, MarkAttached
  <2>4. CASE Serve
    BY <2>1, <2>4 DEF Serve, closing
  <2>5. CASE Restart
    BY <2>5 DEF Restart, MarkAttached
  <2>6. CASE UNCHANGED vars
    BY <2>1, <2>6 DEF vars, backend, context, closing
  <2> QED BY <2>2, <2>3, <2>4, <2>5, <2>6, ReceiveMark, NoticeMark DEF Next, BackendNext
<1>3. MarkAttached => MarkIsOwn
  BY DEF MarkAttached, MarkIsOwn
<1> QED BY <1>1, <1>2, <1>3, MatchedAlways, PTL DEF Spec

-----------------------------------------------------------------------------
(* A message is handled once: there is one copy of it, which is in the      *)
(* buffer of the front end, or is the one decoded from a packet on its way, *)
(* or has been handled.  Calls of markForClose have no number and are left  *)
(* out.                                                                     *)

Says(packet) == packet.type = "message" /\ Decoded(packet).n # 0

UnderWay(m, queues) ==
  \E s \in Session : \E i \in 1 .. Len(queues[s]) :
    Says(queues[s][i]) /\ Decoded(queues[s][i]) = m

Among(m, msgs) == \E i \in 1 .. Len(msgs) : msgs[i] = m

UnderWayOnce(queues) ==
  \A s, t \in Session : \A i \in 1 .. Len(queues[s]), j \in 1 .. Len(queues[t]) :
    /\ Says(queues[s][i]) /\ Says(queues[t][j])
    /\ Decoded(queues[s][i]) = Decoded(queues[t][j])
    => s = t /\ i = j

AmongOnce(msgs) ==
  \A i, j \in 1 .. Len(msgs) : msgs[i] = msgs[j] => i = j \/ msgs[i].n = 0

Known(m) == UnderWay(m, up) \/ Among(m, writeBuffer) \/ Among(m, received)

OneCopy ==
  /\ UnderWayOnce(up) /\ AmongOnce(writeBuffer) /\ AmongOnce(received)
  /\ \A m \in Message : m.n # 0 =>
       /\ ~(UnderWay(m, up) /\ Among(m, writeBuffer))
       /\ ~(UnderWay(m, up) /\ Among(m, received))
       /\ ~(Among(m, writeBuffer) /\ Among(m, received))

\* Numbers are given out in order, to the messages of one channel at a time.
MessagesNumbered ==
  /\ currentChannel <= generations
  /\ channelOpen => currentChannel # 0
  /\ \A m \in Message : Known(m) /\ m.n # 0 =>
       /\ m.from \in 1 .. generations
       /\ m.from = currentChannel => m.n <= sent

Single == OneCopy /\ MessagesNumbered

\* Nothing is on its way in r that is not in q.
Fewer(q, r) ==
  /\ UnderWayOnce(q) => UnderWayOnce(r)
  /\ \A m \in Message : UnderWay(m, r) => UnderWay(m, q)

\* A packet taken off leaves the others.
LEMMA PopFewer ==
  ASSUME NEW q \in Queues, NEW s \in Session, q[s] # <<>>
  PROVE  Fewer(q, Pop(q, s))
<1> DEFINE r == Pop(q, s)
<1>1. ASSUME NEW t \in Session, NEW i \in 1 .. Len(r[t])
      PROVE  \E j \in 1 .. Len(q[t]) : r[t][i] = q[t][j] /\ (t = s => j = i + 1) /\ (t # s => j = i)
  <2>1. CASE t = s
    <3>1. r[t] = Tail(q[t]) /\ q[t] \in Seq(Packet) /\ q[t] # <<>>
      BY <2>1 DEF Pop, Queues
    <3>2. r[t][i] = q[t][i + 1] /\ i + 1 \in 1 .. Len(q[t])
      BY <3>1
    <3> QED BY <2>1, <3>2
  <2>2. CASE t # s
    <3>1. r[t] = q[t]
      BY <2>2 DEF Pop, Queues
    <3> QED BY <2>2, <3>1
  <2> QED BY <2>1, <2>2
<1> HIDE DEF r
<1>2. UnderWayOnce(q) => UnderWayOnce(r)
  <2> SUFFICES ASSUME UnderWayOnce(q), NEW t \in Session, NEW u \in Session,
                      NEW i \in 1 .. Len(r[t]), NEW j \in 1 .. Len(r[u]),
                      Says(r[t][i]), Says(r[u][j]), Decoded(r[t][i]) = Decoded(r[u][j])
               PROVE  t = u /\ i = j
    BY DEF UnderWayOnce
  <2>1. PICK a \in 1 .. Len(q[t]) : r[t][i] = q[t][a] /\ (t = s => a = i + 1) /\ (t # s => a = i)
    BY <1>1
  <2>2. PICK b \in 1 .. Len(q[u]) : r[u][j] = q[u][b] /\ (u = s => b = j + 1) /\ (u # s => b = j)
    BY <1>1
  <2>3. t = u /\ a = b
    BY <2>1, <2>2 DEF UnderWayOnce
  <2> QED BY <2>1, <2>2, <2>3
<1>3. \A m \in Message : UnderWay(m, r) => UnderWay(m, q)
  BY <1>1 DEF UnderWay
<1> QED BY <1>2, <1>3 DEF Fewer, r

\* A session may get packets that say nothing in place of what it had.
LEMMA SilentFewer ==
  ASSUME NEW q \in Queues, NEW r \in Queues, NEW s \in Session,
         \A t \in Session : t # s => r[t] = q[t],
         \A i \in 1 .. Len(r[s]) : ~Says(r[s][i])
  PROVE  Fewer(q, r)
<1>1. ASSUME NEW t \in Session, NEW i \in 1 .. Len(r[t]), Says(r[t][i])
      PROVE  r[t] = q[t]
  BY <1>1
<1>2. UnderWayOnce(q) => UnderWayOnce(r)
  <2> SUFFICES ASSUME UnderWayOnce(q), NEW t \in Session, NEW u \in Session,
                      NEW i \in 1 .. Len(r[t]), NEW j \in 1 .. Len(r[u]),
                      Says(r[t][i]), Says(r[u][j]), Decoded(r[t][i]) = Decoded(r[u][j])
               PROVE  t = u /\ i = j
    BY DEF UnderWayOnce
  <2>1. r[t] = q[t] /\ r[u] = q[u]
    BY <1>1
  <2> QED BY <2>1 DEF UnderWayOnce
<1>3. \A m \in Message : UnderWay(m, r) => UnderWay(m, q)
  BY <1>1 DEF UnderWay
<1> QED BY <1>2, <1>3 DEF Fewer

\* So may a session that is lost.
LEMMA ClearFewer ==
  ASSUME NEW q \in Queues, NEW s \in Session
  PROVE  Fewer(q, Clear(q, s))
<1>1. /\ Clear(q, s) \in Queues
      /\ \A t \in Session : t # s => Clear(q, s)[t] = q[t]
      /\ Clear(q, s)[s] = <<>>
  BY DEF Clear, Queues
<1>2. \A i \in 1 .. Len(Clear(q, s)[s]) : ~Says(Clear(q, s)[s][i])
  BY <1>1
<1> QED BY <1>1, <1>2, SilentFewer

\* A packet put on a queue adds what is decoded from it.
LEMMA PushAdds ==
  ASSUME NEW q \in Queues, NEW s \in Session, NEW p \in Packet
  PROVE  LET r == Push(q, s, <<p>>)
         IN /\ \A m \in Message : UnderWay(m, r) => UnderWay(m, q) \/ (Says(p) /\ Decoded(p) = m)
            /\ UnderWayOnce(q) /\ (Says(p) => ~UnderWay(Decoded(p), q)) => UnderWayOnce(r)
<1> DEFINE r == Push(q, s, <<p>>)
<1>0. q[s] \in Seq(Packet)
  BY DEF Queues
<1>1. ASSUME NEW t \in Session, NEW i \in 1 .. Len(r[t])
      PROVE  \/ i \in 1 .. Len(q[t]) /\ r[t][i] = q[t][i]
             \/ t = s /\ i = Len(q[s]) + 1 /\ r[t][i] = p
  <2>1. CASE t = s
    <3>1. r[t] = q[t] \o <<p>>
      BY <2>1 DEF Push, Queues
    <3> QED BY <1>0, <2>1, <3>1
  <2>2. CASE t # s
    <3>1. r[t] = q[t]
      BY <2>2 DEF Push, Queues
    <3> QED BY <3>1
  <2> QED BY <2>1, <2>2
<1> HIDE DEF r
<1>2. ASSUME NEW m \in Message, UnderWay(m, r)
      PROVE  UnderWay(m, q) \/ (Says(p) /\ Decoded(p) = m)
  <2>1. PICK t \in Session : \E i \in 1 .. Len(r[t]) : Says(r[t][i]) /\ Decoded(r[t][i]) = m
    BY <1>2 DEF UnderWay
  <2> QED BY <1>1, <2>1 DEF UnderWay
<1>3. ASSUME UnderWayOnce(q), Says(p) => ~UnderWay(Decoded(p), q)
      PROVE  UnderWayOnce(r)
  <2> SUFFICES ASSUME NEW t \in Session, NEW u \in Session,
                      NEW i \in 1 .. Len(r[t]), NEW j \in 1 .. Len(r[u]),
                      Says(r[t][i]), Says(r[u][j]), Decoded(r[t][i]) = Decoded(r[u][j])
               PROVE  t = u /\ i = j
    BY DEF UnderWayOnce
  <2> DEFINE Old(v, k) == k \in 1 .. Len(q[v]) /\ r[v][k] = q[v][k]
             New(v, k) == v = s /\ k = Len(q[s]) + 1 /\ r[v][k] = p
  <2>1. Old(t, i) \/ New(t, i)
    BY <1>1
  <2>2. Old(u, j) \/ New(u, j)
    BY <1>1
  <2>3. CASE Old(t, i) /\ Old(u, j)
    BY <1>3, <2>3 DEF UnderWayOnce
  <2>4. CASE New(t, i) /\ New(u, j)
    BY <2>4
  <2>5. CASE Old(t, i) /\ New(u, j)
    <3>1. UnderWay(Decoded(p), q)
      BY <2>5 DEF UnderWay
    <3> QED BY <1>3, <2>5, <3>1
  <2>6. CASE New(t, i) /\ Old(u, j)
    <3>1. UnderWay(Decoded(p), q)
      BY <2>6 DEF UnderWay
    <3> QED BY <1>3, <2>6, <3>1
  <2> QED BY <2>1, <2>2, <2>3, <2>4, <2>5, <2>6
<1> QED BY <1>2, <1>3 DEF r

\* What is taken off is not under way any more.
LEMMA PopTakes ==
  ASSUME NEW q \in Queues, NEW s \in Session, q[s] # <<>>, UnderWayOnce(q),
         Says(Head(q[s]))
  PROVE  ~UnderWay(Decoded(Head(q[s])), Pop(q, s))
<1> DEFINE r == Pop(q, s)
<1>1. ASSUME NEW t \in Session, NEW i \in 1 .. Len(r[t])
      PROVE  \E j \in 1 .. Len(q[t]) : r[t][i] = q[t][j] /\ (t = s => j = i + 1)
  <2>1. CASE t = s
    <3>1. r[t] = Tail(q[t]) /\ q[t] \in Seq(Packet) /\ q[t] # <<>>
      BY <2>1 DEF Pop, Queues
    <3>2. r[t][i] = q[t][i + 1] /\ i + 1 \in 1 .. Len(q[t])
      BY <3>1
    <3> QED BY <2>1, <3>2
  <2>2. CASE t # s
    <3>1. r[t] = q[t]
      BY <2>2 DEF Pop, Queues
    <3> QED BY <2>2, <3>1
  <2> QED BY <2>1, <2>2
<1> HIDE DEF r
<1>2. Head(q[s]) = q[s][1] /\ 1 \in 1 .. Len(q[s])
  <2>1. q[s] \in Seq(Packet)
    BY DEF Queues
  <2> QED BY <2>1
<1>3. ASSUME UnderWay(Decoded(Head(q[s])), r) PROVE FALSE
  <2>1. PICK t \in Session : \E i \in 1 .. Len(r[t]) :
               Says(r[t][i]) /\ Decoded(r[t][i]) = Decoded(Head(q[s]))
    BY <1>3 DEF UnderWay
  <2>2. PICK i \in 1 .. Len(r[t]) : Says(r[t][i]) /\ Decoded(r[t][i]) = Decoded(Head(q[s]))
    BY <2>1
  <2>3. PICK j \in 1 .. Len(q[t]) : r[t][i] = q[t][j] /\ (t = s => j = i + 1)
    BY <1>1
  <2>4. t = s /\ j = 1
    BY <1>2, <2>2, <2>3 DEF UnderWayOnce
  <2> QED BY <2>3, <2>4
<1> QED BY <1>3 DEF r

\* Appending a message adds that message.
LEMMA AppendAmong ==
  ASSUME NEW q \in Seq(Message), NEW m \in Message
  PROVE  /\ \A x : Among(x, Append(q, m)) => Among(x, q) \/ x = m
         /\ AmongOnce(q) /\ (m.n # 0 => ~Among(m, q)) => AmongOnce(Append(q, m))
<1> DEFINE r == Append(q, m)
<1>1. ASSUME NEW i \in 1 .. Len(r)
      PROVE  \/ i \in 1 .. Len(q) /\ r[i] = q[i]
             \/ i = Len(q) + 1 /\ r[i] = m
  OBVIOUS
<1> HIDE DEF r
<1>2. ASSUME NEW x, Among(x, r) PROVE Among(x, q) \/ x = m
  BY <1>1, <1>2 DEF Among
<1>3. ASSUME AmongOnce(q), m.n # 0 => ~Among(m, q),
             NEW i \in 1 .. Len(r), NEW j \in 1 .. Len(r), r[i] = r[j], r[i].n # 0
      PROVE  i = j
  <2>1. CASE i \in 1 .. Len(q) /\ r[i] = q[i] /\ j \in 1 .. Len(q) /\ r[j] = q[j]
    BY <1>3, <2>1 DEF AmongOnce
  <2>2. CASE i = Len(q) + 1 /\ j = Len(q) + 1
    BY <2>2
  <2>3. ASSUME NEW k \in 1 .. Len(q), r[k] = q[k], q[k] = m, m.n # 0 PROVE FALSE
    BY <1>3, <2>3 DEF Among
  <2> QED BY <1>1, <1>3, <2>1, <2>2, <2>3
<1> QED BY <1>2, <1>3 DEF AmongOnce, r

\* Channels of the page are new or as they were, or there is none.
PageGrows ==
  /\ generations <= generations' /\ currentChannel' <= generations'
  /\ channelOpen' => currentChannel' # 0
  /\ \/ currentChannel' = currentChannel /\ sent <= sent'
     \/ currentChannel' = 0
     \/ currentChannel' > generations

\* A step after which what is known was known, and is in one place, keeps to it.
LEMMA KnownBefore ==
  ASSUME TypeOK, TypeOK', Single, PageGrows, OneCopy',
         \A m \in Message : m.n # 0 /\ Known(m)' => \/ Known(m)
                                                   \/ /\ m.from \in 1 .. generations
                                                      /\ m.from = currentChannel' => m.n <= sent'
  PROVE  Single'
<1>1. ASSUME NEW m \in Message, m.n # 0, Known(m)'
      PROVE  m.from \in 1 .. generations' /\ (m.from = currentChannel' => m.n <= sent')
  <2>1. generations \in Nat /\ generations' \in Nat /\ sent \in Nat /\ sent' \in Nat
        /\ currentChannel \in Nat /\ currentChannel' \in Nat
    BY DEF TypeOK
  <2>2. m.from \in Nat /\ m.n \in Nat
    BY DEF Message
  <2>3. CASE Known(m)
    <3>1. m.from \in 1 .. generations /\ (m.from = currentChannel => m.n <= sent)
      BY <1>1, <2>3 DEF Single, MessagesNumbered
    <3> QED BY <2>1, <2>2, <3>1 DEF PageGrows
  <2>4. CASE /\ m.from \in 1 .. generations
             /\ m.from = currentChannel' => m.n <= sent'
    BY <2>1, <2>2, <2>4 DEF PageGrows
  <2> QED BY <1>1, <2>3, <2>4
<1>2. MessagesNumbered'
  BY <1>1 DEF MessagesNumbered, PageGrows
<1> QED BY <1>2 DEF Single

\* Losing messages keeps to it.
LEMMA LessSingle ==
  ASSUME TypeOK, TypeOK', Single, PageGrows, Fewer(up, up'),
         writeBuffer' \in {writeBuffer, <<>>}, received' \in {received, <<>>}
  PROVE  Single'
<1>1. /\ AmongOnce(<<>>)
      /\ \A m : ~Among(m, <<>>)
  BY DEF AmongOnce, Among
<1>2. \A m : Among(m, writeBuffer') => Among(m, writeBuffer)
  BY <1>1
<1>3. \A m : Among(m, received') => Among(m, received)
  BY <1>1
<1>4. AmongOnce(writeBuffer') /\ AmongOnce(received')
  BY <1>1 DEF Single, OneCopy
<1>5. UnderWayOnce(up') /\ \A m \in Message : UnderWay(m, up') => UnderWay(m, up)
  BY DEF Fewer, Single, OneCopy
<1>6. OneCopy'
  BY <1>2, <1>3, <1>4, <1>5 DEF OneCopy, Single
<1>7. \A m \in Message : Known(m)' => Known(m)
  BY <1>2, <1>3, <1>5 DEF Known
<1> QED BY <1>6, <1>7, KnownBefore

\* So does committing a message that is new, or has no number.
LEMMA CommitSingle ==
  ASSUME TypeOK, TypeOK', Single, PageGrows, NEW m \in Message, Commit(m),
         received' = received,
         m.n # 0 => /\ ~Known(m)
                    /\ m.from \in 1 .. generations
                    /\ m.from = currentChannel' => m.n <= sent'
  PROVE  Single'
<1>0. up \in Queues /\ writeBuffer \in Seq(Message)
  BY DEF TypeOK, Queues
<1>1. CASE socket # 0
  <2>1. socket \in Session
    BY <1>1, BoundsAssumption DEF TypeOK, Session
  <2>2. Data(<<m>>) \in Packet /\ Decoded(Data(<<m>>)) = m
    <3>1. <<m>> \in Seq(Message) /\ <<m>> # <<>>
      OBVIOUS
    <3> QED BY <3>1 DEF Data, Packet, Decoded
  <2>3. Says(Data(<<m>>)) <=> m.n # 0
    BY <2>2 DEF Says, Data
  <2>4. up' = Push(up, socket, <<Data(<<m>>)>>) /\ UNCHANGED writeBuffer
    BY <1>1 DEF Commit
  <2>5. m.n # 0 => ~UnderWay(m, up) /\ ~Among(m, writeBuffer) /\ ~Among(m, received)
    BY DEF Known
  <2>6. /\ \A x \in Message : UnderWay(x, up') => UnderWay(x, up) \/ (m.n # 0 /\ x = m)
        /\ UnderWayOnce(up')
    BY <1>0, <2>1, <2>2, <2>3, <2>4, <2>5, PushAdds DEF Single, OneCopy
  <2>7. OneCopy'
    BY <2>4, <2>5, <2>6 DEF OneCopy, Single
  <2>8. \A x \in Message : Known(x)' => Known(x) \/ (m.n # 0 /\ x = m)
    BY <2>4, <2>6 DEF Known
  <2> QED BY <2>7, <2>8, KnownBefore
<1>2. CASE socket = 0 /\ writeBuffer' = Append(writeBuffer, m)
  <2>1. up' = up
    BY <1>2 DEF Commit
  <2>2. /\ \A x : Among(x, writeBuffer') => Among(x, writeBuffer) \/ x = m
        /\ AmongOnce(writeBuffer')
    BY <1>0, <1>2, AppendAmong DEF Single, OneCopy, Known
  <2>3. OneCopy'
    BY <2>1, <2>2 DEF OneCopy, Single, Known
  <2>4. \A x \in Message : Known(x)' => Known(x) \/ x = m
    BY <2>1, <2>2 DEF Known
  <2> QED BY <2>3, <2>4, KnownBefore
<1>3. CASE UNCHANGED <<up, writeBuffer>>
  <2>1. OneCopy'
    BY <1>3 DEF OneCopy, Single
  <2> QED BY <1>3, <2>1, KnownBefore DEF Known
<1> QED BY <1>1, <1>2, <1>3 DEF Commit, Buffered

\* So does flushing the buffer.
LEMMA FlushSingle ==
  ASSUME TypeOK, TypeOK', Single, PageGrows, FlushWriteBuffer, socket # 0,
         received' = received
  PROVE  Single'
<1>0. up \in Queues /\ writeBuffer \in Seq(Message) /\ socket \in Session
  <2>1. up \in Queues /\ writeBuffer \in Seq(Message)
    BY DEF TypeOK, Queues
  <2>2. socket \in Session
    BY BoundsAssumption DEF TypeOK, Session
  <2> QED BY <2>1, <2>2
<1>1. CASE writeBuffer = <<>>
  <2>1. up' = up
    BY <1>0, <1>1 DEF FlushWriteBuffer, Flushed, Push, Queues
  <2>2. Fewer(up, up')
    BY <2>1 DEF Fewer
  <2> QED BY <1>1, <2>2, LessSingle DEF FlushWriteBuffer
<1>2. CASE writeBuffer # <<>>
  <2> DEFINE p == Data(writeBuffer)  m == Head(writeBuffer)
  <2>1. p \in Packet /\ p.type = "message" /\ Decoded(p) = m /\ m \in Message
    BY <1>0, <1>2 DEF Data, Packet, Decoded
  <2>2. Among(m, writeBuffer)
    <3>1. 1 \in 1 .. Len(writeBuffer) /\ writeBuffer[1] = m
      BY <1>0, <1>2
    <3> QED BY <3>1 DEF Among
  <2>3. up' = Push(up, socket, <<p>>) /\ writeBuffer' = <<>>
    BY <1>2 DEF FlushWriteBuffer, Flushed
  <2>4. m.n # 0 => ~UnderWay(m, up) /\ ~Among(m, received)
    BY <2>1, <2>2 DEF Single, OneCopy
  <2>5. Says(p) <=> m.n # 0
    BY <2>1 DEF Says
  <2> HIDE DEF p, m
  <2>6. /\ \A x \in Message : UnderWay(x, up') => UnderWay(x, up) \/ (m.n # 0 /\ x = m)
        /\ UnderWayOnce(up')
    BY <1>0, <2>1, <2>3, <2>4, <2>5, PushAdds DEF Single, OneCopy
  <2>7. AmongOnce(writeBuffer') /\ \A x : ~Among(x, writeBuffer')
    BY <2>3 DEF AmongOnce, Among
  <2>8. OneCopy'
    BY <2>4, <2>6, <2>7 DEF OneCopy, Single
  <2>9. \A x \in Message : Known(x)' => Known(x)
    BY <2>2, <2>6, <2>7 DEF Known
  <2> QED BY <2>8, <2>9, KnownBefore
<1> QED BY <1>1, <1>2

\* So does handling a message, which takes it off its way.
LEMMA HandleSingle ==
  ASSUME TypeOK, TypeOK', Single, PageGrows, NEW s \in Session, up[s] # <<>>,
         up' = Pop(up, s), writeBuffer' = writeBuffer,
         Head(up[s]).type = "message",
         received' = Append(received, Decoded(Head(up[s])))
  PROVE  Single'
<1> DEFINE m == Decoded(Head(up[s]))
<1>0. up \in Queues /\ received \in Seq(Message)
  BY DEF TypeOK, Queues
<1>1. m \in Message
  BY <1>0, PopType, DecodedType
<1>2. Fewer(up, up')
  BY <1>0, PopFewer
<1>3. UnderWayOnce(up') /\ \A x \in Message : UnderWay(x, up') => UnderWay(x, up)
  BY <1>2 DEF Fewer, Single, OneCopy
<1>4. m.n # 0 => UnderWay(m, up) /\ ~UnderWay(m, up')
  <2> SUFFICES ASSUME m.n # 0 PROVE UnderWay(m, up) /\ ~UnderWay(m, up')
    OBVIOUS
  <2>1. Says(Head(up[s]))
    BY DEF Says
  <2>2. 1 \in 1 .. Len(up[s]) /\ up[s][1] = Head(up[s])
    <3>1. up[s] \in Seq(Packet)
      BY <1>0 DEF Queues
    <3> QED BY <3>1
  <2>3. UnderWay(m, up)
    BY <2>1, <2>2 DEF UnderWay
  <2> QED BY <1>0, <2>1, <2>3, PopTakes DEF Single, OneCopy
<1>5. m.n # 0 => ~Among(m, writeBuffer) /\ ~Among(m, received)
  BY <1>1, <1>4 DEF Single, OneCopy
<1> HIDE DEF m
<1>6. received' = Append(received, m)
  BY DEF m
<1>7. /\ \A x : Among(x, received') => Among(x, received) \/ x = m
      /\ AmongOnce(received')
  BY <1>0, <1>1, <1>5, <1>6, AppendAmong DEF Single, OneCopy
<1>8. OneCopy'
  BY <1>3, <1>4, <1>5, <1>7 DEF OneCopy, Single
<1>9. \A x \in Message : x.n # 0 /\ Known(x)' => Known(x)
  BY <1>3, <1>4, <1>7 DEF Known
<1> QED BY <1>8, <1>9, KnownBefore

\* The front end keeps to it.
LEMMA FrontendSingle ==
  ASSUME TypeOK, TypeOK', Single, FrontendNext
  PROVE  Single'
<1>0. /\ generations \in Nat /\ currentChannel \in Nat /\ sent \in Nat
      /\ currentChannel <= generations /\ (channelOpen => currentChannel # 0)
      /\ up \in Queues
  BY DEF TypeOK, Queues, Single, MessagesNumbered
<1>p. UNCHANGED page /\ sent' >= sent => PageGrows
  BY <1>0 DEF page, PageGrows
<1>s. socket # 0 => socket \in Session
  BY BoundsAssumption DEF TypeOK, Session
<1>f. up' = up => Fewer(up, up')
  BY DEF Fewer
<1>1. CASE Connect
  <2> DEFINE s == sessions + 1
             inquiry == IF currentChannel # 0 THEN "RECONNECT" ELSE "INITIAL"
             packets == Times(pendingEmits, Signal("INITIAL")) \o <<Signal(inquiry)>>
  <2>1. s \in Session
    BY <1>1, BoundsAssumption DEF Connect, Session, TypeOK
  <2>2. up' = [up EXCEPT ![s] = packets]
    BY <1>1 DEF Connect
  <2>3. \A i \in 1 .. Len(packets) : ~Says(packets[i])
    <3>1. Times(pendingEmits, Signal("INITIAL")) \in Seq({Signal("INITIAL")})
      BY DEF Times, TypeOK
    <3>2. packets \in Seq({Signal("INITIAL"), Signal("RECONNECT")})
      BY <3>1
    <3>3. ~Says(Signal("INITIAL")) /\ ~Says(Signal("RECONNECT"))
      BY DEF Says, Signal
    <3> QED BY <3>2, <3>3
  <2> HIDE DEF packets
  <2>4. up'[s] = packets /\ \A t \in Session : t # s => up'[t] = up[t]
    BY <1>0, <2>1, <2>2 DEF Queues
  <2>5. up' \in Queues
    BY DEF TypeOK, Queues
  <2>6. Fewer(up, up')
    BY <1>0, <2>1, <2>3, <2>4, <2>5, SilentFewer
  <2>7. UNCHANGED <<page, sent, writeBuffer, received>>
    BY <1>1 DEF Connect
  <2> QED BY <1>0, <1>p, <2>6, <2>7, LessSingle
<1>2. CASE Disconnect
  BY <1>0, <1>2, <1>p, <1>f, LessSingle DEF Disconnect
<1>r. ASSUME FreshPage, UNCHANGED <<up, received>> PROVE Single'
  <2>1. PageGrows
    BY <1>0, <1>r DEF FreshPage, PageGrows
  <2> QED BY <1>r, <1>f, <2>1, LessSingle DEF FreshPage
<1>3. CASE ReloadPage
  BY <1>3, <1>r DEF ReloadPage
<1>4. CASE ReceiveInitialConnect
  <2>1. CASE initialConnectListeners = 0
    BY <1>0, <1>4, <1>p, <1>f, <2>1, LessSingle DEF ReceiveInitialConnect, frontend
  <2>2. CASE initialConnectListeners # 0
    <3>1. PageGrows
      BY <1>0, <1>4, <2>2 DEF ReceiveInitialConnect, ConnectNewChannels, PageGrows, TypeOK
    <3> QED BY <1>4, <1>f, <2>2, <3>1, LessSingle DEF ReceiveInitialConnect, ConnectNewChannels
  <2> QED BY <2>1, <2>2
<1>5. CASE ReceiveReconnected
  <2>1. UNCHANGED <<page, sent, received>> /\ socket # 0
    BY <1>5 DEF ReceiveReconnected
  <2>2. PageGrows
    BY <1>0, <1>p, <2>1
  <2>3. CASE UNCHANGED <<up, writeBuffer>>
    BY <1>f, <2>1, <2>2, <2>3, LessSingle
  <2>4. CASE FlushWriteBuffer
    BY <2>1, <2>2, <2>4, FlushSingle
  <2> QED BY <1>5, <2>3, <2>4 DEF ReceiveReconnected
<1>6. CASE ReceiveReconnectRefused
  <2>1. UNCHANGED <<up, received>>
    BY <1>6 DEF ReceiveReconnectRefused
  <2>2. CASE GiveUpChannel
    <3>1. PageGrows
      BY <1>0, <2>2 DEF GiveUpChannel, PageGrows
    <3> QED BY <1>f, <2>1, <2>2, <3>1, LessSingle DEF GiveUpChannel
  <2> QED BY <1>6, <1>r, <2>1, <2>2 DEF ReceiveReconnectRefused
<1>7. CASE ReceiveMessage
  BY <1>0, <1>7, <1>p, <1>f, LessSingle DEF ReceiveMessage, frontend
<1>8. CASE Send
  <2> DEFINE m == [from |-> currentChannel, n |-> sent + 1]
  <2>1. /\ m \in Message /\ m.n # 0 /\ m.from = currentChannel /\ m.n = sent + 1
        /\ Commit(m) /\ sent' = sent + 1 /\ UNCHANGED <<page, received>>
    BY <1>0, <1>8 DEF Send, Message
  <2>2. m.from \in 1 .. generations
    BY <1>0, <1>8, <2>1 DEF Send
  <2>3. PageGrows
    BY <1>0, <1>p, <2>1
  <2>4. ~Known(m)
    BY <1>0, <2>1 DEF Single, MessagesNumbered
  <2>5. m.n <= sent'
    BY <1>0, <2>1
  <2> HIDE DEF m
  <2> QED BY <2>1, <2>2, <2>3, <2>4, <2>5, CommitSingle
<1>9. CASE MarkForClose
  <2> DEFINE m == [from |-> currentChannel, n |-> 0]
  <2>1. m \in Message /\ m.n = 0 /\ Commit(m) /\ UNCHANGED <<page, sent, received>>
    BY <1>0, <1>9 DEF MarkForClose, Message
  <2>2. PageGrows
    BY <1>0, <1>p, <2>1
  <2> HIDE DEF m
  <2> QED BY <2>1, <2>2, CommitSingle
<1> QED BY <1>1, <1>2, <1>3, <1>4, <1>5, <1>6, <1>7, <1>8, <1>9 DEF FrontendNext

\* So does the back end.
LEMMA BackendSingle ==
  ASSUME TypeOK, TypeOK', Single, BackendNext
  PROVE  Single'
<1>0. /\ generations \in Nat /\ currentChannel \in Nat /\ sent \in Nat
      /\ currentChannel <= generations /\ (channelOpen => currentChannel # 0)
      /\ up \in Queues
  BY DEF TypeOK, Queues, Single, MessagesNumbered
<1>1. UNCHANGED frontend
  BY DEF BackendNext, Receive, NoticeDisconnect, TimerFires, Serve, Restart
<1>2. PageGrows /\ writeBuffer' = writeBuffer
  BY <1>0, <1>1 DEF frontend, page, PageGrows
<1>f. up' = up => Fewer(up, up')
  BY DEF Fewer
<1>3. ASSUME NEW s \in Session, Receive(s) PROVE Single'
  <2>1. up[s] # <<>> /\ up' = Pop(up, s)
    BY <1>3 DEF Receive
  <2>2. Fewer(up, up')
    BY <1>0, <2>1, PopFewer
  <2>3. CASE received' \in {received, <<>>}
    BY <1>2, <2>2, <2>3, LessSingle
  <2>4. CASE Head(up[s]).type = "message" /\ received' = Append(received, Decoded(Head(up[s])))
    BY <1>2, <2>1, <2>4, HandleSingle
  <2> QED
    BY <1>3, <2>3, <2>4
       DEF Receive, HandleInitialConnect, SetConnection, HandleReconnect, Reattach,
           RefuseReconnect, HandleMessage
<1>4. ASSUME NEW s \in Session, NoticeDisconnect(s) PROVE Single'
  <2>1. up' = Clear(up, s)
    BY <1>4 DEF NoticeDisconnect
  <2>2. Fewer(up, up')
    BY <1>0, <2>1, ClearFewer
  <2>3. received' \in {received, <<>>}
    BY <1>4 DEF NoticeDisconnect, HandleDisconnect, CloseConnection, SetConnection
  <2> QED BY <1>2, <2>2, <2>3, LessSingle
<1>5. ASSUME NEW s \in Session, TimerFires(s) PROVE Single'
  BY <1>2, <1>5, <1>f, LessSingle DEF TimerFires, network, CloseConnection, SetConnection
<1>6. CASE Serve
  BY <1>2, <1>6, <1>f, LessSingle DEF Serve
<1>7. CASE Restart
  <2>1. up' = [s \in Session |-> <<>>] /\ received' = <<>>
    BY <1>7 DEF Restart, SetConnection
  <2>2. \A s \in Session : 1 .. Len(up'[s]) = {}
    BY <2>1
  <2>3. Fewer(up, up')
    BY <2>2 DEF Fewer, UnderWayOnce, UnderWay
  <2> QED BY <1>2, <2>1, <2>3, LessSingle
<1> QED BY <1>3, <1>4, <1>5, <1>6, <1>7 DEF BackendNext

\* A context handles a message once, in every environment: it is sent directly
\* or buffered, and what is flushed is not kept.
THEOREM HandledOnce == Spec => []ReceivedOnce
<1>1. Init => Single
  <2> SUFFICES ASSUME Init PROVE Single
    OBVIOUS
  <2>1. \A s \in Session : 1 .. Len(up[s]) = {}
    BY DEF Init
  <2>2. 1 .. Len(writeBuffer) = {} /\ 1 .. Len(received) = {}
    BY DEF Init
  <2> QED BY <2>1, <2>2
             DEF Init, Single, OneCopy, MessagesNumbered, Known, UnderWay, Among,
                 UnderWayOnce, AmongOnce
<1>2. TypeOK /\ TypeOK' /\ Single /\ [Next]_vars => Single'
  <2> SUFFICES ASSUME TypeOK, TypeOK', Single, [Next]_vars PROVE Single'
    OBVIOUS
  <2>1. CASE UNCHANGED vars
    <3>1. UNCHANGED <<up, writeBuffer, received, generations, currentChannel, channelOpen, sent>>
      BY <2>1 DEF vars, frontend, page, network
    <3> QED BY <3>1 DEF Single, OneCopy, MessagesNumbered, Known
  <2> QED BY <2>1, FrontendSingle, BackendSingle DEF Next
<1>3. Single => ReceivedOnce
  BY DEF Single, OneCopy, AmongOnce, ReceivedOnce
<1> QED BY <1>1, <1>2, <1>3, TypeCorrect, PTL DEF Spec
=============================================================================
