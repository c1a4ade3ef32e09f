------------------------- MODULE FrontendConnection -------------------------
(***************************************************************************)
(* The connection between one front end and the back end of Theia over a   *)
(* socket that comes and goes.                                             *)
(*                                                                         *)
(* Front end: WebSocketConnectionSource (ws-connection-source.ts).         *)
(* Back end:  WebsocketFrontendConnectionService and                       *)
(*            ReconnectableSocketChannel                                   *)
(*            (websocket-frontend-connection-service.ts).                  *)
(* Both:      SocketWriteBuffer (socket-write-buffer.ts).                  *)
(*                                                                         *)
(* Each time the socket comes up is a SESSION, numbered from 1.  The two   *)
(* ends of a session learn of its death independently: that is where the   *)
(* behaviours worth checking come from.  A back-end connection context is  *)
(* named by the session whose INITIAL_CONNECT created it, a front-end      *)
(* channel by a generation number.  0 stands for "none" throughout.        *)
(***************************************************************************)
EXTENDS Naturals, Sequences

CONSTANTS
  MaxSessions,       \* bound: sessions in one behaviour
  MaxSent,           \* bound: messages written to one channel by either side
  BufferCapacity,    \* messages a SocketWriteBuffer holds (100 KB in the code)
  CloseTimeout,      \* frontendConnectionTimeout(): "zero", "finite" or "never"
  ReloadOnReconnect, \* the front-end setting reloadOnReconnect
  KeepsId,           \* a reloaded page has the same front-end id (Electron)
  StaleDisconnects,  \* the front end may be back before the back end has
                     \* noticed that the previous session died
  HandshakeDrops,    \* a session may die while a handshake is under way
  Restarts           \* the back-end process may restart

ASSUME BoundsAssumption ==
  /\ MaxSessions \in Nat
  /\ MaxSent \in Nat
  /\ BufferCapacity \in Nat
ASSUME SettingsAssumption ==
  /\ CloseTimeout \in {"zero", "finite", "never"}
  /\ ReloadOnReconnect \in BOOLEAN
  /\ KeepsId \in BOOLEAN
ASSUME FaultsAssumption ==
  /\ StaleDisconnects \in BOOLEAN
  /\ HandshakeDrops \in BOOLEAN
  /\ Restarts \in BOOLEAN

VARIABLES
  \* front end
  socket,                  \* session the socket is connected on
  generations,             \* channels created so far, by any page
  currentChannel,          \* generation of currentChannel
  channelOpen,             \* currentChannel has not been closed
  reconnectListeners,      \* listeners left on RECONNECT
  initialConnectListeners, \* listeners left on INITIAL_CONNECT
  pendingEmits,            \* INITIAL_CONNECTs emitted while disconnected
  writeBuffer,             \* messages committed while disconnected
  sent,                    \* messages written to currentChannel
  gone,                    \* the page was reloaded under another id
  \* network
  sessions,                \* sessions opened so far
  up,                      \* session -> packets to the back end
  down,                    \* session -> packets to the front end
  alive,                   \* sessions the back end believes in
  \* back end
  listening,               \* sessions that have not said INITIAL or RECONNECT
  bound,                   \* session -> context whose disconnect handler it has
  connection,              \* connectionsByFrontend
  attached,                \* the socket of that ReconnectableSocketChannel
  socketBuffer,            \* its SocketWriteBuffer
  served,                  \* messages written to it
  timers,                  \* close timers that will fire, by their session
  closeTimeout,            \* closeTimeouts: the timer that can be cancelled
  markedForClose,          \* channelsMarkedForClose
  thrown,                  \* closeConnection ran without a connection
  \* histories
  received,                \* messages the connection's context has handled
  delivered                \* messages currentChannel has handled

page      == <<generations, currentChannel, channelOpen, gone>>
handshake == <<reconnectListeners, initialConnectListeners, pendingEmits>>
frontend  == <<socket, page, handshake, writeBuffer, sent>>
network   == <<sessions, up, down, alive>>
context   == <<connection, attached, socketBuffer, served>>
closing   == <<timers, closeTimeout, markedForClose, thrown>>
backend   == <<listening, bound, context, closing>>
vars      == <<frontend, network, backend, received, delivered>>

-----------------------------------------------------------------------------
(* Sessions, messages and packets.  A message says which channel wrote it   *)
(* and its number there; the markForClose call is message 0.  A data packet *)
(* carries the bytes of one or more messages.                               *)

Session == 1 .. MaxSessions
Message == [from : Nat, n : Nat]
Control == {"INITIAL", "RECONNECT", "RECONNECT true", "RECONNECT false"}
Packet  == [type : Control, body : {<<>>}]
             \cup [type : {"message"}, body : Seq(Message) \ {<<>>}]

Signal(type)  == [type |-> type, body |-> <<>>]
Data(msgs)    == [type |-> "message", body |-> msgs]
Times(k, p)   == [i \in 1 .. k |-> p]

(* A packet is decoded as ONE message: what follows the first message in   *)
(* the same packet is never read.                                          *)
Decoded(packet) == Head(packet.body)

Push(queues, s, packets) == [queues EXCEPT ![s] = @ \o packets]
Pop(queues, s)           == [queues EXCEPT ![s] = Tail(@)]
Clear(queues, s)         == [queues EXCEPT ![s] = <<>>]

(* What the back end emits on a session the front end has left is lost.    *)
Emit(queues, s, packets) ==
  IF s = socket THEN Push(queues, s, packets) ELSE queues

(* SocketWriteBuffer.flush: everything in the buffer goes out as one packet. *)
Flushed(buffer) == IF buffer = <<>> THEN <<>> ELSE <<Data(buffer)>>

(* SocketWriteBuffer.buffer: a message too many is refused with an error.   *)
Buffered(buffer, m) ==
  IF Len(buffer) < BufferCapacity THEN Append(buffer, m) ELSE buffer

-----------------------------------------------------------------------------
(* The environment.  Every fault leaves sessions for the front end to come  *)
(* back: one for a refused RECONNECT and one for the INITIAL_CONNECT after. *)

CanFail == sessions + 2 <= MaxSessions

Handshaking ==
  /\ socket # 0
  /\ \E q \in {up[socket], down[socket]} :
       \E i \in 1 .. Len(q) : q[i].type # "message"

FaultAllowed == CanFail /\ (HandshakeDrops \/ ~Handshaking)

-----------------------------------------------------------------------------
Init ==
  /\ socket = 0 /\ generations = 0 /\ currentChannel = 0 /\ channelOpen = FALSE
  /\ reconnectListeners = 0 /\ initialConnectListeners = 0 /\ pendingEmits = 0
  /\ writeBuffer = <<>> /\ sent = 0 /\ gone = FALSE
  /\ sessions = 0 /\ alive = {}
  /\ up = [s \in Session |-> <<>>] /\ down = [s \in Session |-> <<>>]
  /\ listening = {} /\ bound = [s \in Session |-> 0]
  /\ connection = 0 /\ attached = 0 /\ socketBuffer = <<>> /\ served = 0
  /\ timers = {} /\ closeTimeout = 0 /\ markedForClose = FALSE /\ thrown = FALSE
  /\ received = <<>> /\ delivered = <<>>

-----------------------------------------------------------------------------
(* Front end: the socket comes up.  socket.io first sends what was emitted  *)
(* while it was down, then fires 'connect': handleSocketConnected.          *)

Connect ==
  /\ socket = 0 /\ ~gone
  /\ sessions < MaxSessions
  /\ StaleDisconnects \/ alive = {}
  /\ LET s       == sessions + 1
         inquiry == IF currentChannel # 0 THEN "RECONNECT" ELSE "INITIAL"
     IN /\ sessions' = s
        /\ socket' = s
        /\ alive' = alive \cup {s}
        /\ listening' = listening \cup {s}
        /\ up' = [up EXCEPT ![s] =
                     Times(pendingEmits, Signal("INITIAL")) \o <<Signal(inquiry)>>]
  /\ pendingEmits' = 0
  /\ IF currentChannel # 0
     THEN /\ reconnectListeners' = reconnectListeners + 1
          /\ UNCHANGED initialConnectListeners
     ELSE /\ initialConnectListeners' = initialConnectListeners + 1
          /\ UNCHANGED reconnectListeners
  /\ UNCHANGED <<page, writeBuffer, sent, down, bound, context, closing, received,
                 delivered>>

\* The socket's 'disconnect': the loss of the session, by itself or because
\* the back end has dropped it.
Disconnect ==
  /\ socket # 0
  /\ socket \notin alive \/ FaultAllowed
  /\ down' = Clear(down, socket)
  /\ socket' = 0
  /\ UNCHANGED <<page, handshake, writeBuffer, sent, sessions, up, alive, backend,
                 received, delivered>>

\* A new page in place of the old one: none of the old one's state survives.
FreshPage ==
  /\ down' = Clear(down, socket)
  /\ socket' = 0
  /\ currentChannel' = 0 /\ channelOpen' = FALSE
  /\ reconnectListeners' = 0 /\ initialConnectListeners' = 0 /\ pendingEmits' = 0
  /\ writeBuffer' = <<>> /\ sent' = 0 /\ delivered' = <<>>
  /\ gone' = ~KeepsId
  /\ UNCHANGED generations

\* The user reloads the window.
ReloadPage ==
  /\ socket # 0 /\ FaultAllowed
  /\ FreshPage
  /\ UNCHANGED <<sessions, up, alive, backend, received>>

\* initialConnectListener: connectNewChannel, run once by each listener, all
\* before any of the new channels is written to.  Only the last stays open.
ConnectNewChannels(k) ==
  /\ generations' = generations + k
  /\ currentChannel' = generations + k
  /\ channelOpen' = TRUE
  /\ initialConnectListeners' = 0
  /\ writeBuffer' = <<>> /\ sent' = 0 /\ delivered' = <<>>

ReceiveInitialConnect ==
  /\ socket # 0 /\ down[socket] # <<>>
  /\ Head(down[socket]).type = "INITIAL"
  /\ down' = Pop(down, socket)
  /\ IF initialConnectListeners = 0
     THEN UNCHANGED <<frontend, delivered>>
     ELSE /\ ConnectNewChannels(initialConnectListeners)
          /\ UNCHANGED <<socket, reconnectListeners, pendingEmits, gone>>
  /\ UNCHANGED <<sessions, up, alive, backend, received>>

\* Mistake: the buffer is sent and kept.
FlushKeepingBuffer ==
  /\ up' = Push(up, socket, Flushed(writeBuffer))
  /\ UNCHANGED writeBuffer

\* writeBuffer.flush(socket)
FlushWriteBuffer ==
  /\ up' = Push(up, socket, Flushed(writeBuffer))
  /\ writeBuffer' = <<>>

\* reconnectListener(true).
ReceiveReconnected ==
  /\ socket # 0 /\ down[socket] # <<>>
  /\ Head(down[socket]).type = "RECONNECT true"
  /\ down' = Pop(down, socket)
  /\ IF reconnectListeners = 0 THEN UNCHANGED <<up, writeBuffer>> ELSE FlushWriteBuffer
  /\ reconnectListeners' = 0
  /\ UNCHANGED <<socket, page, pendingEmits, initialConnectListeners, sent,
                 sessions, alive, backend, received, delivered>>

\* reconnectListener(false), run once by each listener: reload the page, or
\* give the channel up, leave the session and ask for an initial connect on
\* the next one.
GiveUpChannel ==
  /\ down' = Clear(down, socket)
  /\ socket' = 0
  /\ channelOpen' = FALSE
  /\ writeBuffer' = <<>>
  /\ reconnectListeners' = 0
  /\ initialConnectListeners' = initialConnectListeners + reconnectListeners
  /\ pendingEmits' = pendingEmits + reconnectListeners
  /\ UNCHANGED <<generations, currentChannel, sent, gone, delivered>>

ReceiveReconnectRefused ==
  /\ socket # 0 /\ down[socket] # <<>>
  /\ Head(down[socket]).type = "RECONNECT false"
  /\ reconnectListeners # 0
  /\ IF ReloadOnReconnect THEN FreshPage ELSE GiveUpChannel
  /\ UNCHANGED <<sessions, up, alive, backend, received>>

\* messageHandler of the open channel.
ReceiveMessage ==
  /\ socket # 0 /\ down[socket] # <<>>
  /\ Head(down[socket]).type = "message"
  /\ down' = Pop(down, socket)
  /\ delivered' = IF channelOpen
                   THEN Append(delivered, Decoded(Head(down[socket])))
                   ELSE delivered
  /\ UNCHANGED <<frontend, sessions, up, alive, backend, received>>

\* The commit of a message written to currentChannel.
Commit(m) ==
  IF socket # 0
  THEN /\ up' = Push(up, socket, <<Data(<<m>>)>>)
       /\ UNCHANGED writeBuffer
  ELSE /\ writeBuffer' = Buffered(writeBuffer, m)
       /\ UNCHANGED up

Send ==
  /\ channelOpen
  /\ sent < MaxSent
  /\ sent' = sent + 1
  /\ Commit([from |-> currentChannel, n |-> sent + 1])
  /\ UNCHANGED <<socket, page, handshake, sessions, down, alive, backend,
                 received, delivered>>

\* The window is about to close: it has the back end told.
Marking ==
  \/ \E i \in 1 .. Len(writeBuffer) : writeBuffer[i].n = 0
  \/ socket # 0 /\ \E i \in 1 .. Len(up[socket]) :
                      up[socket][i].type = "message" /\ Decoded(up[socket][i]).n = 0

MarkForClose ==
  /\ channelOpen
  /\ ~Marking /\ ~markedForClose  \* bound: one call at a time
  /\ Commit([from |-> currentChannel, n |-> 0])
  /\ UNCHANGED <<socket, page, handshake, sent, sessions, down, alive, backend,
                 received, delivered>>

-----------------------------------------------------------------------------
(* Back end.                                                                *)

\* Mistake: the handle is forgotten but the timer left to run.
ForgetTimer(running) == timers' = running /\ closeTimeout' = 0

\* clearTimeout(closeTimeouts.get(id)); closeTimeouts.delete(id)
CancelTimer(running) ==
  /\ timers' = running \ {closeTimeout}
  /\ closeTimeout' = 0

\* Mistakes: the handle stored is the one before; none is stored; no timer.
StartWrongTimer(s) == timers' = timers \cup {closeTimeout} /\ closeTimeout' = s
StartTimerUnseen(s) == timers' = timers \cup {s} /\ UNCHANGED closeTimeout
StartNoTimer(s) == closeTimeout' = s /\ UNCHANGED timers

\* setTimeout(...); closeTimeouts.set(id, handle): the handle of a timer that
\* is still running is forgotten, not cleared.
StartTimer(s) ==
  /\ timers' = timers \cup {s}
  /\ closeTimeout' = s

\* Mistake: a new context is not put on its socket.
SetUnattached(c) ==
  /\ connection' = c /\ attached' = 0 /\ socketBuffer' = <<>> /\ served' = 0
  /\ received' = <<>>

\* The context in connectionsByFrontend from now on: c, on the socket of
\* session c, with an empty buffer; or none, with c = 0.
SetConnection(c) ==
  /\ connection' = c /\ attached' = c /\ socketBuffer' = <<>> /\ served' = 0
  /\ received' = <<>>

\* closeConnection takes the context for present: without one it throws,
\* after it has cleared the maps.
CloseConnection(running) ==
  /\ SetConnection(0)
  /\ CancelTimer(running)
  /\ thrown' = (thrown \/ connection = 0)

\* Mistake: an INITIAL_CONNECT takes over the context that is there.
InitialConnectKeeping(s) ==
  /\ listening' = listening \ {s}
  /\ CancelTimer(timers)
  /\ IF connection = 0
     THEN SetConnection(s) /\ bound' = [bound EXCEPT ![s] = s]
     ELSE /\ attached' = s /\ bound' = [bound EXCEPT ![s] = connection]
          /\ UNCHANGED <<connection, socketBuffer, served, received>>
  /\ down' = Emit(down, s, <<Signal("INITIAL")>>)
  /\ UNCHANGED <<markedForClose, thrown>>

\* initialConnectListener of session s: any context is replaced by a new one.
HandleInitialConnect(s) ==
  /\ listening' = listening \ {s}
  /\ IF connection # 0 THEN CancelTimer(timers) ELSE UNCHANGED <<timers,
                                                                 closeTimeout>>
  /\ SetConnection(s)
  /\ bound' = [bound EXCEPT ![s] = s]
  /\ down' = Emit(down, s, <<Signal("INITIAL")>>)
  /\ UNCHANGED <<markedForClose, thrown>>

\* Mistakes: the close timer is left running; the buffer is sent and kept.
ReattachWithTimer(s) ==
  /\ down' = Emit(down, s, <<Signal("RECONNECT true")>> \o Flushed(socketBuffer))
  /\ attached' = s
  /\ socketBuffer' = <<>>
  /\ bound' = [bound EXCEPT ![s] = connection]
  /\ UNCHANGED <<timers, closeTimeout, connection, served, received>>

ReattachKeepingBuffer(s) ==
  /\ down' = Emit(down, s, <<Signal("RECONNECT true")>> \o Flushed(socketBuffer))
  /\ attached' = s
  /\ bound' = [bound EXCEPT ![s] = connection]
  /\ CancelTimer(timers)
  /\ UNCHANGED <<connection, socketBuffer, served, received>>

\* The context moves to session s: the answer goes out before what the
\* buffer held, and the close timer is called off.
Reattach(s) ==
  /\ down' = Emit(down, s, <<Signal("RECONNECT true")>> \o Flushed(socketBuffer))
  /\ attached' = s
  /\ socketBuffer' = <<>>
  /\ bound' = [bound EXCEPT ![s] = connection]
  /\ CancelTimer(timers)
  /\ UNCHANGED <<connection, served, received>>

\* Mistakes: a new context is passed off as the old one; there is no answer.
ReconnectAnew(s) ==
  /\ down' = Emit(down, s, <<Signal("RECONNECT true")>>)
  /\ SetConnection(s)
  /\ bound' = [bound EXCEPT ![s] = s]
  /\ UNCHANGED <<timers, closeTimeout>>

IgnoreReconnect(s) ==
  UNCHANGED <<down, context, bound, timers, closeTimeout, received>>

RefuseReconnect(s) ==
  /\ down' = Emit(down, s, <<Signal("RECONNECT false")>>)
  /\ UNCHANGED <<context, bound, timers, closeTimeout, received>>

\* reconnectListener of session s.
HandleReconnect(s) ==
  /\ listening' = listening \ {s}
  /\ IF connection # 0 THEN Reattach(s) ELSE RefuseReconnect(s)
  /\ UNCHANGED <<markedForClose, thrown>>

\* dataListener: only the socket the context is attached to has one.
HandleMessage(s, m) ==
  /\ IF connection # 0 /\ attached = s
     THEN /\ received' = Append(received, m)
          /\ markedForClose' = (markedForClose \/ m.n = 0)
     ELSE UNCHANGED <<received, markedForClose>>
  /\ UNCHANGED <<down, listening, bound, context, timers, closeTimeout, thrown>>

Receive(s) ==
  /\ s \in alive /\ up[s] # <<>>
  /\ up' = Pop(up, s)
  /\ LET packet == Head(up[s])
     IN \/ packet.type = "INITIAL" /\ s \in listening /\ HandleInitialConnect(s)
        \/ packet.type = "RECONNECT" /\ s \in listening /\ HandleReconnect(s)
        \/ packet.type = "message" /\ HandleMessage(s, Decoded(packet))
        \/ /\ packet.type \in Control /\ s \notin listening
           /\ UNCHANGED <<down, backend, received>>
  /\ UNCHANGED <<frontend, sessions, alive, delivered>>

\* A message written to the context's channel.
Serve ==
  /\ connection # 0
  /\ served < MaxSent
  /\ served' = served + 1
  /\ LET m == [from |-> connection, n |-> served + 1]
     IN IF attached # 0
        THEN /\ down' = Emit(down, attached, <<Data(<<m>>)>>)
             /\ UNCHANGED socketBuffer
        ELSE /\ socketBuffer' = Buffered(socketBuffer, m)
             /\ UNCHANGED down
  /\ UNCHANGED <<frontend, sessions, up, alive, listening, bound, connection,
                 attached, closing, received, delivered>>

\* Mistake: the mark is looked up and stays.
KeepMark == UNCHANGED markedForClose

\* channelsMarkedForClose.delete(id)
ConsumeMark == markedForClose' = FALSE

\* The 'disconnect' handler handleSocketDisconnect put on session s.  It
\* detaches the context the session was bound to from WHATEVER socket that
\* context has by now, and closes whatever context the front end has by now.
HandleDisconnect(s) ==
  /\ ConsumeMark
  /\ IF CloseTimeout = "zero" \/ markedForClose
     THEN CloseConnection(timers)
     ELSE /\ attached' = IF bound[s] = connection THEN 0 ELSE attached
          /\ IF CloseTimeout = "finite"
             THEN StartTimer(s)
             ELSE UNCHANGED <<timers, closeTimeout>>
          /\ UNCHANGED <<connection, socketBuffer, served, thrown, received>>

\* The back end notices that session s is over, or ends it itself.
NoticeDisconnect(s) ==
  /\ s \in alive
  /\ s # socket \/ FaultAllowed
  /\ alive' = alive \ {s}
  /\ listening' = listening \ {s}
  /\ up' = Clear(up, s)
  /\ IF bound[s] # 0
     THEN HandleDisconnect(s)
     ELSE UNCHANGED <<context, closing, received>>
  /\ UNCHANGED <<frontend, sessions, down, bound, delivered>>

\* A close timer expires: closeConnection.
TimerFires(t) ==
  /\ t \in timers
  /\ CloseConnection(timers \ {t})
  /\ UNCHANGED <<frontend, network, listening, bound, markedForClose, delivered>>

\* The back-end process dies and comes back with no contexts.
Restart ==
  /\ Restarts /\ FaultAllowed
  /\ alive # {} \/ connection # 0
  /\ alive' = {} /\ listening' = {}
  /\ up' = [s \in Session |-> <<>>]
  /\ SetConnection(0)
  /\ timers' = {} /\ closeTimeout' = 0 /\ markedForClose' = FALSE
  /\ UNCHANGED <<frontend, sessions, down, bound, thrown, delivered>>

-----------------------------------------------------------------------------
FrontendNext ==
  \/ Connect \/ Disconnect \/ ReloadPage
  \/ ReceiveInitialConnect \/ ReceiveReconnected \/ ReceiveReconnectRefused
  \/ ReceiveMessage \/ Send \/ MarkForClose

BackendNext ==
  \/ \E s \in Session : Receive(s) \/ NoticeDisconnect(s) \/ TimerFires(s)
  \/ Serve
  \/ Restart

Next == FrontendNext \/ BackendNext

Spec == Init /\ [][Next]_vars

(* socket.io keeps trying to connect and pings on both sides, Node runs the *)
(* handlers of what arrives and the timers that expire.  Nobody has to send *)
(* anything, and no fault has to happen.                                    *)
Fairness ==
  /\ WF_vars(Connect)
  /\ WF_vars(socket \notin alive /\ Disconnect)
  /\ WF_vars(ReceiveInitialConnect \/ ReceiveReconnected
             \/ ReceiveReconnectRefused \/ ReceiveMessage)
  /\ \A s \in Session : /\ WF_vars(Receive(s))
                        /\ WF_vars(s # socket /\ NoticeDisconnect(s))
                        /\ WF_vars(TimerFires(s))

FairSpec == Spec /\ Fairness

-----------------------------------------------------------------------------
(* Properties.                                                              *)

\* The variables hold what the code's fields can hold.
TypeOK ==
  /\ socket \in 0 .. MaxSessions
  /\ generations \in Nat /\ currentChannel \in Nat
  /\ channelOpen \in BOOLEAN /\ gone \in BOOLEAN
  /\ reconnectListeners \in Nat /\ initialConnectListeners \in Nat
  /\ pendingEmits \in Nat /\ sent \in Nat
  /\ writeBuffer \in Seq(Message)
  /\ sessions \in 0 .. MaxSessions
  /\ up \in [Session -> Seq(Packet)] /\ down \in [Session -> Seq(Packet)]
  /\ alive \subseteq Session /\ listening \subseteq Session
  /\ bound \in [Session -> 0 .. MaxSessions]
  /\ connection \in 0 .. MaxSessions /\ attached \in 0 .. MaxSessions
  /\ socketBuffer \in Seq(Message) /\ served \in Nat
  /\ timers \subseteq Session /\ closeTimeout \in 0 .. MaxSessions
  /\ markedForClose \in BOOLEAN /\ thrown \in BOOLEAN
  /\ received \in Seq(Message) /\ delivered \in Seq(Message)

\* While dead sessions are noticed before the next one opens, the back end
\* holds at most one live session; a disconnect handler on it means that its
\* context is the current one and is on that session, and a context is on no
\* session but one that is up and has its disconnect handler.
ContextsMatched ==
  /\ \A s, t \in alive : s = t
  /\ \A s \in alive : s <= sessions
  /\ \A s \in Session : s > sessions => bound[s] = 0
  /\ \A s \in listening : s \in alive /\ bound[s] = 0
  /\ \A s \in alive : bound[s] # 0 => connection = bound[s] /\ attached = s
  /\ attached # 0 => /\ connection # 0
                    /\ attached \in alive
                    /\ bound[attached] = connection

\* closeConnection is "not called when no connection is present"
\* (websocket-frontend-connection-service.ts:86).
NeverThrows == ~thrown

\* Every close timer that runs can still be cancelled, and runs for a context
\* that waits for its front end: none is left to fire at a context the front
\* end has come back to.
TimersCancellable ==
  /\ timers \subseteq {closeTimeout}
  /\ timers # {} => connection # 0 /\ attached = 0

\* The front end takes its channel for connected: the handshake is over, the
\* channel is open, and the session is up.
Settled ==
  /\ socket # 0 /\ socket \in alive
  /\ channelOpen
  /\ ~Handshaking

\* When the front end takes its channel for connected, the back end has a
\* context for it, and that context is on the same session.
AttachedWhenSettled == Settled => connection # 0 /\ attached = socket

\* The back end never drops or replaces a context while the session it is on
\* is up at both ends.
KeptWhileConnected ==
  [][ connection # 0 /\ connection' # connection
      => attached \notin alive' \/ attached # socket ]_vars

SameSource(msgs) ==
  \A i, j \in 1 .. Len(msgs) : msgs[i].from = msgs[j].from

\* All a context handles comes from one front-end channel: services of an
\* earlier page or of a closed channel never talk into a new context.
OneChannelPerContext == SameSource(received)

\* All a channel handles comes from one context: after a reconnect the front
\* end is back with the context it had.
OneContextPerChannel == SameSource(delivered)

\* No outage, buffer or flush makes a context handle a message twice.
ReceivedOnce ==
  \A i, j \in 1 .. Len(received) :
    received[i] = received[j] => i = j \/ received[i].n = 0

\* What the front end handles of a context's messages it handles in the order
\* they were written, each at most once, across any number of reconnects.
DeliveredInOrder ==
  \A i, j \in 1 .. Len(delivered) : i < j => delivered[i].n < delivered[j].n

\* A context is up for closing only because its own page asked for it, never
\* because of a call an earlier page with the same id made.
MarkIsOwn ==
  markedForClose => \E i \in 1 .. Len(received) : received[i].n = 0

\* Every message in a packet that reaches the context is handled
\* (channel.ts:64: "emitted when a channel receives a new message").
EveryMessageHandled ==
  [][ \A s \in Session :
        /\ connection # 0 /\ attached = s
        /\ up[s] # <<>> /\ up'[s] = Tail(up[s]) /\ Head(up[s]).type = "message"
        => received' = received \o Head(up[s]).body ]_vars

Connected == Settled /\ connection # 0 /\ attached = socket

\* Once the failures stop, the front end is connected to a context of its own
\* again, and stays so, unless its page has gone for good.
Recovers == <>[](gone \/ Connected)

\* A context whose front end stays away is discarded in the end.
ContextDiscarded ==
  connection # 0 /\ attached = 0 ~> connection = 0 \/ attached # 0
=============================================================================
