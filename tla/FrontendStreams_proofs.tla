------------------------ MODULE FrontendStreams_proofs ------------------------
(***************************************************************************)
(* What the two ends of a connection hear of each other: proofs about       *)
(* FrontendConnection for every value of its constants, as long as the back *)
(* end learns of a dead session before the front end opens the next one.    *)
(***************************************************************************)
EXTENDS FrontendConnection_proofs

(* What will be decoded from a queue; what a sequence of messages holds.    *)
Msgs(queue)     == {Decoded(queue[i]) : i \in {j \in 1 .. Len(queue) : queue[j].type = "message"}}
Elements(msgs)  == {msgs[i] : i \in 1 .. Len(msgs)}

(* The messages of S are of the same context as those of T, and before them. *)
Precede(S, T) == \A m \in S, o \in T : m.from = o.from /\ m.n < o.n

(* In a queue, in a sequence: one context, in the order written.            *)
Rising(queue) ==
  \A i, j \in 1 .. Len(queue) :
    i < j /\ queue[i].type = "message" /\ queue[j].type = "message"
      => Precede({Decoded(queue[i])}, {Decoded(queue[j])})
RisingMsgs(msgs) ==
  \A i, j \in 1 .. Len(msgs) : i < j => Precede({msgs[i]}, {msgs[j]})

(* No INITIAL_CONNECT in a queue; none after its head.                      *)
NoInitial(queue)    == \A i \in 1 .. Len(queue) : queue[i].type # "INITIAL"
NoneAfter(queue) == \A i \in 2 .. Len(queue) : queue[i].type # "INITIAL"

-----------------------------------------------------------------------------
(* Only the last session is up, at either end.                              *)
OneSession ==
  /\ socket # 0 => socket = sessions
  /\ \A s \in alive : s = sessions

(* A session the back end has not bound to a context has yet to ask for     *)
(* one, or is about to hear that there is none.                             *)
Asked ==
  /\ \A s \in Session : s # socket => down[s] = <<>>
  /\ \A s \in listening : /\ up[s] # <<>> /\ Head(up[s]).type \in {"INITIAL", "RECONNECT"}
                          /\ down[s] = <<>>
  /\ \A s \in alive : s = socket /\ s \notin listening /\ bound[s] = 0
       => down[s] # <<>> /\ Head(down[s]).type = "RECONNECT false"

(* What is on its way down, and what waits in the buffer of the context, is *)
(* of that context, in order; and an open channel has handled what comes    *)
(* before it.                                                               *)
Coming  == UNION {Msgs(down[s]) : s \in Session}
Own(S)  == \A m \in S : m.from = connection /\ m.n <= served

DownStream ==
  /\ \A s \in Session : Rising(down[s]) /\ NoneAfter(down[s])
  /\ connection = 0 \/ attached # 0 => socketBuffer = <<>>
  /\ connection # 0 => Own(Coming) /\ Own(Elements(socketBuffer))
  /\ Precede(Coming, Elements(socketBuffer))
  /\ RisingMsgs(delivered)
  /\ channelOpen => /\ \A s \in Session : NoInitial(down[s])
                    /\ Precede(Elements(delivered), Coming)
                    /\ Precede(Elements(delivered), Elements(socketBuffer))
                    /\ connection # 0 => Own(Elements(delivered))

(* What the context has handled and what is on its way to it is of one      *)
(* channel, the one that is open if one is.  Before the channel of a new    *)
(* context opens there is nothing of either.                                *)
Heard == Elements(received) \cup UNION {Msgs(up[s]) : s \in alive}

UpStream ==
  /\ \A m, o \in Heard : m.from = o.from
  /\ channelOpen => \A m \in Heard \cup Elements(writeBuffer) : m.from = currentChannel
  /\ ~channelOpen => writeBuffer = <<>>
  /\ \A s \in listening : Head(up[s]).type = "INITIAL" => Msgs(up[s]) = {} /\ ~channelOpen
  /\ \A s \in Session : ~NoInitial(down[s]) => Heard = {}
  /\ pendingEmits # 0 => socket = 0 /\ ~channelOpen
  /\ channelOpen => currentChannel # 0

Streams == OneSession /\ Asked /\ DownStream /\ UpStream

-----------------------------------------------------------------------------
(* Queues and sequences of messages, when something is put in or taken off. *)

\* Nothing holds nothing.
LEMMA EmptyHolds ==
  /\ Msgs(<<>>) = {} /\ Rising(<<>>) /\ NoInitial(<<>>) /\ NoneAfter(<<>>)
  /\ Elements(<<>>) = {} /\ RisingMsgs(<<>>)
  BY DEF Msgs, Rising, NoInitial, NoneAfter, Elements, RisingMsgs

\* Where an element of a concatenation comes from.
LEMMA ConcatAt ==
  ASSUME NEW S, NEW a \in Seq(S), NEW b \in Seq(S), NEW i \in 1 .. Len(a \o b)
  PROVE  \/ i \in 1 .. Len(a) /\ (a \o b)[i] = a[i]
         \/ i > Len(a) /\ (i - Len(a)) \in 1 .. Len(b) /\ (a \o b)[i] = b[i - Len(a)]
  OBVIOUS

\* The messages of two queues put together.
LEMMA ConcatMsgs ==
  ASSUME NEW a \in Seq(Packet), NEW b \in Seq(Packet)
  PROVE  Msgs(a \o b) = Msgs(a) \cup Msgs(b)
<1> DEFINE c == a \o b
<1>1. ASSUME NEW m \in Msgs(c) PROVE m \in Msgs(a) \cup Msgs(b)
  <2>1. PICK i \in 1 .. Len(c) : c[i].type = "message" /\ m = Decoded(c[i])
    BY DEF Msgs
  <2>2. \/ i \in 1 .. Len(a) /\ c[i] = a[i]
        \/ (i - Len(a)) \in 1 .. Len(b) /\ c[i] = b[i - Len(a)]
    BY ConcatAt
  <2> HIDE DEF c
  <2> QED BY <2>1, <2>2 DEF Msgs
<1>2. ASSUME NEW m \in Msgs(a) PROVE m \in Msgs(c)
  <2>1. PICK i \in 1 .. Len(a) : a[i].type = "message" /\ m = Decoded(a[i])
    BY DEF Msgs
  <2>2. i \in 1 .. Len(c) /\ c[i] = a[i]
    OBVIOUS
  <2> HIDE DEF c
  <2> QED BY <2>1, <2>2 DEF Msgs
<1>3. ASSUME NEW m \in Msgs(b) PROVE m \in Msgs(c)
  <2>1. PICK i \in 1 .. Len(b) : b[i].type = "message" /\ m = Decoded(b[i])
    BY DEF Msgs
  <2>2. Len(a) + i \in 1 .. Len(c) /\ c[Len(a) + i] = b[i]
    OBVIOUS
  <2> HIDE DEF c
  <2> QED BY <2>1, <2>2 DEF Msgs
<1> HIDE DEF c
<1>4. Msgs(c) = Msgs(a) \cup Msgs(b)
  BY <1>1, <1>2, <1>3
<1> QED BY <1>4 DEF c

\* They are in order if those of the first come before those of the second.
LEMMA ConcatRising ==
  ASSUME NEW a \in Seq(Packet), NEW b \in Seq(Packet), Rising(a), Rising(b),
         Precede(Msgs(a), Msgs(b))
  PROVE  Rising(a \o b)
<1> DEFINE c == a \o b
<1> SUFFICES ASSUME NEW i \in 1 .. Len(c), NEW j \in 1 .. Len(c), i < j,
                    c[i].type = "message", c[j].type = "message"
             PROVE  Precede({Decoded(c[i])}, {Decoded(c[j])})
  BY DEF Rising
<1>1. \/ i \in 1 .. Len(a) /\ c[i] = a[i]
      \/ i > Len(a) /\ (i - Len(a)) \in 1 .. Len(b) /\ c[i] = b[i - Len(a)]
  BY ConcatAt
<1>2. \/ j \in 1 .. Len(a) /\ c[j] = a[j]
      \/ j > Len(a) /\ (j - Len(a)) \in 1 .. Len(b) /\ c[j] = b[j - Len(a)]
  BY ConcatAt
<1>3. Len(a) \in Nat
  OBVIOUS
<1> HIDE DEF c
<1>4. CASE j \in 1 .. Len(a) /\ c[j] = a[j]
  <2>1. i \in 1 .. Len(a) /\ c[i] = a[i]
    BY <1>1, <1>3, <1>4
  <2> QED BY <1>4, <2>1 DEF Rising
<1>5. CASE i > Len(a) /\ (i - Len(a)) \in 1 .. Len(b) /\ c[i] = b[i - Len(a)]
  <2>1. (j - Len(a)) \in 1 .. Len(b) /\ c[j] = b[j - Len(a)] /\ i - Len(a) < j - Len(a)
    BY <1>2, <1>3, <1>5
  <2> QED BY <1>5, <2>1 DEF Rising
<1>6. CASE /\ i \in 1 .. Len(a) /\ c[i] = a[i]
           /\ (j - Len(a)) \in 1 .. Len(b) /\ c[j] = b[j - Len(a)]
  <2>1. Decoded(c[i]) \in Msgs(a)
    BY <1>6 DEF Msgs
  <2>2. Decoded(c[j]) \in Msgs(b)
    BY <1>6 DEF Msgs
  <2> QED BY <2>1, <2>2 DEF Precede
<1> QED BY <1>1, <1>2, <1>4, <1>5, <1>6

\* An INITIAL_CONNECT is there only where it was.
LEMMA ConcatInitial ==
  ASSUME NEW a \in Seq(Packet), NEW b \in Seq(Packet), NoInitial(b)
  PROVE  /\ NoneAfter(a) => NoneAfter(a \o b)
         /\ NoInitial(a) => NoInitial(a \o b)
<1> DEFINE c == a \o b
<1>1. ASSUME NEW i \in 1 .. Len(c)
      PROVE  (i \in 1 .. Len(a) /\ c[i] = a[i]) \/ c[i].type # "INITIAL"
  <2>1. \/ i \in 1 .. Len(a) /\ c[i] = a[i]
        \/ (i - Len(a)) \in 1 .. Len(b) /\ c[i] = b[i - Len(a)]
    BY ConcatAt
  <2> HIDE DEF c
  <2> QED BY <2>1 DEF NoInitial
<1>2. Len(c) \in Nat /\ Len(a) \in Nat
  OBVIOUS
<1> HIDE DEF c
<1>3. NoInitial(a) => NoInitial(c)
  BY <1>1 DEF NoInitial
<1>4. ASSUME NoneAfter(a), NEW i \in 2 .. Len(c) PROVE c[i].type # "INITIAL"
  <2>1. i \in 1 .. Len(c) /\ (i \in 1 .. Len(a) => i \in 2 .. Len(a))
    BY <1>2
  <2> QED BY <1>1, <1>4, <2>1 DEF NoneAfter
<1>5. NoneAfter(a) => NoneAfter(c)
  BY <1>4 DEF NoneAfter
<1> QED BY <1>3, <1>5 DEF c

\* What is left when the head is taken off.
LEMMA TailHolds ==
  ASSUME NEW q \in Seq(Packet), q # <<>>
  PROVE  /\ Msgs(Tail(q)) \subseteq Msgs(q)
         /\ Rising(q) => Rising(Tail(q))
         /\ NoneAfter(q) => NoInitial(Tail(q)) /\ NoneAfter(Tail(q))
         /\ NoInitial(q) => NoInitial(Tail(q)) /\ Head(q).type # "INITIAL"
<1> DEFINE r == Tail(q)
<1>1. /\ Len(q) \in Nat /\ Len(r) = Len(q) - 1 /\ q[1] = Head(q) /\ 1 \in 1 .. Len(q)
      /\ \A i \in 1 .. Len(r) : i + 1 \in 1 .. Len(q) /\ i + 1 \in 2 .. Len(q) /\ r[i] = q[i + 1]
  OBVIOUS
<1> HIDE DEF r
<1>2. Msgs(r) \subseteq Msgs(q)
  BY <1>1 DEF Msgs
<1>3. ASSUME Rising(q) PROVE Rising(r)
  <2> SUFFICES ASSUME NEW i \in 1 .. Len(r), NEW j \in 1 .. Len(r), i < j,
                      r[i].type = "message", r[j].type = "message"
               PROVE  Precede({Decoded(r[i])}, {Decoded(r[j])})
    BY DEF Rising
  <2>1. /\ i + 1 \in 1 .. Len(q) /\ j + 1 \in 1 .. Len(q) /\ i + 1 < j + 1
        /\ r[i] = q[i + 1] /\ r[j] = q[j + 1]
    BY <1>1
  <2> QED BY <1>3, <2>1 DEF Rising
<1>4. NoneAfter(q) => NoInitial(r)
  BY <1>1 DEF NoneAfter, NoInitial
<1>5. NoInitial(q) => NoInitial(r) /\ Head(q).type # "INITIAL"
  BY <1>1 DEF NoInitial
<1>6. NoInitial(r) => NoneAfter(r)
  BY <1>1 DEF NoneAfter, NoInitial
<1> QED BY <1>2, <1>3, <1>4, <1>5, <1>6 DEF r

\* The message at the head comes before the rest.
LEMMA HeadMessage ==
  ASSUME NEW q \in Seq(Packet), q # <<>>, Head(q).type = "message"
  PROVE  /\ Decoded(Head(q)) \in Msgs(q)
         /\ Rising(q) => Precede({Decoded(Head(q))}, Msgs(Tail(q)))
<1> DEFINE r == Tail(q)
<1>1. /\ Len(q) \in Nat /\ Len(r) = Len(q) - 1 /\ q[1] = Head(q) /\ 1 \in 1 .. Len(q)
      /\ \A i \in 1 .. Len(r) : i + 1 \in 1 .. Len(q) /\ 1 < i + 1 /\ r[i] = q[i + 1]
  OBVIOUS
<1> HIDE DEF r
<1>2. Decoded(Head(q)) \in Msgs(q)
  BY <1>1 DEF Msgs
<1>3. ASSUME Rising(q), NEW m \in Msgs(r) PROVE Precede({Decoded(Head(q))}, {m})
  <2>1. PICK i \in 1 .. Len(r) : r[i].type = "message" /\ m = Decoded(r[i])
    BY DEF Msgs
  <2> QED BY <1>1, <1>3, <2>1 DEF Rising
<1>4. Rising(q) => Precede({Decoded(Head(q))}, Msgs(r))
  BY <1>3 DEF Precede
<1> QED BY <1>2, <1>4 DEF r

\* A handshake packet carries no message.
LEMMA SignalHolds ==
  ASSUME NEW type \in Control, NEW q, q = <<Signal(type)>>
  PROVE  /\ q \in Seq(Packet) /\ Msgs(q) = {} /\ Rising(q) /\ NoneAfter(q)
         /\ type # "INITIAL" => NoInitial(q)
<1>1. q \in Seq(Packet)
  BY SignalType
<1>2. Len(q) = 1 /\ q[1] = Signal(type) /\ q[1].type = type /\ type # "message"
  BY DEF Signal, Control
<1>3. \A i \in 1 .. Len(q) : i = 1
  BY <1>2
<1>4. Msgs(q) = {} /\ Rising(q)
  BY <1>2, <1>3 DEF Msgs, Rising
<1>5. NoneAfter(q) /\ (type # "INITIAL" => NoInitial(q))
  BY <1>2, <1>3 DEF NoneAfter, NoInitial
<1> QED BY <1>1, <1>4, <1>5

\* A data packet yields the first message in it.
LEMMA DataHolds ==
  ASSUME NEW b \in Seq(Message), b # <<>>, NEW q, q = <<Data(b)>>
  PROVE  /\ q \in Seq(Packet) /\ Msgs(q) = {Head(b)} /\ Rising(q) /\ NoInitial(q)
<1>1. q \in Seq(Packet)
  BY DataType
<1>2. Len(q) = 1 /\ q[1] = Data(b) /\ q[1].type = "message" /\ Decoded(q[1]) = Head(b)
  BY DEF Data, Decoded
<1>3. \A i \in 1 .. Len(q) : i = 1
  BY <1>2
<1>4. Msgs(q) = {Head(b)}
  BY <1>2, <1>3 DEF Msgs
<1>5. Rising(q) /\ NoInitial(q)
  BY <1>2, <1>3 DEF Rising, NoInitial
<1> QED BY <1>1, <1>4, <1>5

\* That is all of it when there is but one.
LEMMA OneDatum ==
  ASSUME NEW m \in Message, NEW q, q = <<Data(<<m>>)>>
  PROVE  q \in Seq(Packet) /\ Msgs(q) = {m} /\ Rising(q) /\ NoInitial(q)
<1>1. <<m>> \in Seq(Message) /\ <<m>> # <<>> /\ Head(<<m>>) = m
  OBVIOUS
<1> QED BY <1>1, DataHolds

\* A flushed buffer yields a message of the buffer at most.
LEMMA FlushedHolds ==
  ASSUME NEW b \in Seq(Message), NEW q, q = Flushed(b)
  PROVE  q \in Seq(Packet) /\ Msgs(q) \subseteq Elements(b) /\ Rising(q) /\ NoInitial(q)
<1>1. CASE b = <<>>
  <2>1. q = <<>>
    BY <1>1 DEF Flushed
  <2> QED BY <2>1, EmptyHolds
<1>2. CASE b # <<>>
  <2>1. q = <<Data(b)>>
    BY <1>2 DEF Flushed
  <2>2. Head(b) \in Elements(b)
    <3>1. 1 \in 1 .. Len(b) /\ Head(b) = b[1]
      BY <1>2
    <3> QED BY <3>1 DEF Elements
  <2> QED BY <1>2, <2>1, <2>2, DataHolds
<1> QED BY <1>1, <1>2

\* What is appended comes after the rest.
LEMMA AppendHolds ==
  ASSUME NEW b \in Seq(Message), NEW m \in Message
  PROVE  /\ Elements(Append(b, m)) = Elements(b) \cup {m}
         /\ RisingMsgs(b) /\ Precede(Elements(b), {m}) => RisingMsgs(Append(b, m))
<1> DEFINE c == Append(b, m)
<1>1. /\ Len(b) \in Nat /\ Len(c) = Len(b) + 1 /\ c[Len(b) + 1] = m
      /\ \A i \in 1 .. Len(b) : c[i] = b[i] /\ i \in 1 .. Len(c)
      /\ Len(b) + 1 \in 1 .. Len(c)
      /\ \A i \in 1 .. Len(c) : i \in 1 .. Len(b) \/ i = Len(b) + 1
  OBVIOUS
<1> HIDE DEF c
<1>2. Elements(c) = Elements(b) \cup {m}
  BY <1>1 DEF Elements
<1>3. ASSUME RisingMsgs(b), Precede(Elements(b), {m}),
             NEW i \in 1 .. Len(c), NEW j \in 1 .. Len(c), i < j
      PROVE  Precede({c[i]}, {c[j]})
  <2>1. i \in 1 .. Len(b) /\ c[i] = b[i] /\ b[i] \in Elements(b)
    <3>1. i \in 1 .. Len(b)
      BY <1>1, <1>3
    <3> QED BY <1>1, <3>1 DEF Elements
  <2>2. CASE j \in 1 .. Len(b)
    <3>1. c[j] = b[j]
      BY <1>1, <2>2
    <3> QED BY <1>3, <2>1, <2>2, <3>1 DEF RisingMsgs
  <2>3. CASE j = Len(b) + 1
    <3>1. c[j] = m
      BY <1>1, <2>3
    <3> QED BY <1>3, <2>1, <3>1 DEF Precede
  <2> QED BY <1>1, <2>2, <2>3
<1>4. RisingMsgs(b) /\ Precede(Elements(b), {m}) => RisingMsgs(c)
  BY <1>3 DEF RisingMsgs
<1> QED BY <1>2, <1>4 DEF c

\* A buffer takes one message more at most.
LEMMA BufferedHolds ==
  ASSUME NEW b \in Seq(Message), NEW m \in Message
  PROVE  Elements(Buffered(b, m)) \subseteq Elements(b) \cup {m}
  BY AppendHolds DEF Buffered

-----------------------------------------------------------------------------
(* What the operators on queues do to each queue.                           *)

\* Push appends to the one queue.
LEMMA PushAt ==
  ASSUME NEW q \in Queues, NEW s \in Session, NEW p \in Seq(Packet), NEW t \in Session
  PROVE  Push(q, s, p)[t] = IF t = s THEN q[t] \o p ELSE q[t]
  BY DEF Push, Queues

\* Pop takes the head of the one queue.
LEMMA PopAt ==
  ASSUME NEW q \in Queues, NEW s \in Session, NEW t \in Session
  PROVE  Pop(q, s)[t] = IF t = s THEN Tail(q[t]) ELSE q[t]
  BY DEF Pop, Queues

\* Clear empties the one queue.
LEMMA ClearAt ==
  ASSUME NEW q \in Queues, NEW s, NEW t \in Session
  PROVE  Clear(q, s)[t] = IF t = s THEN <<>> ELSE q[t]
  BY DEF Clear, Queues

\* Emit appends to the queue of a session the front end is on.
LEMMA EmitAt ==
  ASSUME NEW q \in Queues, NEW s \in Session, NEW p \in Seq(Packet), NEW t \in Session
  PROVE  Emit(q, s, p)[t] = IF t = s /\ s = socket THEN q[t] \o p ELSE q[t]
  BY PushAt DEF Emit

\* What is put at the end of a queue leaves its head.
LEMMA HeadStays ==
  ASSUME NEW q \in Seq(Packet), NEW p \in Seq(Packet), q # <<>>
  PROVE  q \o p # <<>> /\ Head(q \o p) = Head(q)
  OBVIOUS

\* Queues are sequences of packets; a session that is up is a session.
LEMMA QueueTypes ==
  ASSUME TypeOK
  PROVE  /\ up \in Queues /\ down \in Queues
         /\ \A s \in Session : up[s] \in Seq(Packet) /\ down[s] \in Seq(Packet) /\ s # 0
         /\ socket # 0 => socket \in Session
         /\ attached # 0 => attached \in Session
  BY BoundsAssumption DEF TypeOK, Queues, Session

-----------------------------------------------------------------------------
(* Only the last session is up.                                             *)

\* A session opens only when the one before is over, at both ends.
LEMMA OneSessionNext ==
  ASSUME ~StaleDisconnects, TypeOK, OneSession, Next
  PROVE  OneSession'
<1> USE DEF OneSession
<1>1. CASE Connect
  <2>1. socket' = sessions + 1 /\ sessions' = sessions + 1 /\ alive' = {sessions + 1}
    BY <1>1 DEF Connect
  <2> QED BY <2>1
<1>2. CASE UNCHANGED sessions /\ socket' \in {socket, 0} /\ alive' \subseteq alive
  BY <1>2
<1>3. BackendNext => UNCHANGED sessions /\ socket' \in {socket, 0} /\ alive' \subseteq alive
  BY DEF BackendNext, Receive, NoticeDisconnect, TimerFires, Serve, Restart, frontend, network
<1>4. FrontendNext /\ ~Connect
        => UNCHANGED sessions /\ socket' \in {socket, 0} /\ alive' \subseteq alive
  BY DEF FrontendNext, Disconnect, ReloadPage, ReceiveInitialConnect, ReceiveReconnected,
         ReceiveReconnectRefused, ReceiveMessage, Send, MarkForClose, FreshPage,
         GiveUpChannel, frontend
<1> QED BY <1>1, <1>2, <1>3, <1>4 DEF Next

-----------------------------------------------------------------------------
(* A session the back end has not bound to a context is asked about.        *)

\* The front end empties the queue of the session it leaves.
LEMMA LeaveAsked ==
  ASSUME TypeOK, Asked, socket # 0,
         down' = Clear(down, socket), socket' = 0,
         UNCHANGED <<up, alive, listening, bound>>
  PROVE  Asked'
<1>1. \A t \in Session : down'[t] = <<>>
  BY QueueTypes, ClearAt DEF Asked
<1>2. \A t \in alive : t # 0
  BY DEF TypeOK, Session
<1>3. listening \subseteq Session
  BY DEF TypeOK
<1> QED BY <1>1, <1>2, <1>3 DEF Asked

\* It takes an answer off a queue, and may send on that session.
LEMMA TakeAsked ==
  ASSUME TypeOK, TypeOK', Asked, socket # 0, down[socket] # <<>>,
         Head(down[socket]).type # "RECONNECT false",
         down' = Pop(down, socket),
         \A t \in Session : t # socket => up'[t] = up[t],
         UNCHANGED <<socket, alive, listening, bound>>
  PROVE  Asked'
<1>1. \A t \in Session : t # socket => down'[t] = down[t]
  BY QueueTypes, PopAt
<1>2. socket \notin listening /\ listening \subseteq Session
  BY DEF Asked, TypeOK
<1>3. \A t \in alive : ~(t = socket /\ t \notin listening /\ bound[t] = 0)
  BY DEF Asked
<1> QED BY <1>1, <1>2, <1>3 DEF Asked

\* It sends on the session.
LEMMA SayAsked ==
  ASSUME TypeOK, Asked, UNCHANGED <<socket, down, alive, listening, bound>>,
         \A t \in Session : up[t] # <<>> => up'[t] # <<>> /\ Head(up'[t]) = Head(up[t])
  PROVE  Asked'
<1>1. listening \subseteq Session
  BY DEF TypeOK
<1> QED BY <1>1 DEF Asked

\* The front end keeps to it.
LEMMA FrontendAsked ==
  ASSUME ~StaleDisconnects, TypeOK, TypeOK', Matched, Asked, FrontendNext
  PROVE  Asked'
<1>q. /\ up \in Queues /\ down \in Queues /\ (socket # 0 => socket \in Session)
      /\ \A t \in Session : up[t] \in Seq(Packet)
  BY QueueTypes
<1>b. UNCHANGED backend => UNCHANGED <<listening, bound>>
  BY DEF backend
<1>1. CASE Connect
  <2> DEFINE s == sessions + 1
             inquiry == IF currentChannel # 0 THEN "RECONNECT" ELSE "INITIAL"
             emits == Times(pendingEmits, Signal("INITIAL"))
             packets == emits \o <<Signal(inquiry)>>
  <2>1. s \in Session
    BY <1>1, BoundsAssumption DEF Connect, Session, TypeOK
  <2>2. listening = {} /\ alive = {}
    BY <1>1 DEF Connect, Matched, ContextsMatched
  <2>3. /\ up' = [up EXCEPT ![s] = packets] /\ socket' = s /\ socket = 0
        /\ alive' = {s} /\ listening' = {s} /\ UNCHANGED <<down, bound>>
    BY <1>1, <2>2 DEF Connect
  <2>4. packets # <<>> /\ Head(packets).type \in {"INITIAL", "RECONNECT"}
    <3>1. emits \in Seq({Signal("INITIAL")}) /\ <<Signal(inquiry)>> \in Seq({Signal(inquiry)})
      BY DEF Times, TypeOK
    <3>2. packets \in Seq({Signal("INITIAL"), Signal("RECONNECT")}) /\ packets # <<>>
      BY <3>1
    <3>3. \A p \in {Signal("INITIAL"), Signal("RECONNECT")} : p.type \in {"INITIAL", "RECONNECT"}
      BY DEF Signal
    <3>4. Head(packets) \in {Signal("INITIAL"), Signal("RECONNECT")}
      BY <3>2
    <3> QED BY <3>2, <3>3, <3>4
  <2> HIDE DEF packets
  <2>5. up'[s] = packets
    BY <1>q, <2>1, <2>3 DEF Queues
  <2>6. \A t \in Session : t # 0 /\ down[t] = <<>>
    <3>1. \A t \in Session : t # 0
      BY QueueTypes
    <3> QED BY <2>3, <3>1 DEF Asked
  <2> QED BY <2>1, <2>3, <2>4, <2>5, <2>6 DEF Asked
<1>2. CASE Disconnect
  BY <1>2, <1>b, LeaveAsked DEF Disconnect
<1>3. CASE ReloadPage
  BY <1>3, <1>b, LeaveAsked DEF ReloadPage, FreshPage
<1>4. CASE ReceiveReconnectRefused
  BY <1>4, <1>b, LeaveAsked DEF ReceiveReconnectRefused, FreshPage, GiveUpChannel
<1>5. CASE ReceiveInitialConnect
  BY <1>5, <1>b, TakeAsked DEF ReceiveInitialConnect, frontend
<1>6. CASE ReceiveMessage
  BY <1>6, <1>b, TakeAsked DEF ReceiveMessage, frontend
<1>7. CASE ReceiveReconnected
  <2>1. \A t \in Session : t # socket => up'[t] = up[t]
    <3>1. Flushed(writeBuffer) \in Seq(Packet) /\ socket \in Session
      BY <1>7, <1>q, FlushedType DEF TypeOK, ReceiveReconnected
    <3>2. UNCHANGED up \/ up' = Push(up, socket, Flushed(writeBuffer))
      BY <1>7 DEF ReceiveReconnected, FlushWriteBuffer
    <3> QED BY <1>q, <3>1, <3>2, PushAt
  <2> QED BY <1>7, <1>b, <2>1, TakeAsked DEF ReceiveReconnected
<1>8. ASSUME NEW m \in Message, Commit(m), UNCHANGED <<socket, down, alive, backend>>
      PROVE  Asked'
  <2>1. <<Data(<<m>>)>> \in Seq(Packet)
    BY OneDatum
  <2>2. ASSUME NEW t \in Session, up[t] # <<>>
        PROVE  up'[t] # <<>> /\ Head(up'[t]) = Head(up[t])
    <3>1. up'[t] = up[t] \/ up'[t] = up[t] \o <<Data(<<m>>)>>
      <4>1. UNCHANGED up \/ (socket # 0 /\ up' = Push(up, socket, <<Data(<<m>>)>>))
        BY <1>8 DEF Commit
      <4>2. CASE socket # 0 /\ up' = Push(up, socket, <<Data(<<m>>)>>)
        <5>1. socket \in Session
          BY <1>q, <4>2
        <5>2. up'[t] = IF t = socket THEN up[t] \o <<Data(<<m>>)>> ELSE up[t]
          BY <1>q, <2>1, <4>2, <5>1, PushAt
        <5> QED BY <5>2
      <4> QED BY <4>1, <4>2
    <3> QED BY <1>q, <2>1, <2>2, <3>1, HeadStays
  <2> QED BY <1>8, <1>b, <2>2, SayAsked
<1>9. CASE Send
  <2>1. [from |-> currentChannel, n |-> sent + 1] \in Message
    BY DEF Message, TypeOK
  <2> QED BY <1>8, <1>9, <2>1 DEF Send
<1>10. CASE MarkForClose
  <2>1. [from |-> currentChannel, n |-> 0] \in Message
    BY DEF Message, TypeOK
  <2> QED BY <1>8, <1>10, <2>1 DEF MarkForClose
<1> QED
  BY <1>1, <1>2, <1>3, <1>4, <1>5, <1>6, <1>7, <1>9, <1>10 DEF FrontendNext

\* A session that has asked is bound to a context, or gets its answer.
LEMMA ReceiveAsked ==
  ASSUME TypeOK, Matched, Asked, NEW s \in Session, Receive(s)
  PROVE  Asked'
<1>1. /\ s \in alive /\ up[s] # <<>> /\ UNCHANGED <<socket, alive>>
      /\ \A t \in alive : t = s
      /\ \A t \in listening : t = s
  BY DEF Receive, Matched, ContextsMatched, frontend
<1>q. down \in Queues /\ down[s] \in Seq(Packet) /\ alive \subseteq Session
  BY QueueTypes DEF TypeOK
<1>2. ASSUME NEW p \in Seq(Packet), down' = Emit(down, s, p)
      PROVE  \A t \in Session : t # socket => down'[t] = down[t]
  BY <1>2, <1>q, EmitAt
<1>3. CASE HandleInitialConnect(s)
  <2>1. bound'[s] # 0 /\ s \notin listening'
    BY <1>3, QueueTypes DEF HandleInitialConnect, TypeOK
  <2>2. \A t \in Session : t # socket => down'[t] = down[t]
    BY <1>2, <1>3, SignalType DEF HandleInitialConnect, Control
  <2>3. listening' \subseteq listening
    BY <1>3 DEF HandleInitialConnect
  <2> QED BY <1>1, <2>1, <2>2, <2>3 DEF Asked
<1>4. CASE HandleReconnect(s) /\ connection # 0
  <2>1. bound'[s] # 0 /\ s \notin listening' /\ listening' \subseteq listening
    BY <1>4 DEF HandleReconnect, Reattach, TypeOK
  <2>2. <<Signal("RECONNECT true")>> \o Flushed(socketBuffer) \in Seq(Packet)
    <3>1. <<Signal("RECONNECT true")>> \in Seq(Packet) /\ Flushed(socketBuffer) \in Seq(Packet)
      BY SignalType, FlushedType DEF Control, TypeOK
    <3> QED BY <3>1, ConcatType
  <2>3. \A t \in Session : t # socket => down'[t] = down[t]
    BY <1>2, <1>4, <2>2 DEF HandleReconnect, Reattach
  <2> QED BY <1>1, <2>1, <2>3 DEF Asked
<1>5. CASE s \in listening /\ HandleReconnect(s) /\ connection = 0
  <2>1. s \notin listening' /\ listening' \subseteq listening /\ UNCHANGED bound
        /\ down' = Emit(down, s, <<Signal("RECONNECT false")>>)
    BY <1>5 DEF HandleReconnect, RefuseReconnect
  <2>2. <<Signal("RECONNECT false")>> \in Seq(Packet)
    BY SignalType DEF Control
  <2>3. \A t \in Session : t # socket => down'[t] = down[t]
    BY <1>2, <2>1, <2>2
  <2>4. s = socket => down'[s] = <<Signal("RECONNECT false")>>
    <3>1. down[s] = <<>>
      BY <1>5 DEF Asked
    <3>2. s = socket => down'[s] = down[s] \o <<Signal("RECONNECT false")>>
      BY <1>q, <2>1, <2>2, EmitAt
    <3>3. \A p \in Seq(Packet) : <<>> \o p = p
      OBVIOUS
    <3> QED BY <2>2, <3>1, <3>2, <3>3
  <2>5. s = socket => down'[s] # <<>> /\ Head(down'[s]).type = "RECONNECT false"
    <3>1. \A x : <<x>> # <<>> /\ Head(<<x>>) = x
      OBVIOUS
    <3>2. Signal("RECONNECT false").type = "RECONNECT false"
      BY DEF Signal
    <3> QED BY <2>4, <3>1, <3>2
  <2> QED BY <1>1, <2>1, <2>3, <2>5 DEF Asked
<1>6. CASE s \notin listening /\ UNCHANGED <<down, listening, bound>>
  BY <1>1, <1>6 DEF Asked
<1>7. s \in listening => Head(up[s]).type # "message"
  BY DEF Asked
<1> QED
  BY <1>3, <1>4, <1>5, <1>6, <1>7 DEF Receive, HandleMessage, backend

\* The back end keeps to it.
LEMMA BackendAsked ==
  ASSUME TypeOK, Matched, Asked, BackendNext
  PROVE  Asked'
<1>1. ASSUME NEW s \in Session, NoticeDisconnect(s) PROVE Asked'
  <2>1. alive' = {} /\ listening' = {} /\ UNCHANGED <<socket, down>>
    BY <1>1 DEF NoticeDisconnect, Matched, ContextsMatched, frontend
  <2> QED BY <2>1 DEF Asked
<1>2. ASSUME NEW s \in Session, TimerFires(s) PROVE Asked'
  BY <1>2 DEF Asked, TimerFires, frontend, network
<1>3. CASE Restart
  <2>1. alive' = {} /\ listening' = {} /\ UNCHANGED <<socket, down>>
    BY <1>3 DEF Restart, frontend
  <2> QED BY <2>1 DEF Asked
<1>4. CASE Serve
  <2>1. UNCHANGED <<socket, up, alive, listening, bound>>
    BY <1>4 DEF Serve, frontend
  <2>2. CASE attached = 0
    <3>1. UNCHANGED down
      BY <1>4, <2>2 DEF Serve
    <3> QED BY <2>1, <3>1 DEF Asked
  <2>3. CASE attached # 0
    <3> DEFINE m == [from |-> connection, n |-> served + 1]
    <3>1. m \in Message
      BY DEF Message, TypeOK
    <3>2. down' = Emit(down, attached, <<Data(<<m>>)>>)
      BY <1>4, <2>3 DEF Serve
    <3>3. down \in Queues /\ attached \in Session
      BY <2>3, QueueTypes
    <3> HIDE DEF m
    <3>4. \A t \in Session : t # socket \/ t # attached => down'[t] = down[t]
      BY <3>1, <3>2, <3>3, OneDatum, EmitAt
    <3>5. attached \notin listening /\ bound[attached] # 0
      BY <2>3 DEF Matched, ContextsMatched
    <3>6. listening \subseteq Session /\ alive \subseteq Session
      BY DEF TypeOK
    <3> QED BY <2>1, <3>4, <3>5, <3>6 DEF Asked
  <2> QED BY <2>2, <2>3
<1> QED BY <1>1, <1>2, <1>3, <1>4, ReceiveAsked DEF BackendNext

\* So the front end takes its channel for connected only when it is.
LEMMA SettledAttached ==
  ASSUME TypeOK, Matched, Asked, Settled
  PROVE  connection # 0 /\ attached = socket
<1>1. socket \in alive /\ socket \in Session
  BY QueueTypes DEF Settled
<1>2. \A q \in {up[socket], down[socket]} : \A i \in 1 .. Len(q) : q[i].type = "message"
  BY DEF Settled, Handshaking
<1>3. ASSUME NEW q \in {up[socket], down[socket]}, q # <<>>
      PROVE  Head(q).type = "message"
  <2>1. q \in Seq(Packet)
    BY <1>1, QueueTypes
  <2>2. 1 \in 1 .. Len(q) /\ Head(q) = q[1]
    BY <1>3, <2>1
  <2> QED BY <1>2, <2>2
<1>4. socket \notin listening
  BY <1>3 DEF Asked
<1>5. bound[socket] # 0
  BY <1>1, <1>3, <1>4 DEF Asked
<1> QED BY <1>1, <1>5 DEF Matched, ContextsMatched

-----------------------------------------------------------------------------
(* What is on its way down.                                                 *)

\* What is decoded from a queue are messages.
LEMMA MsgsType ==
  ASSUME NEW q \in Seq(Packet)
  PROVE  Msgs(q) \subseteq Message
<1>1. ASSUME NEW i \in 1 .. Len(q), q[i].type = "message" PROVE Decoded(q[i]) \in Message
  <2>1. q[i] \in Packet
    OBVIOUS
  <2> QED BY <1>1, <2>1, DecodedType
<1> QED BY <1>1 DEF Msgs

\* What is in a sequence of messages are messages.
LEMMA ElementsType ==
  ASSUME NEW b \in Seq(Message)
  PROVE  Elements(b) \subseteq Message
  BY DEF Elements

\* What is on its way down are messages.
LEMMA ComingType == TypeOK => Coming \subseteq Message
<1> SUFFICES ASSUME TypeOK, NEW s \in Session PROVE Msgs(down[s]) \subseteq Message
  BY DEF Coming
<1> QED BY QueueTypes, MsgsType

(* The queues of r hold no more than those of q.                            *)
Fainter(q, r) ==
  \A s \in Session : /\ Msgs(r[s]) \subseteq Msgs(q[s])
                     /\ Rising(q[s]) => Rising(r[s])
                     /\ NoneAfter(q[s]) => NoneAfter(r[s])
                     /\ NoInitial(q[s]) => NoInitial(r[s])

\* Queues that stay hold no more than before.
LEMMA SameFainter == \A q : Fainter(q, q)
  BY DEF Fainter

\* Nor do queues one of which is emptied.
LEMMA ClearFainter ==
  ASSUME NEW q \in Queues, NEW s
  PROVE  Fainter(q, Clear(q, s))
<1> SUFFICES ASSUME NEW t \in Session
             PROVE  /\ Msgs(Clear(q, s)[t]) \subseteq Msgs(q[t])
                    /\ Rising(q[t]) => Rising(Clear(q, s)[t])
                    /\ NoneAfter(q[t]) => NoneAfter(Clear(q, s)[t])
                    /\ NoInitial(q[t]) => NoInitial(Clear(q, s)[t])
  BY DEF Fainter
<1>1. Clear(q, s)[t] = q[t] \/ Clear(q, s)[t] = <<>>
  BY ClearAt
<1> QED BY <1>1, EmptyHolds

\* Nor do queues one of which loses its head.
LEMMA PopFainter ==
  ASSUME NEW q \in Queues, NEW s \in Session, q[s] # <<>>
  PROVE  Fainter(q, Pop(q, s))
<1> SUFFICES ASSUME NEW t \in Session
             PROVE  /\ Msgs(Pop(q, s)[t]) \subseteq Msgs(q[t])
                    /\ Rising(q[t]) => Rising(Pop(q, s)[t])
                    /\ NoneAfter(q[t]) => NoneAfter(Pop(q, s)[t])
                    /\ NoInitial(q[t]) => NoInitial(Pop(q, s)[t])
  BY DEF Fainter
<1>1. Pop(q, s)[t] = q[t] \/ (t = s /\ Pop(q, s)[t] = Tail(q[t]))
  BY PopAt
<1>2. q[t] \in Seq(Packet)
  BY DEF Queues
<1> QED BY <1>1, <1>2, TailHolds

\* An answer that carries no message leaves an empty queue as silent.
LEMMA AnswerFainter ==
  ASSUME NEW q \in Queues, NEW s \in Session, NEW p \in Seq(Packet), q[s] = <<>>,
         Msgs(p) = {}, Rising(p), NoneAfter(p), NoInitial(p)
  PROVE  Fainter(q, Emit(q, s, p))
<1> SUFFICES ASSUME NEW t \in Session
             PROVE  /\ Msgs(Emit(q, s, p)[t]) \subseteq Msgs(q[t])
                    /\ Rising(q[t]) => Rising(Emit(q, s, p)[t])
                    /\ NoneAfter(q[t]) => NoneAfter(Emit(q, s, p)[t])
                    /\ NoInitial(q[t]) => NoInitial(Emit(q, s, p)[t])
  BY DEF Fainter
<1>1. \A r \in Seq(Packet) : <<>> \o r = r
  OBVIOUS
<1>2. Emit(q, s, p)[t] = q[t] \/ Emit(q, s, p)[t] = p
  <2>1. Emit(q, s, p)[t] = IF t = s /\ s = socket THEN q[t] \o p ELSE q[t]
    BY EmitAt
  <2> QED BY <1>1, <2>1
<1> QED BY <1>2

\* A step after which no more is on its way, and the context and the channel
\* are as they were or gone, keeps to it.
LEMMA DownLess ==
  ASSUME DownStream, Fainter(down, down'),
         \/ /\ UNCHANGED <<connection, served, socketBuffer>>
            /\ attached' \in {attached, 0}
         \/ connection' = 0 /\ socketBuffer' = <<>>,
         \/ delivered' = delivered /\ (channelOpen' => channelOpen)
         \/ delivered' = <<>> /\ ~channelOpen'
  PROVE  DownStream'
<1>1. Coming' \subseteq Coming
  BY DEF Coming, Fainter
<1>2. Elements(socketBuffer') \subseteq Elements(socketBuffer)
  BY EmptyHolds
<1>3. \A s \in Session : Rising(down'[s]) /\ NoneAfter(down'[s])
  BY DEF Fainter, DownStream
<1>4. connection' = 0 \/ attached' # 0 => socketBuffer' = <<>>
  BY DEF DownStream
<1>5. connection' # 0 => Own(Coming)' /\ Own(Elements(socketBuffer))'
  BY <1>1, <1>2 DEF DownStream, Own
<1>6. Precede(Coming', Elements(socketBuffer'))
  BY <1>1, <1>2 DEF DownStream, Precede
<1>7. RisingMsgs(delivered')
  BY EmptyHolds DEF DownStream
<1>8. channelOpen' => channelOpen /\ delivered' = delivered
  OBVIOUS
<1>9. channelOpen' => \A s \in Session : NoInitial(down'[s])
  BY <1>8 DEF DownStream, Fainter
<1>10. channelOpen' => /\ Precede(Elements(delivered'), Coming')
                       /\ Precede(Elements(delivered'), Elements(socketBuffer'))
  BY <1>1, <1>2, <1>8 DEF DownStream, Precede
<1>11. channelOpen' /\ connection' # 0 => Own(Elements(delivered))'
  BY <1>8 DEF DownStream, Own
<1> QED BY <1>3, <1>4, <1>5, <1>6, <1>7, <1>9, <1>10, <1>11 DEF DownStream

\* All there is on its way down is in the queue of the session that is up.
LEMMA OnlySocketComing ==
  ASSUME TypeOK, Asked
  PROVE  /\ \A s \in Session : down[s] = <<>> \/ (s = socket /\ s # 0)
         /\ (socket = 0 \/ down[socket] = <<>>) => Coming = {}
<1>1. \A s \in Session : down[s] = <<>> \/ (s = socket /\ s # 0)
  BY QueueTypes DEF Asked
<1>2. ASSUME socket = 0 \/ down[socket] = <<>> PROVE Coming = {}
  <2>1. \A s \in Session : down[s] = <<>>
    BY <1>1, <1>2
  <2> QED BY <2>1, EmptyHolds DEF Coming
<1> QED BY <1>1, <1>2

\* When a session asks for its context, nothing is on its way down.
LEMMA ListeningQuiet ==
  ASSUME TypeOK, Matched, OneSession, Asked, NEW s \in listening
  PROVE  /\ s \in Session /\ s \in alive /\ (socket = 0 \/ socket = s)
         /\ Coming = {} /\ \A t \in Session : down[t] = <<>>
<1>1. s \in alive /\ s \in Session /\ (socket = 0 \/ socket = s) /\ down[s] = <<>>
  BY DEF Matched, ContextsMatched, OneSession, Asked, TypeOK
<1> QED BY <1>1, OnlySocketComing

\* A channel that opens has handled nothing, and nothing else will open it.
LEMMA OpenDown ==
  ASSUME TypeOK, Asked, DownStream, socket # 0, down[socket] # <<>>,
         down' = Pop(down, socket), UNCHANGED context, delivered' = <<>>
  PROVE  DownStream'
<1>1. down \in Queues /\ socket \in Session
  BY QueueTypes
<1>2. Fainter(down, down')
  BY <1>1, PopFainter
<1>3. Coming' \subseteq Coming
  BY <1>2 DEF Coming, Fainter
<1>4. ASSUME NEW s \in Session PROVE NoInitial(down'[s])
  <2>1. CASE s = socket
    <3>1. down'[s] = Tail(down[s]) /\ down[s] \in Seq(Packet)
      BY <1>1, <2>1, PopAt, QueueTypes
    <3> QED BY <2>1, <3>1, TailHolds DEF DownStream
  <2>2. CASE s # socket
    <3>1. down'[s] = down[s] /\ down[s] = <<>>
      BY <1>1, <2>2, PopAt DEF Asked
    <3> QED BY <3>1, EmptyHolds
  <2> QED BY <2>1, <2>2
<1>5. Elements(delivered') = {} /\ RisingMsgs(delivered')
  BY EmptyHolds
<1>6. UNCHANGED <<connection, attached, socketBuffer, served>>
  BY DEF context
<1>7. \A s \in Session : Rising(down'[s]) /\ NoneAfter(down'[s])
  BY <1>2 DEF Fainter, DownStream
<1>8. /\ Precede(Coming', Elements(socketBuffer'))
      /\ connection' # 0 => Own(Coming)' /\ Own(Elements(socketBuffer))'
      /\ connection' = 0 \/ attached' # 0 => socketBuffer' = <<>>
  BY <1>3, <1>6 DEF DownStream, Precede, Own
<1>9. /\ Precede(Elements(delivered'), Coming')
      /\ Precede(Elements(delivered'), Elements(socketBuffer'))
      /\ Own(Elements(delivered))'
  BY <1>5 DEF Precede, Own
<1> QED BY <1>4, <1>5, <1>7, <1>8, <1>9 DEF DownStream

\* What an open channel handles comes after what it has handled, and before
\* what is still to come.
LEMMA HandleDown ==
  ASSUME TypeOK, Asked, DownStream, channelOpen, socket # 0, down[socket] # <<>>,
         Head(down[socket]).type = "message",
         down' = Pop(down, socket), UNCHANGED <<context, channelOpen>>,
         delivered' = Append(delivered, Decoded(Head(down[socket])))
  PROVE  DownStream'
<1> DEFINE m == Decoded(Head(down[socket]))
<1>1. down \in Queues /\ socket \in Session /\ down[socket] \in Seq(Packet)
  BY QueueTypes
<1>2. Fainter(down, down')
  BY <1>1, PopFainter
<1>3. Coming' \subseteq Coming
  BY <1>2 DEF Coming, Fainter
<1>4. m \in Msgs(down[socket]) /\ m \in Coming /\ m \in Message
  <2>1. m \in Msgs(down[socket])
    BY <1>1, HeadMessage
  <2> QED BY <1>1, <2>1, ComingType DEF Coming
<1>5. Precede({m}, Coming')
  <2>1. Precede({m}, Msgs(Tail(down[socket])))
    BY <1>1, HeadMessage DEF DownStream
  <2>2. ASSUME NEW s \in Session PROVE Msgs(down'[s]) \subseteq Msgs(Tail(down[socket]))
    <3>1. CASE s = socket
      BY <1>1, <3>1, PopAt
    <3>2. CASE s # socket
      <4>1. down'[s] = <<>>
        BY <1>1, <3>2, PopAt DEF Asked
      <4> QED BY <4>1, EmptyHolds
    <3> QED BY <3>1, <3>2
  <2> QED BY <2>1, <2>2 DEF Coming, Precede
<1> HIDE DEF m
<1>6. delivered' = Append(delivered, m) /\ delivered \in Seq(Message)
  BY DEF m, TypeOK
<1>7. /\ Elements(delivered') = Elements(delivered) \cup {m}
      /\ RisingMsgs(delivered')
  <2>1. Precede(Elements(delivered), {m}) /\ RisingMsgs(delivered)
    BY <1>4 DEF DownStream, Precede
  <2> QED BY <1>4, <1>6, <2>1, AppendHolds
<1>8. UNCHANGED <<connection, attached, socketBuffer, served>>
  BY DEF context
<1>9. \A s \in Session : Rising(down'[s]) /\ NoneAfter(down'[s]) /\ NoInitial(down'[s])
  BY <1>2 DEF Fainter, DownStream
<1>10. /\ Precede(Coming', Elements(socketBuffer'))
       /\ connection' # 0 => Own(Coming)' /\ Own(Elements(socketBuffer))'
       /\ connection' = 0 \/ attached' # 0 => socketBuffer' = <<>>
  BY <1>3, <1>8 DEF DownStream, Precede, Own
<1>11. Precede(Elements(delivered'), Coming')
  BY <1>3, <1>5, <1>7 DEF DownStream, Precede
<1>12. Precede(Elements(delivered'), Elements(socketBuffer'))
  BY <1>4, <1>7, <1>8 DEF DownStream, Precede
<1>13. connection' # 0 => Own(Elements(delivered))'
  BY <1>4, <1>7, <1>8 DEF DownStream, Own
<1> QED BY <1>7, <1>9, <1>10, <1>11, <1>12, <1>13 DEF DownStream

\* A new context has written nothing yet, to a front end with no open channel.
LEMMA InitialDown ==
  ASSUME TypeOK, Matched, OneSession, Asked, DownStream, NEW s \in listening,
         HandleInitialConnect(s), ~channelOpen, UNCHANGED <<channelOpen, delivered>>
  PROVE  DownStream'
<1> DEFINE p == <<Signal("INITIAL")>>
<1>1. /\ s \in Session /\ Coming = {} /\ down \in Queues
      /\ \A t \in Session : down[t] = <<>>
  BY ListeningQuiet, QueueTypes
<1>2. p \in Seq(Packet) /\ Msgs(p) = {} /\ Rising(p) /\ NoneAfter(p)
  BY SignalHolds DEF Control
<1>3. down' = Emit(down, s, p)
  BY DEF HandleInitialConnect
<1> HIDE DEF p
<1>4. ASSUME NEW t \in Session PROVE down'[t] = <<>> \/ down'[t] = p
  <2>1. down'[t] = IF t = s /\ s = socket THEN down[t] \o p ELSE down[t]
    BY <1>1, <1>2, <1>3, EmitAt
  <2>2. <<>> \o p = p
    BY <1>2
  <2> QED BY <1>1, <2>1, <2>2
<1>5. Coming' = {}
  BY <1>2, <1>4, EmptyHolds DEF Coming
<1>6. \A t \in Session : Rising(down'[t]) /\ NoneAfter(down'[t])
  BY <1>2, <1>4, EmptyHolds
<1>7. socketBuffer' = <<>> /\ Elements(socketBuffer') = {}
  BY EmptyHolds DEF HandleInitialConnect, SetConnection
<1>8. Own(Coming)' /\ Own(Elements(socketBuffer))' /\ Precede(Coming', Elements(socketBuffer'))
  BY <1>5, <1>7 DEF Own, Precede
<1> QED BY <1>6, <1>7, <1>8 DEF DownStream

\* What waited in the buffer goes out, or is lost.
LEMMA ReattachDown ==
  ASSUME TypeOK, Matched, OneSession, Asked, DownStream, NEW s \in listening,
         connection # 0, Reattach(s), UNCHANGED <<channelOpen, delivered>>
  PROVE  DownStream'
<1> DEFINE f == Flushed(socketBuffer)
           a == <<Signal("RECONNECT true")>>
           p == a \o f
<1>1. /\ s \in Session /\ Coming = {} /\ down \in Queues
      /\ \A t \in Session : down[t] = <<>>
  BY ListeningQuiet, QueueTypes
<1>2. a \in Seq(Packet) /\ Msgs(a) = {} /\ Rising(a) /\ NoneAfter(a) /\ NoInitial(a)
  BY SignalHolds DEF Control
<1>3. f \in Seq(Packet) /\ Msgs(f) \subseteq Elements(socketBuffer) /\ Rising(f) /\ NoInitial(f)
  BY FlushedHolds DEF TypeOK
<1>4. down' = Emit(down, s, p) /\ UNCHANGED <<connection, served>> /\ socketBuffer' = <<>>
  BY DEF Reattach
<1> HIDE DEF a, f
<1>5. /\ p \in Seq(Packet) /\ Msgs(p) \subseteq Elements(socketBuffer)
      /\ Rising(p) /\ NoneAfter(p) /\ NoInitial(p)
  <2>1. Precede(Msgs(a), Msgs(f))
    BY <1>2 DEF Precede
  <2>2. p \in Seq(Packet)
    BY <1>2, <1>3, ConcatType
  <2>3. Msgs(p) = Msgs(a) \cup Msgs(f)
    BY <1>2, <1>3, ConcatMsgs
  <2>4. Rising(p)
    BY <1>2, <1>3, <2>1, ConcatRising
  <2>5. NoneAfter(p) /\ NoInitial(p)
    BY <1>2, <1>3, ConcatInitial
  <2> QED BY <1>2, <1>3, <2>2, <2>3, <2>4, <2>5
<1> HIDE DEF p
<1>6. ASSUME NEW t \in Session PROVE down'[t] = <<>> \/ down'[t] = p
  <2>1. down'[t] = IF t = s /\ s = socket THEN down[t] \o p ELSE down[t]
    BY <1>1, <1>4, <1>5, EmitAt
  <2>2. <<>> \o p = p
    BY <1>5
  <2> QED BY <1>1, <2>1, <2>2
<1>7. Coming' \subseteq Elements(socketBuffer)
  BY <1>5, <1>6, EmptyHolds DEF Coming
<1>8. \A t \in Session : Rising(down'[t]) /\ NoneAfter(down'[t]) /\ NoInitial(down'[t])
  BY <1>5, <1>6, EmptyHolds
<1>9. Elements(socketBuffer') = {}
  BY <1>4, EmptyHolds
<1>10. connection' # 0 => Own(Coming)' /\ Own(Elements(socketBuffer))'
  BY <1>4, <1>7, <1>9 DEF DownStream, Own
<1>11. Precede(Coming', Elements(socketBuffer'))
  BY <1>9 DEF Precede
<1>12. channelOpen' => /\ Precede(Elements(delivered'), Coming')
                       /\ Precede(Elements(delivered'), Elements(socketBuffer'))
                       /\ Own(Elements(delivered))'
  BY <1>4, <1>7, <1>9 DEF DownStream, Precede, Own
<1>13. RisingMsgs(delivered')
  BY DEF DownStream
<1> QED BY <1>4, <1>8, <1>10, <1>11, <1>12, <1>13 DEF DownStream

\* What a context writes comes after all it has written.
LEMMA ServeDown ==
  ASSUME TypeOK, DownStream, Serve
  PROVE  DownStream'
<1>0. PICK m \in Message : m = [from |-> connection, n |-> served + 1]
  <2>1. [from |-> connection, n |-> served + 1] \in Message
    BY BoundsAssumption DEF Message, TypeOK
  <2> QED BY <2>1
<1>1. /\ connection # 0 /\ m.from = connection /\ m.n = served + 1
      /\ served \in Nat /\ served' = served + 1
      /\ UNCHANGED <<connection, attached, channelOpen, delivered>>
  BY <1>0 DEF Serve, TypeOK, frontend, page
<1>2. IF attached # 0
      THEN down' = Emit(down, attached, <<Data(<<m>>)>>) /\ UNCHANGED socketBuffer
      ELSE socketBuffer' = Buffered(socketBuffer, m) /\ UNCHANGED down
  BY <1>0 DEF Serve
<1>3. ASSUME NEW S \in SUBSET Message, Own(S)
      PROVE  /\ Precede(S, {m})
             /\ \A x \in S \cup {m} : x.from = connection' /\ x.n <= served'
  <2>1. \A x \in S : x.n \in Nat /\ x.n <= served /\ x.from = connection
    BY <1>3 DEF Own, Message
  <2>2. Precede(S, {m})
    BY <1>1, <2>1 DEF Precede
  <2>3. \A x \in S \cup {m} : x.from = connection' /\ x.n <= served'
    BY <1>1, <2>1
  <2> QED BY <2>2, <2>3
<1>4. /\ Own(Coming) /\ Own(Elements(socketBuffer)) /\ RisingMsgs(delivered)
      /\ Coming \in SUBSET Message /\ Elements(socketBuffer) \in SUBSET Message
      /\ Elements(delivered) \in SUBSET Message
  BY <1>1, ComingType, ElementsType DEF DownStream, TypeOK
<1>5. channelOpen => Own(Elements(delivered))
  BY <1>1 DEF DownStream
<1>7. CASE attached # 0
  <2> DEFINE p == <<Data(<<m>>)>>
  <2>1. p \in Seq(Packet) /\ Msgs(p) = {m} /\ Rising(p) /\ NoInitial(p)
    BY OneDatum
  <2>2. down' = Emit(down, attached, p) /\ socketBuffer' = <<>> /\ socketBuffer = <<>>
    BY <1>2, <1>7 DEF DownStream
  <2> HIDE DEF p
  <2>3. attached \in Session /\ \A t \in Session : down[t] \in Seq(Packet)
    BY <1>7, QueueTypes
  <2>4. ASSUME NEW t \in Session PROVE down'[t] = down[t] \/ down'[t] = down[t] \o p
    <3>1. down'[t] = IF t = attached /\ attached = socket THEN down[t] \o p ELSE down[t]
      BY <2>1, <2>2, <2>3, QueueTypes, EmitAt
    <3> QED BY <3>1
  <2>5. ASSUME NEW t \in Session
        PROVE  /\ Msgs(down'[t]) \subseteq Coming \cup {m}
               /\ Rising(down'[t]) /\ NoneAfter(down'[t])
               /\ NoInitial(down[t]) => NoInitial(down'[t])
    <3>1. Msgs(down[t]) \subseteq Coming
      BY DEF Coming
    <3>2. Precede(Msgs(down[t]), Msgs(p))
      BY <1>3, <1>4, <2>1, <3>1 DEF Precede
    <3>3. Rising(down[t]) /\ NoneAfter(down[t])
      BY DEF DownStream
    <3>4. Msgs(down[t] \o p) = Msgs(down[t]) \cup {m}
      BY <2>1, <2>3, ConcatMsgs
    <3>5. Rising(down[t] \o p)
      BY <2>1, <2>3, <3>2, <3>3, ConcatRising
    <3>6. NoneAfter(down[t] \o p) /\ (NoInitial(down[t]) => NoInitial(down[t] \o p))
      BY <2>1, <2>3, <3>3, ConcatInitial
    <3> QED BY <2>4, <3>1, <3>3, <3>4, <3>5, <3>6
  <2>6. Coming' \subseteq Coming \cup {m}
    BY <2>5 DEF Coming
  <2>7. Elements(socketBuffer') = {}
    BY <2>2, EmptyHolds
  <2>8. Own(Coming)' /\ Own(Elements(socketBuffer))'
    <3>1. \A x \in Coming \cup {m} : x.from = connection' /\ x.n <= served'
      BY <1>3, <1>4
    <3> QED BY <2>6, <2>7, <3>1 DEF Own
  <2>9. Precede(Coming', Elements(socketBuffer'))
    BY <2>7 DEF Precede
  <2>10. channelOpen => Precede(Elements(delivered), {m}) /\ Own(Elements(delivered))'
    <3>1. channelOpen => \A x \in Elements(delivered) : x.from = connection' /\ x.n <= served'
      BY <1>3, <1>4, <1>5
    <3>2. channelOpen => Own(Elements(delivered))'
      BY <1>1, <3>1 DEF Own
    <3> QED BY <1>3, <1>4, <1>5, <3>2
  <2>11. channelOpen' => /\ Precede(Elements(delivered'), Coming')
                         /\ Precede(Elements(delivered'), Elements(socketBuffer'))
    BY <1>1, <2>6, <2>7, <2>10 DEF DownStream, Precede
  <2>12. channelOpen' => \A s \in Session : NoInitial(down'[s])
    BY <1>1, <2>5 DEF DownStream
  <2> QED BY <1>1, <1>4, <2>2, <2>5, <2>8, <2>9, <2>10, <2>11, <2>12 DEF DownStream
<1>8. CASE attached = 0
  <2>1. UNCHANGED down /\ socketBuffer' = Buffered(socketBuffer, m)
    BY <1>2, <1>8
  <2>2. Coming' = Coming
    BY <2>1 DEF Coming
  <2>3. Elements(socketBuffer') \subseteq Elements(socketBuffer) \cup {m}
    BY <2>1, BufferedHolds DEF TypeOK
  <2>4. Own(Coming)' /\ Own(Elements(socketBuffer))'
    <3>1. \A x \in Coming \cup Elements(socketBuffer) \cup {m} :
            x.from = connection' /\ x.n <= served'
      BY <1>3, <1>4
    <3> QED BY <2>2, <2>3, <3>1 DEF Own
  <2>5. Precede(Coming', Elements(socketBuffer'))
    BY <1>3, <1>4, <2>2, <2>3 DEF DownStream, Precede
  <2>6. channelOpen => Precede(Elements(delivered), {m}) /\ Own(Elements(delivered))'
    <3>1. channelOpen => \A x \in Elements(delivered) : x.from = connection' /\ x.n <= served'
      BY <1>3, <1>4, <1>5
    <3>2. channelOpen => Own(Elements(delivered))'
      BY <1>1, <3>1 DEF Own
    <3> QED BY <1>3, <1>4, <1>5, <3>2
  <2>7. channelOpen' => /\ Precede(Elements(delivered'), Coming')
                        /\ Precede(Elements(delivered'), Elements(socketBuffer'))
    BY <1>1, <2>2, <2>3, <2>6 DEF DownStream, Precede
  <2> QED BY <1>1, <1>4, <1>8, <2>1, <2>4, <2>5, <2>6, <2>7 DEF DownStream
<1> QED BY <1>7, <1>8

\* The front end keeps to it.
LEMMA FrontendDown ==
  ASSUME TypeOK, Asked, DownStream, FrontendNext
  PROVE  DownStream'
<1>q. down \in Queues /\ (socket # 0 => socket \in Session)
  BY QueueTypes
<1>b. UNCHANGED backend => UNCHANGED <<context, connection, attached, served, socketBuffer>>
  BY DEF backend, context
<1>s. UNCHANGED down => Fainter(down, down')
  BY SameFainter
<1>c. down' = Clear(down, socket) => Fainter(down, down')
  BY <1>q, ClearFainter
<1>p. socket # 0 /\ down[socket] # <<>> /\ down' = Pop(down, socket) => Fainter(down, down')
  BY <1>q, PopFainter
<1>1. CASE Connect
  <2>1. UNCHANGED <<connection, attached, served, socketBuffer, channelOpen, delivered, down>>
    BY <1>1 DEF Connect, context, page
  <2> QED BY <1>s, <2>1, DownLess
<1>2. CASE Disconnect
  BY <1>2, <1>b, <1>c, DownLess DEF Disconnect, page
<1>3. CASE ReloadPage
  BY <1>3, <1>b, <1>c, DownLess DEF ReloadPage, FreshPage
<1>4. CASE ReceiveInitialConnect
  <2>1. CASE initialConnectListeners = 0
    BY <1>4, <1>b, <1>p, <2>1, DownLess DEF ReceiveInitialConnect, frontend, page
  <2>2. CASE initialConnectListeners # 0
    BY <1>4, <1>b, <2>2, OpenDown DEF ReceiveInitialConnect, ConnectNewChannels
  <2> QED BY <2>1, <2>2
<1>5. CASE ReceiveReconnected
  BY <1>5, <1>b, <1>p, DownLess DEF ReceiveReconnected, page
<1>6. CASE ReceiveReconnectRefused
  BY <1>6, <1>b, <1>c, DownLess DEF ReceiveReconnectRefused, FreshPage, GiveUpChannel
<1>7. CASE ReceiveMessage
  <2>1. CASE channelOpen
    BY <1>7, <1>b, <2>1, HandleDown DEF ReceiveMessage, frontend, page
  <2>2. CASE ~channelOpen
    BY <1>7, <1>b, <1>p, <2>2, DownLess DEF ReceiveMessage, frontend, page
  <2> QED BY <2>1, <2>2
<1>8. CASE Send
  BY <1>8, <1>b, <1>s, DownLess DEF Send, page
<1>9. CASE MarkForClose
  BY <1>9, <1>b, <1>s, DownLess DEF MarkForClose, page
<1> QED BY <1>1, <1>2, <1>3, <1>4, <1>5, <1>6, <1>7, <1>8, <1>9 DEF FrontendNext

\* The back end keeps to it.
LEMMA BackendDown ==
  ASSUME TypeOK, Matched, OneSession, Asked, DownStream, UpStream, BackendNext
  PROVE  DownStream'
<1>f. UNCHANGED <<channelOpen, delivered>>
  BY DEF BackendNext, Receive, NoticeDisconnect, TimerFires, Serve, Restart, frontend, page
<1>s. UNCHANGED down => Fainter(down, down')
  BY SameFainter
<1>1. ASSUME NEW s \in Session, Receive(s) PROVE DownStream'
  <2>1. CASE Head(up[s]).type = "INITIAL" /\ s \in listening /\ HandleInitialConnect(s)
    <3>1. ~channelOpen
      BY <2>1 DEF UpStream
    <3> QED BY <1>f, <2>1, <3>1, InitialDown
  <2>2. CASE s \in listening /\ HandleReconnect(s) /\ connection # 0
    <3>1. Reattach(s)
      BY <2>2 DEF HandleReconnect
    <3> QED BY <1>f, <2>2, <3>1, ReattachDown
  <2>3. CASE s \in listening /\ HandleReconnect(s) /\ connection = 0
    <3> DEFINE p == <<Signal("RECONNECT false")>>
    <3>1. down' = Emit(down, s, p)
          /\ UNCHANGED <<connection, attached, socketBuffer, served>>
      BY <2>3 DEF HandleReconnect, RefuseReconnect, context
    <3>2. p \in Seq(Packet) /\ Msgs(p) = {} /\ Rising(p) /\ NoneAfter(p) /\ NoInitial(p)
      BY SignalHolds DEF Control
    <3> HIDE DEF p
    <3>3. down[s] = <<>> /\ down \in Queues
      BY <2>3, ListeningQuiet, QueueTypes
    <3>4. Fainter(down, down')
      BY <3>1, <3>2, <3>3, AnswerFainter
    <3> QED BY <1>f, <3>1, <3>4, DownLess
  <2>4. CASE UNCHANGED <<down, connection, attached, socketBuffer, served>>
    BY <1>f, <1>s, <2>4, DownLess
  <2> QED BY <1>1, <2>1, <2>2, <2>3, <2>4 DEF Receive, HandleMessage, backend, context
<1>2. ASSUME NEW s \in Session, NoticeDisconnect(s) PROVE DownStream'
  <2>1. \/ UNCHANGED <<connection, served, socketBuffer>> /\ attached' \in {attached, 0}
        \/ connection' = 0 /\ socketBuffer' = <<>>
    BY <1>2 DEF NoticeDisconnect, HandleDisconnect, CloseConnection, SetConnection, context
  <2>2. UNCHANGED down
    BY <1>2 DEF NoticeDisconnect
  <2> QED BY <1>f, <1>s, <2>1, <2>2, DownLess
<1>3. ASSUME NEW s \in Session, TimerFires(s) PROVE DownStream'
  BY <1>3, <1>f, <1>s, DownLess DEF TimerFires, CloseConnection, SetConnection, network
<1>4. CASE Restart
  BY <1>4, <1>f, <1>s, DownLess DEF Restart, SetConnection
<1> QED BY <1>1, <1>2, <1>3, <1>4, ServeDown DEF BackendNext

-----------------------------------------------------------------------------
(* What is on its way up, and what has come of it.                          *)

(* A session that asks for a context has nothing else to say, and there is  *)
(* no open channel.                                                         *)
AskOnly ==
  \A s \in listening : Head(up[s]).type = "INITIAL" => Msgs(up[s]) = {} /\ ~channelOpen

\* A step after which the context hears no more, of the same channel if any,
\* keeps to it.
LEMMA UpLess ==
  ASSUME UpStream, Heard' \subseteq Heard, AskOnly',
         \/ UNCHANGED <<channelOpen, currentChannel, writeBuffer>>
         \/ ~channelOpen' /\ writeBuffer' = <<>>,
         \A s \in Session : NoInitial(down[s]) => NoInitial(down'[s]),
         \/ pendingEmits' = 0
         \/ pendingEmits' = pendingEmits /\ socket' \in {socket, 0}
         \/ socket' = 0 /\ ~channelOpen'
  PROVE  UpStream'
<1>1. \A m, o \in Heard' : m.from = o.from
  BY DEF UpStream
<1>2. channelOpen' => /\ \A m \in Heard' \cup Elements(writeBuffer') : m.from = currentChannel'
                      /\ currentChannel' # 0
  BY DEF UpStream
<1>3. ~channelOpen' => writeBuffer' = <<>>
  BY DEF UpStream
<1>4. \A s \in Session : ~NoInitial(down'[s]) => Heard' = {}
  BY DEF UpStream
<1>5. pendingEmits' # 0 => socket' = 0 /\ ~channelOpen'
  BY DEF UpStream
<1> QED BY <1>1, <1>2, <1>3, <1>4, <1>5 DEF UpStream, AskOnly

\* While what goes up stays, so does what is asked, unless a channel opens.
LEMMA SameAskOnly ==
  ASSUME UpStream, channelOpen' => channelOpen,
         listening' \subseteq listening,
         \A s \in listening' : up'[s] = up[s]
  PROVE  AskOnly'
  BY DEF UpStream, AskOnly

\* Handling a message only takes it off its way.
LEMMA PopHeard ==
  ASSUME TypeOK, NEW s \in alive, up[s] # <<>>, up' = Pop(up, s), UNCHANGED alive,
         \/ received' \in {received, <<>>}
         \/ /\ Head(up[s]).type = "message"
            /\ received' = Append(received, Decoded(Head(up[s])))
  PROVE  Heard' \subseteq Heard
<1>1. up \in Queues /\ alive \subseteq Session /\ up[s] \in Seq(Packet) /\ received \in Seq(Message)
  BY QueueTypes DEF TypeOK
<1>2. Fainter(up, up')
  BY <1>1, PopFainter
<1>3. UNION {Msgs(up'[t]) : t \in alive'} \subseteq UNION {Msgs(up[t]) : t \in alive}
  BY <1>1, <1>2 DEF Fainter
<1>4. CASE received' \in {received, <<>>}
  BY <1>3, <1>4, EmptyHolds DEF Heard
<1>5. CASE /\ Head(up[s]).type = "message"
           /\ received' = Append(received, Decoded(Head(up[s])))
  <2>1. PICK m : m = Decoded(Head(up[s]))
    OBVIOUS
  <2>2. m \in Msgs(up[s])
    BY <1>1, <1>5, <2>1, HeadMessage
  <2>3. m \in Message
    BY <1>1, <2>2, MsgsType
  <2>4. Elements(received') = Elements(received) \cup {m}
    BY <1>1, <1>5, <2>1, <2>3, AppendHolds
  <2> QED BY <1>3, <2>2, <2>4 DEF Heard
<1> QED BY <1>4, <1>5

\* What is put in the queue of the session is heard as well.
LEMMA PushHeard ==
  ASSUME TypeOK, socket # 0, NEW p \in Seq(Packet), up' = Push(up, socket, p),
         UNCHANGED <<alive, received>>
  PROVE  Heard' \subseteq Heard \cup Msgs(p)
<1>1. up \in Queues /\ alive \subseteq Session /\ socket \in Session
      /\ \A t \in Session : up[t] \in Seq(Packet)
  BY QueueTypes DEF TypeOK
<1>2. ASSUME NEW t \in alive PROVE Msgs(up'[t]) \subseteq Msgs(up[t]) \cup Msgs(p)
  <2>1. up'[t] = IF t = socket THEN up[t] \o p ELSE up[t]
    BY <1>1, PushAt
  <2>2. Msgs(up[t] \o p) = Msgs(up[t]) \cup Msgs(p)
    BY <1>1, ConcatMsgs
  <2> QED BY <2>1, <2>2
<1> QED BY <1>2 DEF Heard

\* A channel adds messages of its own.
LEMMA SpeakUp ==
  ASSUME UpStream, channelOpen, NEW S,
         \A m \in S : m.from = currentChannel,
         Heard' \subseteq Heard \cup S,
         Elements(writeBuffer') \subseteq Elements(writeBuffer) \cup S,
         UNCHANGED <<channelOpen, currentChannel, pendingEmits>>, AskOnly',
         \A s \in Session : NoInitial(down'[s])
  PROVE  UpStream'
<1>1. \A m \in Heard' \cup Elements(writeBuffer') : m.from = currentChannel
  BY DEF UpStream
<1>2. pendingEmits' = 0 /\ currentChannel' # 0 /\ currentChannel' = currentChannel
  BY DEF UpStream
<1> QED BY <1>1, <1>2 DEF UpStream, AskOnly

\* So does a message committed, sent directly or buffered.
LEMMA CommitUp ==
  ASSUME TypeOK, Asked, DownStream, UpStream, channelOpen, NEW m \in Message,
         m.from = currentChannel, Commit(m),
         UNCHANGED <<channelOpen, currentChannel, pendingEmits, down, alive, listening, received>>
  PROVE  UpStream'
<1>1. \A s \in Session : NoInitial(down'[s])
  BY DEF DownStream
<1>2. AskOnly => \A s \in listening : Head(up[s]).type # "INITIAL"
  BY DEF AskOnly
<1>3. \A s \in listening : Head(up[s]).type # "INITIAL"
  BY <1>2 DEF UpStream, AskOnly
<1>4. CASE socket # 0
  <2>1. PICK p \in Seq(Packet) : p = <<Data(<<m>>)>>
    BY OneDatum
  <2>2. Msgs(p) = {m}
    BY <2>1, OneDatum
  <2>3. up' = Push(up, socket, p) /\ UNCHANGED writeBuffer
    BY <1>4, <2>1 DEF Commit
  <2>4. Heard' \subseteq Heard \cup {m}
    BY <1>4, <2>2, <2>3, PushHeard
  <2>5. ASSUME NEW s \in listening PROVE Head(up'[s]).type # "INITIAL"
    <3>1. up[s] \in Seq(Packet) /\ up[s] # <<>> /\ s \in Session
      BY QueueTypes DEF Asked, TypeOK
    <3>2. up'[s] = IF s = socket THEN up[s] \o p ELSE up[s]
      BY <1>4, <2>3, <3>1, QueueTypes, PushAt
    <3>3. Head(up'[s]) = Head(up[s])
      BY <3>1, <3>2, HeadStays
    <3> QED BY <1>3, <3>3
  <2>6. AskOnly'
    BY <2>5 DEF AskOnly
  <2>7. PICK S : S = {m}
    OBVIOUS
  <2>8. /\ \A x \in S : x.from = currentChannel
        /\ Heard' \subseteq Heard \cup S
        /\ Elements(writeBuffer') \subseteq Elements(writeBuffer) \cup S
    BY <2>3, <2>4, <2>7
  <2> QED BY <1>1, <2>6, <2>8, SpeakUp
<1>5. CASE socket = 0
  <2>1. up' = up /\ writeBuffer' = Buffered(writeBuffer, m)
    BY <1>5 DEF Commit
  <2>2. Elements(writeBuffer') \subseteq Elements(writeBuffer) \cup {m}
    BY <2>1, BufferedHolds DEF TypeOK
  <2>3. Heard' = Heard
    BY <2>1 DEF Heard
  <2>4. AskOnly'
    BY <1>3, <2>1 DEF AskOnly
  <2>5. PICK S : S = {m}
    OBVIOUS
  <2>6. /\ \A x \in S : x.from = currentChannel
        /\ Heard' \subseteq Heard \cup S
        /\ Elements(writeBuffer') \subseteq Elements(writeBuffer) \cup S
    BY <2>2, <2>3, <2>5
  <2> QED BY <1>1, <2>4, <2>6, SpeakUp
<1> QED BY <1>4, <1>5

\* What waited in the buffer goes out.
LEMMA FlushUp ==
  ASSUME TypeOK, Asked, DownStream, UpStream, FlushWriteBuffer,
         socket # 0, down[socket] # <<>>, down' = Pop(down, socket),
         UNCHANGED <<channelOpen, currentChannel, pendingEmits, alive, listening, received>>
  PROVE  UpStream'
<1>1. PICK p \in Seq(Packet) : p = Flushed(writeBuffer)
  BY FlushedType DEF TypeOK
<1>2. Msgs(p) \subseteq Elements(writeBuffer)
  BY <1>1, FlushedHolds DEF TypeOK
<1>3. up' = Push(up, socket, p) /\ writeBuffer' = <<>>
  BY <1>1 DEF FlushWriteBuffer
<1>4. Heard' \subseteq Heard \cup Elements(writeBuffer)
  BY <1>2, <1>3, PushHeard
<1>5. AskOnly'
  <2>1. ASSUME NEW s \in listening PROVE up'[s] = up[s]
    <3>1. s \in Session /\ s # socket
      BY DEF Asked, TypeOK
    <3> QED BY <1>3, <3>1, QueueTypes, PushAt
  <2> QED BY <2>1, SameAskOnly
<1>6. \A s \in Session : NoInitial(down[s]) => NoInitial(down'[s])
  BY QueueTypes, PopFainter DEF Fainter
<1>7. Elements(writeBuffer') = {}
  BY <1>3, EmptyHolds
<1>8. CASE channelOpen
  <2>1. \A s \in Session : NoInitial(down'[s])
    BY <1>6, <1>8 DEF DownStream
  <2>2. \A m \in Elements(writeBuffer) : m.from = currentChannel
    BY <1>8 DEF UpStream
  <2> QED BY <1>4, <1>5, <1>7, <1>8, <2>1, <2>2, SpeakUp
<1>9. CASE ~channelOpen
  <2>1. Heard' \subseteq Heard
    <3>1. Elements(writeBuffer) = {}
      BY <1>9, EmptyHolds DEF UpStream
    <3> QED BY <1>4, <3>1
  <2>2. pendingEmits' = 0
    BY DEF UpStream
  <2> QED BY <1>3, <1>5, <1>6, <1>9, <2>1, <2>2, UpLess
<1> QED BY <1>8, <1>9

\* A session opens: it asks for a context only if there is no open channel.
LEMMA ConnectUp ==
  ASSUME ~StaleDisconnects, TypeOK, Matched, UpStream, Connect
  PROVE  UpStream'
<1> DEFINE inquiry == IF currentChannel # 0 THEN "RECONNECT" ELSE "INITIAL"
           emits   == Times(pendingEmits, Signal("INITIAL"))
<1>1. PICK packets : packets = emits \o <<Signal(inquiry)>>
  OBVIOUS
<1>2. PICK s \in Session : s = sessions + 1
  BY BoundsAssumption DEF Connect, Session, TypeOK
<1>3. /\ up' = [up EXCEPT ![s] = packets] /\ alive' = {s} /\ listening' = {s}
      /\ UNCHANGED <<down, channelOpen, currentChannel, writeBuffer, received>>
      /\ pendingEmits' = 0
  <2>1. alive = {} /\ listening = {}
    BY DEF Connect, Matched, ContextsMatched
  <2> QED BY <1>1, <1>2, <2>1 DEF Connect, page
<1>4. up'[s] = packets
  BY <1>3, QueueTypes DEF Queues
<1>5. packets \in Seq({Signal("INITIAL"), Signal("RECONNECT")})
  <2>1. emits \in Seq({Signal("INITIAL")}) /\ <<Signal(inquiry)>> \in Seq({Signal(inquiry)})
    BY DEF Times, TypeOK
  <2> QED BY <1>1, <2>1
<1>6. Msgs(packets) = {}
  <2>1. \A i \in 1 .. Len(packets) : packets[i].type # "message"
    BY <1>5 DEF Signal
  <2> QED BY <2>1 DEF Msgs
<1>7. Head(packets).type = "INITIAL" => ~channelOpen
  <2>1. CASE channelOpen
    <3>1. pendingEmits = 0 /\ inquiry = "RECONNECT"
      BY <2>1 DEF UpStream
    <3>2. emits = <<>>
      BY <3>1 DEF Times
    <3>3. \A x : Head(<<>> \o <<x>>) = x
      OBVIOUS
    <3>4. Head(packets).type = "RECONNECT"
      BY <1>1, <3>1, <3>2, <3>3 DEF Signal
    <3> QED BY <3>4
  <2> QED BY <2>1
<1>8. AskOnly'
  BY <1>3, <1>4, <1>6, <1>7 DEF AskOnly
<1>9. Heard' \subseteq Heard
  BY <1>3, <1>4, <1>6 DEF Heard
<1> HIDE DEF inquiry, emits
<1> QED BY <1>3, <1>8, <1>9, UpLess

\* A channel opens: nothing has been heard, and no session asks.
LEMMA OpenUp ==
  ASSUME TypeOK, Matched, OneSession, Asked, UpStream, socket # 0, down[socket] # <<>>,
         Head(down[socket]).type = "INITIAL",
         initialConnectListeners # 0, ConnectNewChannels(initialConnectListeners),
         UNCHANGED <<pendingEmits, up, alive, listening, received>>
  PROVE  UpStream'
<1>1. Heard = {}
  <2>1. socket \in Session /\ down[socket] \in Seq(Packet)
    BY QueueTypes
  <2>2. ~NoInitial(down[socket])
    <3>1. 1 \in 1 .. Len(down[socket]) /\ down[socket][1] = Head(down[socket])
      BY <2>1
    <3> QED BY <3>1 DEF NoInitial
  <2> QED BY <2>1, <2>2 DEF UpStream
<1>2. Heard' = {}
  BY <1>1 DEF Heard
<1>3. listening = {}
  BY DEF Matched, ContextsMatched, OneSession, Asked
<1>4. writeBuffer' = <<>> /\ Elements(writeBuffer') = {} /\ channelOpen' /\ currentChannel' # 0
  BY EmptyHolds DEF ConnectNewChannels, TypeOK
<1>5. pendingEmits' = 0
  BY DEF UpStream
<1> QED BY <1>2, <1>3, <1>4, <1>5 DEF UpStream

\* The front end keeps to it.
LEMMA FrontendUp ==
  ASSUME ~StaleDisconnects, TypeOK, Matched, OneSession, Asked, DownStream, UpStream,
         FrontendNext
  PROVE  UpStream'
<1>q. down \in Queues /\ (socket # 0 => socket \in Session)
  BY QueueTypes
<1>b. UNCHANGED backend => UNCHANGED listening
  BY DEF backend
<1>h. UNCHANGED <<up, alive, received>> => Heard' = Heard
  BY DEF Heard
<1>a. UNCHANGED <<up, listening>> /\ (channelOpen' => channelOpen) => AskOnly'
  BY SameAskOnly
<1>c. down' = Clear(down, socket) => \A s \in Session : NoInitial(down[s]) => NoInitial(down'[s])
  BY <1>q, ClearFainter DEF Fainter
<1>p. socket # 0 /\ down[socket] # <<>> /\ down' = Pop(down, socket)
        => \A s \in Session : NoInitial(down[s]) => NoInitial(down'[s])
  BY <1>q, PopFainter DEF Fainter
<1>1. CASE Connect
  BY <1>1, ConnectUp
<1>2. CASE Disconnect
  BY <1>2, <1>b, <1>h, <1>a, <1>c, UpLess DEF Disconnect, page, handshake
<1>f. ASSUME FreshPage, UNCHANGED <<up, alive, backend, received>> PROVE UpStream'
  BY <1>f, <1>b, <1>h, <1>a, <1>c, UpLess DEF FreshPage
<1>3. CASE ReloadPage
  BY <1>3, <1>f DEF ReloadPage
<1>4. CASE ReceiveInitialConnect
  <2>1. CASE initialConnectListeners = 0
    BY <1>4, <1>b, <1>h, <1>a, <1>p, <2>1, UpLess
       DEF ReceiveInitialConnect, frontend, page, handshake
  <2>2. CASE initialConnectListeners # 0
    BY <1>4, <1>b, <2>2, OpenUp DEF ReceiveInitialConnect
  <2> QED BY <2>1, <2>2
<1>5. CASE ReceiveReconnected
  <2>1. UNCHANGED <<socket, channelOpen, currentChannel, pendingEmits, alive, listening, received>>
        /\ socket # 0 /\ down[socket] # <<>> /\ down' = Pop(down, socket)
    BY <1>5, <1>b DEF ReceiveReconnected, page
  <2>2. CASE UNCHANGED <<up, writeBuffer>>
    BY <1>h, <1>a, <1>p, <2>1, <2>2, UpLess
  <2>3. CASE FlushWriteBuffer
    BY <2>1, <2>3, FlushUp
  <2> QED BY <1>5, <2>2, <2>3 DEF ReceiveReconnected
<1>6. CASE ReceiveReconnectRefused
  <2>1. CASE GiveUpChannel
    BY <1>6, <1>b, <1>h, <1>a, <1>c, <2>1, UpLess DEF ReceiveReconnectRefused, GiveUpChannel
  <2> QED BY <1>6, <1>f, <2>1 DEF ReceiveReconnectRefused
<1>7. CASE ReceiveMessage
  BY <1>7, <1>b, <1>h, <1>a, <1>p, UpLess DEF ReceiveMessage, frontend, page, handshake
<1>8. CASE Send
  <2>1. PICK m \in Message : m = [from |-> currentChannel, n |-> sent + 1]
    <3>1. [from |-> currentChannel, n |-> sent + 1] \in Message
      BY DEF Message, TypeOK
    <3> QED BY <3>1
  <2>2. m.from = currentChannel /\ Commit(m) /\ channelOpen
    BY <1>8, <2>1 DEF Send
  <2> QED BY <1>8, <1>b, <2>2, CommitUp DEF Send, page, handshake
<1>9. CASE MarkForClose
  <2>1. PICK m \in Message : m = [from |-> currentChannel, n |-> 0]
    BY DEF Message, TypeOK
  <2>2. m.from = currentChannel /\ Commit(m) /\ channelOpen
    BY <1>9, <2>1 DEF MarkForClose
  <2> QED BY <1>9, <1>b, <2>2, CommitUp DEF MarkForClose, page, handshake
<1> QED BY <1>1, <1>2, <1>3, <1>4, <1>5, <1>6, <1>7, <1>8, <1>9 DEF FrontendNext

\* What is emitted without an INITIAL_CONNECT brings none.
LEMMA EmitInitial ==
  ASSUME NEW q \in Queues, NEW s \in Session, NEW p \in Seq(Packet), NoInitial(p),
         NEW t \in Session, NoInitial(q[t])
  PROVE  NoInitial(Emit(q, s, p)[t])
<1>1. q[t] \in Seq(Packet)
  BY DEF Queues
<1>2. NoInitial(q[t] \o p)
  BY <1>1, ConcatInitial
<1>3. Emit(q, s, p)[t] = IF t = s /\ s = socket THEN q[t] \o p ELSE q[t]
  BY EmitAt
<1> QED BY <1>2, <1>3

\* A new context is asked for when there is nothing else to hear.
LEMMA InitialUp ==
  ASSUME TypeOK, Matched, UpStream, NEW s \in listening, Receive(s),
         Head(up[s]).type = "INITIAL", HandleInitialConnect(s)
  PROVE  UpStream'
<1>1. /\ s \in Session /\ up[s] # <<>> /\ up' = Pop(up, s) /\ received' = <<>>
      /\ \A t \in alive' : t = s
      /\ \A t \in listening : t = s
      /\ listening' = listening \ {s}
      /\ UNCHANGED frontend
  BY DEF Receive, HandleInitialConnect, SetConnection, Matched, ContextsMatched, TypeOK
<1>2. Msgs(up[s]) = {} /\ up \in Queues
  BY QueueTypes DEF UpStream
<1>3. Msgs(up'[s]) = {}
  BY <1>1, <1>2, PopFainter DEF Fainter
<1>4. Heard' = {}
  BY <1>1, <1>3, EmptyHolds DEF Heard
<1>5. listening' = {}
  BY <1>1
<1> QED BY <1>1, <1>4, <1>5 DEF UpStream, frontend, page, handshake

\* What the back end receives was on its way.
LEMMA ReceiveUp ==
  ASSUME TypeOK, Matched, Asked, UpStream, NEW s \in Session, Receive(s)
  PROVE  UpStream'
<1>1. /\ s \in alive /\ up[s] # <<>> /\ up' = Pop(up, s) /\ UNCHANGED alive
      /\ UNCHANGED <<socket, channelOpen, currentChannel, writeBuffer, pendingEmits>>
  BY DEF Receive, frontend, page, handshake
<1>q. up \in Queues /\ down \in Queues
  BY QueueTypes
<1>2. ASSUME listening' \subseteq listening, s \notin listening' PROVE AskOnly'
  <2>1. \A t \in listening' : up'[t] = up[t]
    BY <1>1, <1>2, <1>q, PopAt DEF TypeOK
  <2> QED BY <1>1, <1>2, <2>1, SameAskOnly
<1>3. CASE Head(up[s]).type = "INITIAL" /\ s \in listening /\ HandleInitialConnect(s)
  BY <1>3, InitialUp
<1>4. CASE HandleReconnect(s)
  <2>1. listening' \subseteq listening /\ s \notin listening' /\ received' = received
    BY <1>4 DEF HandleReconnect, Reattach, RefuseReconnect
  <2>2. PICK p \in Seq(Packet) : NoInitial(p) /\ down' = Emit(down, s, p)
    <3>1. CASE Reattach(s)
      <4>1. PICK a \in Seq(Packet) : a = <<Signal("RECONNECT true")>> /\ NoInitial(a)
        BY SignalHolds DEF Control
      <4>2. PICK f \in Seq(Packet) : f = Flushed(socketBuffer) /\ NoInitial(f)
        BY FlushedHolds DEF TypeOK
      <4>3. a \o f \in Seq(Packet) /\ NoInitial(a \o f)
        BY <4>1, <4>2, ConcatType, ConcatInitial
      <4> QED BY <3>1, <4>1, <4>2, <4>3 DEF Reattach
    <3>2. CASE RefuseReconnect(s)
      <4>1. PICK a \in Seq(Packet) : a = <<Signal("RECONNECT false")>> /\ NoInitial(a)
        BY SignalHolds DEF Control
      <4> QED BY <3>2, <4>1 DEF RefuseReconnect
    <3> QED BY <1>4, <3>1, <3>2 DEF HandleReconnect
  <2>3. \A t \in Session : NoInitial(down[t]) => NoInitial(down'[t])
    BY <1>q, <2>2, EmitInitial
  <2>4. Heard' \subseteq Heard
    BY <1>1, <2>1, PopHeard
  <2> QED BY <1>1, <1>2, <2>1, <2>3, <2>4, UpLess
<1>5. CASE Head(up[s]).type = "message" /\ HandleMessage(s, Decoded(Head(up[s])))
  <2>1. s \notin listening
    BY <1>5 DEF Asked
  <2>2. /\ UNCHANGED <<down, listening>>
        /\ received' \in {received, Append(received, Decoded(Head(up[s])))}
    BY <1>5 DEF HandleMessage
  <2>3. Heard' \subseteq Heard
    BY <1>1, <1>5, <2>2, PopHeard
  <2> QED BY <1>1, <1>2, <2>1, <2>2, <2>3, UpLess
<1>6. CASE s \notin listening /\ UNCHANGED <<down, backend, received>>
  <2>1. UNCHANGED <<down, listening, received>>
    BY <1>6 DEF backend
  <2>2. Heard' \subseteq Heard
    BY <1>1, <2>1, PopHeard
  <2> QED BY <1>1, <1>2, <1>6, <2>1, <2>2, UpLess
<1> QED BY <1>3, <1>4, <1>5, <1>6 DEF Receive

\* The back end keeps to it.
LEMMA BackendUp ==
  ASSUME TypeOK, Matched, Asked, DownStream, UpStream, BackendNext
  PROVE  UpStream'
<1>f. UNCHANGED <<socket, channelOpen, currentChannel, writeBuffer, pendingEmits>>
  BY DEF BackendNext, Receive, NoticeDisconnect, TimerFires, Serve, Restart, frontend,
         page, handshake
<1>a. UNCHANGED <<up, listening>> => AskOnly'
  BY <1>f, SameAskOnly
<1>1. ASSUME NEW s \in Session, NoticeDisconnect(s) PROVE UpStream'
  <2>1. /\ alive' = alive \ {s} /\ listening' = listening \ {s} /\ up' = Clear(up, s)
        /\ UNCHANGED down /\ received' \in {received, <<>>}
    BY <1>1 DEF NoticeDisconnect, HandleDisconnect, CloseConnection, SetConnection
  <2>2. \A t \in Session : t # s => up'[t] = up[t]
    BY <2>1, QueueTypes, ClearAt
  <2>3. alive \subseteq Session /\ listening \subseteq Session
    BY DEF TypeOK
  <2>4. AskOnly'
    BY <1>f, <2>1, <2>2, <2>3, SameAskOnly
  <2>5. Heard' \subseteq Heard
    BY <2>1, <2>2, <2>3, EmptyHolds DEF Heard
  <2> QED BY <1>f, <2>1, <2>4, <2>5, UpLess
<1>2. ASSUME NEW s \in Session, TimerFires(s) PROVE UpStream'
  <2>1. received' = <<>> /\ UNCHANGED <<up, down, alive, listening>>
    BY <1>2 DEF TimerFires, CloseConnection, SetConnection, network
  <2>2. Heard' \subseteq Heard
    BY <2>1, EmptyHolds DEF Heard
  <2> QED BY <1>f, <1>a, <2>1, <2>2, UpLess
<1>3. CASE Restart
  <2>1. alive' = {} /\ listening' = {} /\ received' = <<>> /\ UNCHANGED down
    BY <1>3 DEF Restart, SetConnection
  <2>2. Heard' \subseteq Heard /\ AskOnly'
    BY <2>1, EmptyHolds DEF Heard, AskOnly
  <2> QED BY <1>f, <2>1, <2>2, UpLess
<1>4. CASE Serve
  <2>1. UNCHANGED <<up, alive, listening, received>>
    BY <1>4 DEF Serve
  <2>2. Heard' = Heard
    BY <2>1 DEF Heard
  <2>3. \A t \in Session : NoInitial(down[t]) => NoInitial(down'[t])
    <3>1. CASE attached = 0
      BY <1>4, <3>1 DEF Serve
    <3>2. CASE attached # 0
      <4>1. PICK m \in Message : m = [from |-> connection, n |-> served + 1]
        <5>1. [from |-> connection, n |-> served + 1] \in Message
          BY BoundsAssumption DEF Message, TypeOK
        <5> QED BY <5>1
      <4>2. PICK p \in Seq(Packet) : p = <<Data(<<m>>)>> /\ NoInitial(p)
        BY OneDatum
      <4>3. down' = Emit(down, attached, p) /\ down \in Queues /\ attached \in Session
        BY <1>4, <3>2, <4>1, <4>2, QueueTypes DEF Serve
      <4> QED BY <4>2, <4>3, EmitInitial
    <3> QED BY <3>1, <3>2
  <2> QED BY <1>f, <1>a, <2>1, <2>2, <2>3, UpLess
<1> QED BY <1>1, <1>2, <1>3, <1>4, ReceiveUp DEF BackendNext

-----------------------------------------------------------------------------
(* All of it, in every reachable state.                                     *)

\* Nothing is on its way in the initial state.
LEMMA InitStreams == Init => Streams
<1> SUFFICES ASSUME Init PROVE Streams
  OBVIOUS
<1>1. \A s \in Session : down[s] = <<>>
  BY DEF Init
<1>2. Coming = {} /\ Heard = {}
  BY <1>1, EmptyHolds DEF Coming, Heard, Init
<1>3. OneSession
  BY DEF Init, OneSession
<1>4. Asked
  BY <1>1 DEF Init, Asked
<1>5. DownStream
  BY <1>1, <1>2, EmptyHolds DEF Init, DownStream, Precede
<1>6. UpStream
  BY <1>1, <1>2, EmptyHolds DEF Init, UpStream
<1> QED BY <1>3, <1>4, <1>5, <1>6 DEF Streams

\* Both ends hear of each other what the properties below say, as long as the
\* back end learns of a dead session before the front end opens the next one.
THEOREM StreamsKept ==
  ASSUME ~StaleDisconnects
  PROVE  Spec => [](TypeOK /\ Matched /\ Streams)
<1>1. TypeOK /\ TypeOK' /\ Matched /\ Streams /\ [Next]_vars => Streams'
  <2> SUFFICES ASSUME TypeOK, TypeOK', Matched, Streams, [Next]_vars PROVE Streams'
    OBVIOUS
  <2>0. OneSession /\ Asked /\ DownStream /\ UpStream
    BY DEF Streams
  <2>1. CASE Next
    <3>1. OneSession'
      BY <2>0, <2>1, OneSessionNext
    <3>2. Asked'
      BY <2>0, <2>1, FrontendAsked, BackendAsked DEF Next
    <3>3. DownStream'
      BY <2>0, <2>1, FrontendDown, BackendDown DEF Next
    <3>4. UpStream'
      BY <2>0, <2>1, FrontendUp, BackendUp DEF Next
    <3> QED BY <3>1, <3>2, <3>3, <3>4 DEF Streams
  <2>2. CASE UNCHANGED vars
    <3>1. /\ UNCHANGED <<socket, sessions, alive, listening, bound, up, down>>
          /\ UNCHANGED <<connection, attached, served, socketBuffer, received, delivered>>
          /\ UNCHANGED <<channelOpen, currentChannel, writeBuffer, pendingEmits>>
      BY <2>2 DEF vars, frontend, network, backend, page, handshake, context
    <3>2. Coming' = Coming /\ Heard' = Heard
      BY <3>1 DEF Coming, Heard
    <3>3. OneSession' /\ Asked'
      BY <2>0, <3>1 DEF OneSession, Asked
    <3>4. DownStream'
      BY <2>0, <3>1, <3>2 DEF DownStream, Own
    <3>5. UpStream'
      BY <2>0, <3>1, <3>2 DEF UpStream
    <3> QED BY <3>3, <3>4, <3>5 DEF Streams
  <2> QED BY <2>1, <2>2
<1> QED BY <1>1, InitStreams, TypeCorrect, MatchedAlways, PTL DEF Spec

\* When the front end takes its channel for connected, the back end has a
\* context for it, and that context is on the same session.
THEOREM SettledMeansAttached ==
  ASSUME ~StaleDisconnects
  PROVE  Spec => []AttachedWhenSettled
<1>1. TypeOK /\ Matched /\ Streams => AttachedWhenSettled
  BY SettledAttached DEF Streams, AttachedWhenSettled
<1> QED BY <1>1, StreamsKept, PTL

\* A context hears one channel only.
THEOREM ContextHearsOneChannel ==
  ASSUME ~StaleDisconnects
  PROVE  Spec => []OneChannelPerContext
<1>1. Streams => OneChannelPerContext
  <2>1. \A i \in 1 .. Len(received) : received[i] \in Heard
    BY DEF Heard, Elements
  <2> QED BY <2>1 DEF Streams, UpStream, OneChannelPerContext, SameSource
<1> QED BY <1>1, StreamsKept, PTL

\* A channel hears one context only.
THEOREM ChannelHearsOneContext ==
  ASSUME ~StaleDisconnects
  PROVE  Spec => []OneContextPerChannel
<1>1. TypeOK /\ Streams => OneContextPerChannel
  <2> SUFFICES ASSUME TypeOK, RisingMsgs(delivered),
                      NEW i \in 1 .. Len(delivered), NEW j \in 1 .. Len(delivered)
               PROVE  delivered[i].from = delivered[j].from
    BY DEF Streams, DownStream, OneContextPerChannel, SameSource
  <2>1. i < j \/ j < i \/ i = j
    OBVIOUS
  <2> QED BY <2>1 DEF RisingMsgs, Precede
<1> QED BY <1>1, StreamsKept, PTL

\* It hears it in order.
THEOREM ChannelHearsInOrder ==
  ASSUME ~StaleDisconnects
  PROVE  Spec => []DeliveredInOrder
<1>1. Streams => DeliveredInOrder
  BY DEF Streams, DownStream, RisingMsgs, Precede, DeliveredInOrder
<1> QED BY <1>1, StreamsKept, PTL
=============================================================================
